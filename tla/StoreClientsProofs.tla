------------------------- MODULE StoreClientsProofs -------------------------
(***************************************************************************)
(* Theorems about StoreClients, for any number of processes, threads,      *)
(* words, attempts, runs, questions, users, checkpoints and pages: the     *)
(* names of threads, the references to documents, the timelines of         *)
(* segments, the sections of the manual and the chunks it is cut into.     *)
(***************************************************************************)
EXTENDS StoreClients, SequenceTheorems, FiniteSetTheorems, WellFoundedInduction, TLAPS

\* What a process knows: past its claim it holds the row of its name, and past the
\* question it has one.
ClientOK(c) ==
  /\ DOMAIN c = DOMAIN Off
  /\ c.config \in Configs
  /\ c.at \in {"name", "claim", "thread"} => c.tid \in Threads /\ c.n \in 0..MaxRuns
  /\ c.at = "thread" => c.cand \in Names /\ ms[c.cand] = c.tid
  /\ c.at \in {"asked", "put"} => c.q \in Questions
ClientsInv == DOMAIN client = Procs /\ runs \in Nat /\ \A p \in Procs : ClientOK(client[p])

\* The names: the two rows of a thread agree once both are there.
NamesInv ==
  /\ ms \in [Names -> Threads \cup {NoOne}]
  /\ ts \in [Threads -> Names \cup {NoName}]
  /\ \A t \in Threads : ts[t] # NoName => ms[ts[t]] = t
  /\ \A pair \in named : pair[1] \in Threads /\ pair[2] \in Names /\ ms[pair[2]] = pair[1]

\* The index: a document is stored under its own key, and what was handed out is there.
IndexInv ==
  /\ layers \in [Layers -> [Keys -> Questions \cup {NoDocument}]]
  /\ \A l \in Layers, k \in Keys : layers[l][k] # NoDocument => Key[layers[l][k]] = k
  /\ \A r \in refs : r[1] \in Configs /\ r[2] \in Keys /\ Get(r[1], r[2]) # NoDocument

Inv == ClientsInv /\ NamesInv /\ IndexInv

LEMMA OffFacts ==
  /\ DOMAIN Off = {"at", "n", "tid", "attempt", "cand", "seg", "start", "tip", "last", "config", "q"}
  /\ Off.config \in Configs /\ Off.at = "off"
  <1>1. [mode |-> "trusted", user |-> "base"] \in Configs
    BY DEF Configs
  <1>2. AnyConfig \in Configs
    BY <1>1 DEF AnyConfig
  <1>3. QED BY <1>2 DEF Off

Plain == {"off", "named", "graph", "asking", "page", "section", "keywords", "built"}

LEMMA PlainOK ==
  ASSUME NEW c, DOMAIN c = DOMAIN Off, c.config \in Configs, c.at \in Plain
  PROVE  ClientOK(c) /\ ClientOK(c)'
  BY DEF ClientOK, Plain

\* The process p goes on, and leaves names and index alone.
LEMMA Goes ==
  ASSUME Inv, NEW p \in Procs, DOMAIN client' = Procs, runs' \in Nat,
         \A q \in Procs : q # p => client'[q] = client[q], ClientOK(client'[p]),
         UNCHANGED <<store, layers, out>>
  PROVE  Inv'
  <1>1. ms' = ms /\ ts' = ts /\ layers' = layers /\ named' = named /\ refs' = refs
    BY DEF store, out
  <1>2. ClientsInv'
    <2>1. \A q \in Procs : ClientOK(client'[q])
      BY DEF Inv, ClientsInv
    <2>2. QED BY <1>1, <2>1 DEF ClientsInv, ClientOK
  <1>3. NamesInv' /\ IndexInv'
    BY <1>1 DEF Inv, NamesInv, IndexInv, Get
  <1>4. QED BY <1>2, <1>3 DEF Inv

LEMMA GoesPlainly ==
  ASSUME Inv, NEW p \in Procs, NEW c, client' = [client EXCEPT ![p] = c], runs' \in Nat,
         DOMAIN c = DOMAIN Off, c.config \in Configs, c.at \in Plain,
         UNCHANGED <<store, layers, out>>
  PROVE  Inv'
  <1>1. DOMAIN client' = Procs /\ client'[p] = c /\ \A q \in Procs : q # p => client'[q] = client[q]
    BY DEF Inv, ClientsInv
  <1>2. ClientOK(client'[p])
    BY <1>1, PlainOK
  <1>3. QED BY <1>1, <1>2, Goes

LEMMA Stays ==
  ASSUME Inv, client' = client, runs' \in Nat, UNCHANGED <<store, layers, out>>
  PROVE  Inv'
  <1>1. ms' = ms /\ ts' = ts /\ layers' = layers /\ named' = named /\ refs' = refs
    BY DEF store, out
  <1>2. QED BY <1>1 DEF Inv, ClientsInv, ClientOK, NamesInv, IndexInv, Get

LEMMA ClientFacts ==
  ASSUME Inv, NEW p \in Procs
  PROVE  /\ ClientOK(client[p]) /\ DOMAIN client = Procs /\ runs \in Nat
         /\ DOMAIN client[p] = DOMAIN Off /\ client[p].config \in Configs
  BY DEF Inv, ClientsInv, ClientOK

LEMMA InitInv == Init => Inv
  <1> SUFFICES ASSUME Init PROVE Inv
    OBVIOUS
  <1>1. ClientsInv
    <2>1. ASSUME NEW p \in Procs PROVE ClientOK(client[p])
      <3>1. client[p] = Off
        BY DEF Init
      <3>2. QED BY <3>1, OffFacts, PlainOK DEF Plain
    <2>2. QED BY <2>1 DEF Init, ClientsInv
  <1>2. NamesInv
    BY DEF Init, MnemonicsInit, NamesInv
  <1>3. IndexInv
    BY DEF Init, IndexInit, IndexInv
  <1>4. QED BY <1>1, <1>2, <1>3 DEF Inv

-----------------------------------------------------------------------------
(* Starts, and the steps that touch neither names nor index *)

LEMMA StartKeeps ==
  ASSUME Inv, NEW p \in Procs, NEW first, Start(p, first),
         ClientOK(first), MaxRuns \in Nat
  PROVE  Inv'
  <1>1. /\ client' = [client EXCEPT ![p] = first] /\ runs' = runs + 1
        /\ UNCHANGED <<store, layers, out>>
    BY DEF Start
  <1>2. DOMAIN client' = Procs /\ client'[p] = first /\ \A q \in Procs : q # p => client'[q] = client[q]
    BY <1>1, ClientFacts
  <1>3. runs' \in Nat
    BY <1>1, ClientFacts
  <1>4. QED BY <1>1, <1>2, <1>3, Goes

LEMMA StartsKeep ==
  ASSUME Inv, NEW p \in Procs,
         \/ \E t \in Threads : StartThread(p, t)
         \/ \E c \in Configs : StartAsking(p, c)
         \/ \E b \in {"postgres", "chroma"} : StartBuild(p, b)
  PROVE  Inv'
  <1>1. ASSUME NEW t \in Threads, StartThread(p, t) PROVE Inv'
    <2> DEFINE c == [Off EXCEPT !.at = "name", !.n = runs + 1, !.tid = t]
    <2>1. Start(p, c) /\ runs < MaxRuns
      BY <1>1 DEF StartThread, Start
    <2>2. DOMAIN c = DOMAIN Off /\ c.config \in Configs /\ c.at = "name" /\ c.tid = t /\ c.n = runs + 1
      BY OffFacts
    <2>3. runs + 1 \in 0..MaxRuns
      BY <2>1, ClientFacts, MnemonicAssumption
    <2>4. ClientOK(c)
      BY <2>2, <2>3 DEF ClientOK
    <2>5. QED BY <2>1, <2>4, StartKeeps, MnemonicAssumption
  <1>2. ASSUME NEW config \in Configs, StartAsking(p, config) PROVE Inv'
    <2> DEFINE c == [Off EXCEPT !.at = "asking", !.config = config]
    <2>1. DOMAIN c = DOMAIN Off /\ c.config \in Configs /\ c.at = "asking"
      BY OffFacts
    <2>2. ClientOK(c)
      BY <2>1, PlainOK DEF Plain
    <2>3. QED BY <1>2, <2>2, StartKeeps, MnemonicAssumption DEF StartAsking
  <1>3. ASSUME NEW b, StartBuild(p, b) PROVE Inv'
    <2> DEFINE c == [Off EXCEPT !.at = "page"]
    <2>1. DOMAIN c = DOMAIN Off /\ c.config \in Configs /\ c.at = "page"
      BY OffFacts
    <2>2. ClientOK(c)
      BY <2>1, PlainOK DEF Plain
    <2>3. QED BY <1>3, <2>2, StartKeeps, MnemonicAssumption DEF StartBuild
  <1>4. QED BY <1>1, <1>2, <1>3

\* Steps of the graph, of the builder and of the end.
LEMMA OtherStepsKeep ==
  ASSUME Inv, NEW p \in Procs,
         \/ OpenSegment(p) \/ SuperStep(p) \/ CloseSegment(p)
         \/ WalkPage(p) \/ EndPage(p) \/ AddManualSection(p) \/ AddToKeywords(p)
         \/ EmbedRest(p) \/ EndBuild(p) \/ Kill(p)
  PROVE  Inv'
  <1>1. /\ runs' = runs /\ UNCHANGED <<store, layers, out>>
    BY DEF OpenSegment, SuperStep, CloseSegment, WalkPage, EndPage, AddManualSection, AddToKeywords,
           EmbedRest, EndBuild, Kill
  <1>2. runs' \in Nat
    BY <1>1, ClientFacts
  <1>3. CASE WalkPage(p)
    BY <1>1, <1>2, <1>3, Stays DEF WalkPage
  <1>4. ASSUME client' = [client EXCEPT ![p] = Off] PROVE Inv'
    BY <1>1, <1>2, <1>4, OffFacts, GoesPlainly DEF Plain
  <1>5. ASSUME NEW at \in Plain, NEW n, client' = [client EXCEPT ![p].at = at, ![p].n = n] PROVE Inv'
    <2> DEFINE c == [client[p] EXCEPT !.at = at, !.n = n]
    <2>1. DOMAIN c = DOMAIN Off /\ c.config \in Configs /\ c.at = at
      BY ClientFacts, OffFacts
    <2>2. client' = [client EXCEPT ![p] = c]
      BY <1>5, ClientFacts
    <2>3. QED BY <1>1, <1>2, <2>1, <2>2, GoesPlainly
  <1>6. ASSUME NEW at \in Plain, client' = [client EXCEPT ![p].at = at] PROVE Inv'
    <2> DEFINE c == [client[p] EXCEPT !.at = at]
    <2>1. DOMAIN c = DOMAIN Off /\ c.config \in Configs /\ c.at = at
      BY ClientFacts, OffFacts
    <2>2. client' = [client EXCEPT ![p] = c]
      BY <1>6, ClientFacts
    <2>3. QED BY <1>1, <1>2, <2>1, <2>2, GoesPlainly
  <1>7. ASSUME client[p].at = "section", NEW n, client' = [client EXCEPT ![p].n = n] PROVE Inv'
    <2> DEFINE c == [client[p] EXCEPT !.n = n]
    <2>1. DOMAIN c = DOMAIN Off /\ c.config \in Configs /\ c.at = "section"
      BY <1>7, ClientFacts, OffFacts
    <2>2. client' = [client EXCEPT ![p] = c]
      BY <1>7, ClientFacts
    <2>3. QED BY <1>1, <1>2, <2>1, <2>2, GoesPlainly DEF Plain
  <1>8. CASE OpenSegment(p)
    <2> DEFINE tip(start) == IF start = NoCheckpoint THEN Latest(client[p].tid) ELSE start
    <2>1. PICK start \in {NoCheckpoint} \cup OfThread(client[p].tid) :
            client' = [client EXCEPT ![p].at = "graph", ![p].seg = Len(records) + 1, ![p].start = start,
                                     ![p].tip = tip(start)]
      BY <1>8 DEF OpenSegment
    <2> DEFINE c == [client[p] EXCEPT !.at = "graph", !.seg = Len(records) + 1, !.start = start,
                                      !.tip = tip(start)]
    <2> HIDE DEF tip
    <2>2. DOMAIN c = DOMAIN Off /\ c.config \in Configs /\ c.at = "graph"
      BY ClientFacts, OffFacts
    <2>3. client' = [client EXCEPT ![p] = c]
      BY <2>1, ClientFacts
    <2>4. QED BY <1>1, <1>2, <2>2, <2>3, GoesPlainly DEF Plain
  <1>9. CASE SuperStep(p)
    <2>1. client' = [client EXCEPT ![p].tip = New, ![p].last = New] /\ client[p].at = "graph"
      BY <1>9 DEF SuperStep
    <2> DEFINE c == [client[p] EXCEPT !.tip = New, !.last = New]
    <2>2. DOMAIN c = DOMAIN Off /\ c.config \in Configs /\ c.at = "graph"
      BY <2>1, ClientFacts, OffFacts
    <2>3. client' = [client EXCEPT ![p] = c]
      BY <2>1, ClientFacts
    <2>4. QED BY <1>1, <1>2, <2>2, <2>3, GoesPlainly DEF Plain
  <1>10. CASE CloseSegment(p) \/ EndBuild(p) \/ Kill(p)
    BY <1>4, <1>10 DEF CloseSegment, EndBuild, Kill
  <1>11. CASE EndPage(p) \/ AddToKeywords(p) \/ EmbedRest(p)
    <2>1. CASE EndPage(p)
      BY <1>5, <2>1 DEF EndPage, Plain
    <2>2. CASE AddToKeywords(p)
      <3>1. client' = [client EXCEPT ![p].at = "section", ![p].n = client[p].n + 1]
        BY <2>2, ClientFacts, OffFacts DEF AddToKeywords
      <3>2. QED BY <1>5, <3>1 DEF Plain
    <2>3. CASE EmbedRest(p)
      BY <1>6, <2>3 DEF EmbedRest, Goto, Plain
    <2>4. QED BY <1>11, <2>1, <2>2, <2>3
  <1>12. CASE AddManualSection(p)
    <2>1. /\ client[p].at = "section"
          /\ \/ client' = [client EXCEPT ![p] = Off]
             \/ client' = [client EXCEPT ![p].at = "keywords"]
             \/ client' = [client EXCEPT ![p].n = @ + 1]
      BY <1>12 DEF AddManualSection
    <2>2. QED BY <1>4, <1>6, <1>7, <2>1 DEF Plain
  <1>13. QED BY <1>3, <1>8, <1>9, <1>10, <1>11, <1>12

-----------------------------------------------------------------------------
(* Names *)

LEMMA NamedKeeps ==
  ASSUME Inv, NEW p \in Procs, NEW name \in Names, Named(p, name),
         runs' \in Nat, layers' = layers, refs' = refs, ts' \in [Threads -> Names \cup {NoName}],
         ms' = ms, \A t \in Threads : ts'[t] # NoName => ms[ts'[t]] = t,
         client[p].tid \in Threads, ms[name] = client[p].tid
  PROVE  Inv'
  <1> DEFINE c == [Off EXCEPT !.at = "named", !.tid = client[p].tid]
  <1>1. DOMAIN c = DOMAIN Off /\ c.config \in Configs /\ c.at = "named"
    BY OffFacts
  <1>2. client' = [client EXCEPT ![p] = c] /\ named' = named \cup {<<client[p].tid, name>>}
    BY DEF Named
  <1>3. DOMAIN client' = Procs /\ client'[p] = c /\ \A q \in Procs : q # p => client'[q] = client[q]
    BY <1>2, ClientFacts
  <1>4. ClientsInv'
    <2>1. ClientOK(c)
      BY <1>1, PlainOK DEF Plain
    <2>2. \A q \in Procs : ClientOK(client'[q])
      BY <1>3, <2>1, ClientFacts
    <2>3. QED BY <1>3, <2>2 DEF ClientsInv, ClientOK
  <1>5. NamesInv'
    BY <1>2 DEF Inv, NamesInv
  <1>6. IndexInv'
    BY DEF Inv, IndexInv, Get
  <1>7. QED BY <1>4, <1>5, <1>6 DEF Inv

LEMMA GotoFacts ==
  ASSUME Inv, NEW p \in Procs, NEW at, Goto(p, at)
  PROVE  /\ DOMAIN client' = Procs /\ \A q \in Procs : q # p => client'[q] = client[q]
         /\ DOMAIN client'[p] = DOMAIN Off /\ client'[p].config = client[p].config
         /\ client'[p].at = at /\ client'[p].tid = client[p].tid /\ client'[p].n = client[p].n
         /\ client'[p].q = client[p].q
  BY ClientFacts, OffFacts DEF Goto

LEMMA FindKeeps == ASSUME Inv, NEW p \in Procs, FindMnemonic(p) PROVE Inv'
  <1>1. /\ client[p].at = "name" /\ UNCHANGED <<store, layers>> /\ runs' = runs /\ refs' = refs
        /\ ms' = ms /\ ts' = ts
    BY DEF FindMnemonic, store
  <1>2. client[p].tid \in Threads /\ client[p].n \in 0..MaxRuns /\ runs' \in Nat
    BY <1>1, ClientFacts DEF ClientOK
  <1>3. CASE ts[client[p].tid] # NoName
    <2>1. Named(p, ts[client[p].tid])
      BY <1>3 DEF FindMnemonic
    <2>2. ts[client[p].tid] \in Names /\ ms[ts[client[p].tid]] = client[p].tid
      BY <1>2, <1>3 DEF Inv, NamesInv
    <2>3. ts' \in [Threads -> Names \cup {NoName}] /\ \A t \in Threads : ts'[t] # NoName => ms[ts'[t]] = t
      BY <1>1 DEF Inv, NamesInv
    <2>4. QED BY <1>1, <1>2, <2>1, <2>2, <2>3, NamedKeeps
  <1>4. CASE ts[client[p].tid] = NoName
    <2>1. Goto(p, "claim") /\ named' = named
      BY <1>4 DEF FindMnemonic
    <2>2. ClientOK(client'[p])
      BY <1>2, <2>1, GotoFacts, ClientFacts DEF ClientOK
    <2>3. UNCHANGED <<store, layers, out>>
      BY <1>1, <2>1 DEF out
    <2>4. QED BY <1>2, <2>1, <2>2, <2>3, GotoFacts, Goes
  <1>5. QED BY <1>3, <1>4

LEMMA ClaimKeeps == ASSUME Inv, NEW p \in Procs, ClaimMnemonic(p) PROVE Inv'
  <1>1. /\ client[p].at = "claim" /\ UNCHANGED <<ts, layers, out>> /\ runs' = runs
    BY DEF ClaimMnemonic
  <1>2. client[p].tid \in Threads /\ client[p].n \in 0..MaxRuns /\ runs' \in Nat
    BY <1>1, ClientFacts DEF ClientOK
  <1>3. PICK cand \in Candidates(client[p].attempt, client[p].n) :
          /\ Claim(cand, client[p].tid)
          /\ client' = IF Claimed(cand) THEN [client EXCEPT ![p].at = "thread", ![p].cand = cand]
                       ELSE [client EXCEPT ![p].attempt = @ + 1]
    BY DEF ClaimMnemonic
  <1>4. cand \in Names
    BY <1>2, MnemonicAssumption DEF Candidates, Names
  <1>5. CASE ~Claimed(cand)
    <2> DEFINE c == [client[p] EXCEPT !.attempt = client[p].attempt + 1]
    <2>1. ms' = ms /\ client' = [client EXCEPT ![p] = c]
      BY <1>3, <1>5, ClientFacts, OffFacts DEF Claim
    <2>2. /\ DOMAIN c = DOMAIN Off /\ c.config \in Configs /\ c.at = "claim"
          /\ c.tid = client[p].tid /\ c.n = client[p].n
      BY <1>1, ClientFacts, OffFacts
    <2>3. ClientOK(c)
      BY <1>2, <2>2 DEF ClientOK
    <2>4. DOMAIN client' = Procs /\ client'[p] = c /\ \A q \in Procs : q # p => client'[q] = client[q]
      BY <2>1, ClientFacts
    <2>5. UNCHANGED <<store, layers, out>>
      BY <1>1, <2>1 DEF store
    <2>6. QED BY <1>2, <2>3, <2>4, <2>5, Goes
  <1>6. CASE Claimed(cand)
    <2> DEFINE c == [client[p] EXCEPT !.at = "thread", !.cand = cand]
    <2>1. ms[cand] = NoOne /\ ms' = [ms EXCEPT ![cand] = client[p].tid]
      BY <1>3, <1>6 DEF Claim, Claimed
    \* A row that is there stays as it is.
    <2>2. \A m \in Names : ms[m] \in Threads => ms'[m] = ms[m]
      BY <2>1, <1>4, MnemonicAssumption DEF Inv, NamesInv
    <2>3. ms'[cand] = client[p].tid /\ ms' \in [Names -> Threads \cup {NoOne}]
      BY <1>2, <1>4, <2>1 DEF Inv, NamesInv
    <2>4. /\ DOMAIN c = DOMAIN Off /\ c.config \in Configs /\ c.at = "thread"
          /\ c.tid = client[p].tid /\ c.n = client[p].n /\ c.cand = cand
      BY ClientFacts, OffFacts
    <2>5. /\ DOMAIN client' = Procs /\ client'[p] = c
          /\ \A q \in Procs : q # p => client'[q] = client[q]
      <3>1. client' = [client EXCEPT ![p] = c]
        BY <1>3, <1>6, ClientFacts
      <3>2. QED BY <3>1, ClientFacts
    <2>6. ASSUME NEW q \in Procs PROVE ClientOK(client[q])'
      <3>1. CASE q = p
        BY <1>2, <1>4, <2>3, <2>4, <2>5, <3>1 DEF ClientOK
      <3>2. CASE q # p
        <4>1. client'[q] = client[q] /\ ClientOK(client[q])
          BY <2>5, <3>2, ClientFacts
        <4>2. QED BY <2>2, <4>1 DEF ClientOK
      <3>3. QED BY <3>1, <3>2
    <2>7. ClientsInv'
      BY <1>2, <2>5, <2>6 DEF ClientsInv
    <2>8. NamesInv'
      <3>1. ts' = ts /\ named' = named
        BY <1>1 DEF out
      <3>2. \A t \in Threads : ts[t] # NoName => ms'[ts[t]] = t
        BY <2>2 DEF Inv, NamesInv
      <3>3. \A pair \in named : pair[1] \in Threads /\ pair[2] \in Names /\ ms'[pair[2]] = pair[1]
        BY <2>2 DEF Inv, NamesInv
      <3>4. QED BY <2>3, <3>1, <3>2, <3>3 DEF Inv, NamesInv
    <2>9. IndexInv'
      BY <1>1 DEF Inv, IndexInv, Get, out
    <2>10. QED BY <2>7, <2>8, <2>9 DEF Inv
  <1>7. QED BY <1>5, <1>6

LEMMA PutThreadKeeps == ASSUME Inv, NEW p \in Procs, PutThread(p) PROVE Inv'
  <1>1. /\ client[p].at = "thread" /\ ts' = [ts EXCEPT ![client[p].tid] = client[p].cand]
        /\ Named(p, client[p].cand) /\ ms' = ms /\ layers' = layers /\ runs' = runs /\ refs' = refs
    BY DEF PutThread
  <1>2. client[p].tid \in Threads /\ client[p].cand \in Names /\ ms[client[p].cand] = client[p].tid
    BY <1>1, ClientFacts DEF ClientOK
  <1>3. ts' \in [Threads -> Names \cup {NoName}] /\ \A t \in Threads : ts'[t] # NoName => ms[ts'[t]] = t
    BY <1>1, <1>2 DEF Inv, NamesInv
  <1>4. runs' \in Nat
    BY <1>1, ClientFacts
  <1>5. QED BY <1>1, <1>2, <1>3, <1>4, NamedKeeps

-----------------------------------------------------------------------------
(* The index *)

LEMMA ConfigFacts ==
  ASSUME NEW c \in Configs
  PROVE  /\ WriteLayer(c) \in Layers
         /\ c.mode = "tiered" => c.user \in Layers /\ WriteLayer(c) = c.user
         /\ c.mode # "tiered" => WriteLayer(c) = "base"
  BY DEF Configs, WriteLayer, Layers

\* What is in the layer an index writes to is found by it.
LEMMA WrittenIsFound ==
  ASSUME NEW c \in Configs, NEW k, layers[WriteLayer(c)][k] # NoDocument
  PROVE  Get(c, k) # NoDocument
  BY ConfigFacts DEF Get

\* The process goes on, perhaps with a reference that resolves.
LEMMA HandsOut ==
  ASSUME Inv, NEW p \in Procs, NEW k \in Keys, Get(client[p].config, k) # NoDocument,
         HandOut(p, k), DOMAIN client' = Procs, runs' \in Nat,
         \A q \in Procs : q # p => client'[q] = client[q], ClientOK(client'[p]),
         UNCHANGED <<store, layers, named>>
  PROVE  Inv'
  <1>1. ms' = ms /\ ts' = ts /\ layers' = layers /\ named' = named
    BY DEF store
  <1>2. ClientsInv'
    <2>1. \A q \in Procs : ClientOK(client'[q])
      BY ClientFacts
    <2>2. QED BY <1>1, <2>1 DEF ClientsInv, ClientOK
  <1>3. NamesInv'
    BY <1>1 DEF Inv, NamesInv
  <1>4. IndexInv'
    <2>1. refs' = refs \cup {<<client[p].config, k>>} /\ client[p].config \in Configs
      BY ClientFacts DEF HandOut
    <2>2. QED BY <1>1, <2>1 DEF Inv, IndexInv, Get
  <1>5. QED BY <1>2, <1>3, <1>4 DEF Inv

LEMMA AskKeeps == ASSUME Inv, NEW p \in Procs, NEW q \in Questions, AskQuestion(p, q) PROVE Inv'
  <1>1. /\ UNCHANGED <<store, layers>> /\ runs' = runs /\ named' = named
    BY DEF AskQuestion
  <1>2. runs' \in Nat /\ Key[q] \in Keys
    BY <1>1, ClientFacts DEF Keys
  <1>3. CASE Get(client[p].config, Key[q]) # NoDocument
    <2>1. HandOut(p, Key[q]) /\ client' = client
      BY <1>3 DEF AskQuestion
    <2>2. QED BY <1>1, <1>2, <1>3, <2>1, ClientFacts, HandsOut
  <1>4. CASE Get(client[p].config, Key[q]) = NoDocument
    <2> DEFINE c == [client[p] EXCEPT !.at = "asked", !.q = q]
    <2>1. refs' = refs /\ client' = [client EXCEPT ![p] = c]
      BY <1>4, ClientFacts DEF AskQuestion
    <2>2. DOMAIN c = DOMAIN Off /\ c.config \in Configs /\ c.at = "asked" /\ c.q = q
      BY ClientFacts, OffFacts
    <2>3. ClientOK(c)
      BY <2>2 DEF ClientOK
    <2>4. DOMAIN client' = Procs /\ client'[p] = c /\ \A r \in Procs : r # p => client'[r] = client[r]
      BY <2>1, ClientFacts
    <2>5. UNCHANGED <<store, layers, out>>
      BY <1>1, <2>1 DEF out
    <2>6. QED BY <1>2, <2>3, <2>4, <2>5, Goes
  <1>5. QED BY <1>3, <1>4

LEMMA FirstWriteKeeps == ASSUME Inv, NEW p \in Procs, FirstWrite(p) PROVE Inv'
  <1> DEFINE c == client[p].config
             k == Key[client[p].q]
  <1>1. /\ client[p].at = "asked" /\ UNCHANGED <<store, layers>> /\ runs' = runs /\ named' = named
    BY DEF FirstWrite
  <1>2. c \in Configs /\ client[p].q \in Questions /\ k \in Keys /\ runs' \in Nat
    BY <1>1, ClientFacts DEF ClientOK, Keys
  <1>3. ASSUME NEW at \in {"asking", "put"}, Goto(p, at) PROVE ClientOK(client'[p])
    BY <1>2, <1>3, GotoFacts DEF ClientOK
  <1>4. ASSUME NEW at \in {"asking", "put"}, Goto(p, at), refs' = refs PROVE Inv'
    <2>1. UNCHANGED <<store, layers, out>>
      BY <1>1, <1>4 DEF out
    <2>2. QED BY <1>2, <1>3, <1>4, <2>1, GotoFacts, Goes
  <1>5. CASE ReadOnly(c)
    BY <1>4, <1>5 DEF FirstWrite
  <1>6. CASE ~ReadOnly(c) /\ layers[WriteLayer(c)][k] # NoDocument
    <2>1. HandOut(p, k) /\ Goto(p, "asking")
      BY <1>6 DEF FirstWrite
    <2>2. Get(c, k) # NoDocument
      BY <1>2, <1>6, WrittenIsFound
    <2>3. QED BY <1>1, <1>2, <1>3, <2>1, <2>2, GotoFacts, HandsOut
  <1>7. CASE ~ReadOnly(c) /\ layers[WriteLayer(c)][k] = NoDocument
    BY <1>4, <1>7 DEF FirstWrite
  <1>8. QED BY <1>5, <1>6, <1>7

LEMMA PutAnswerKeeps == ASSUME Inv, NEW p \in Procs, PutAnswer(p) PROVE Inv'
  <1> DEFINE c == client[p].config
             q == client[p].q
             k == Key[q]
             w == WriteLayer(c)
  <1>1. /\ client[p].at = "put" /\ Put(c, q) /\ HandOut(p, k) /\ Goto(p, "asking")
        /\ ms' = ms /\ ts' = ts /\ runs' = runs /\ named' = named
    BY DEF PutAnswer, store
  <1>2. c \in Configs /\ q \in Questions /\ k \in Keys /\ runs' \in Nat /\ w \in Layers
    BY <1>1, ClientFacts, ConfigFacts DEF ClientOK, Keys
  <1>3. layers' = [layers EXCEPT ![w][k] = q]
    BY <1>1 DEF Put
  <1>4. layers' \in [Layers -> [Keys -> Questions \cup {NoDocument}]]
    BY <1>2, <1>3 DEF Inv, IndexInv
  <1>5. /\ layers'[w][k] = q
        /\ \A l \in Layers, j \in Keys : ~(l = w /\ j = k) => layers'[l][j] = layers[l][j]
    BY <1>2, <1>3 DEF Inv, IndexInv
  \* What was in a layer is in it still, under its key.
  <1>6. /\ \A l \in Layers, j \in Keys : layers[l][j] # NoDocument => layers'[l][j] # NoDocument
        /\ \A l \in Layers, j \in Keys : layers'[l][j] # NoDocument => Key[layers'[l][j]] = j
    BY <1>2, <1>5, IndexAssumption DEF Inv, IndexInv
  <1>7. ASSUME NEW d \in Configs, NEW j \in Keys, Get(d, j) # NoDocument PROVE Get(d, j)' # NoDocument
    <2>1. CASE d.mode = "tiered" /\ layers[d.user][j] # NoDocument
      <3>1. d.user \in Layers
        BY <2>1, ConfigFacts
      <3>2. QED BY <1>6, <2>1, <3>1 DEF Get
    <2>2. CASE ~(d.mode = "tiered" /\ layers[d.user][j] # NoDocument)
      <3>1. layers["base"][j] # NoDocument /\ "base" \in Layers
        BY <1>7, <2>2 DEF Get, Layers
      <3>2. layers'["base"][j] # NoDocument
        BY <1>6, <3>1
      <3>3. QED BY <3>2 DEF Get
    <2>3. QED BY <2>1, <2>2
  <1>8. ASSUME NEW d \in Configs, NEW j \in Keys, d = c, j = k PROVE Get(d, j)' # NoDocument
    <2>1. layers'[WriteLayer(d)][j] # NoDocument
      BY <1>2, <1>5, <1>8, IndexAssumption
    <2>2. QED BY <2>1, ConfigFacts DEF Get
  <1>9. IndexInv'
    <2>1. refs' = refs \cup {<<c, k>>}
      BY <1>1 DEF HandOut
    <2>2. ASSUME NEW r \in refs'
          PROVE  r[1] \in Configs /\ r[2] \in Keys /\ Get(r[1], r[2])' # NoDocument
      <3>1. CASE r \in refs
        BY <1>7, <3>1 DEF Inv, IndexInv
      <3>2. CASE r = <<c, k>>
        <4>1. r[1] = c /\ r[2] = k
          BY <3>2
        <4>2. QED BY <1>2, <1>8, <4>1
      <3>3. QED BY <2>1, <3>1, <3>2
    <2>3. QED BY <1>4, <1>6, <2>2 DEF IndexInv
  <1>10. NamesInv'
    BY <1>1 DEF Inv, NamesInv
  <1>11. ClientsInv'
    <2>1. ClientOK(client'[p])
      BY <1>1, <1>2, GotoFacts DEF ClientOK
    <2>2. \A r \in Procs : ClientOK(client'[r])
      BY <1>1, <2>1, GotoFacts, ClientFacts
    <2>3. QED BY <1>1, <1>2, <2>2, GotoFacts DEF ClientsInv, ClientOK
  <1>12. QED BY <1>9, <1>10, <1>11 DEF Inv

-----------------------------------------------------------------------------
(* Results *)

LEMMA NextInv == Inv /\ [Next]_vars => Inv'
  <1> SUFFICES ASSUME Inv, [Next]_vars PROVE Inv'
    OBVIOUS
  <1>1. ASSUME NEW p \in Procs, FindMnemonic(p) \/ ClaimMnemonic(p) \/ PutThread(p) PROVE Inv'
    BY <1>1, FindKeeps, ClaimKeeps, PutThreadKeeps
  <1>2. ASSUME NEW p \in Procs,
               (\E q \in Questions : AskQuestion(p, q)) \/ FirstWrite(p) \/ PutAnswer(p)
        PROVE  Inv'
    BY <1>2, AskKeeps, FirstWriteKeeps, PutAnswerKeeps
  <1>3. CASE UNCHANGED vars
    <2>1. client' = client /\ runs' = runs /\ UNCHANGED <<store, layers, out>>
      BY <1>3 DEF vars, store, out
    <2>2. runs' \in Nat
      BY <2>1 DEF Inv, ClientsInv
    <2>3. QED BY <2>1, <2>2, Stays
  <1>4. QED BY <1>1, <1>2, <1>3, StartsKeep, OtherStepsKeep DEF Next

LEMMA ClientsInvariant == Spec => []Inv
  BY InitInv, NextInv, PTL DEF Spec

\* A name that was given out for a thread names that thread for ever, whoever
\* else draws it at the same time or dies between its two rows
\* (io/mnemonic_store.py, _assign_pgsql_mnemonic).
THEOREM NamesAreKept == Spec => []MnemonicNamesThread
  <1>1. Inv => MnemonicNamesThread
    BY DEF Inv, NamesInv, MnemonicNamesThread
  <1>2. QED BY <1>1, ClientsInvariant, PTL

\* A Document-Ref that was given out resolves to a document of its key, whichever
\* layers other users and modes write (spec/agent_index.py, aput and aget).
THEOREM RefsAlwaysResolve == Spec => []RefsResolve
  <1>1. ASSUME Inv, NEW r \in refs
        PROVE  Get(r[1], r[2]) # NoDocument /\ Key[Get(r[1], r[2])] = r[2]
    <2>1. r[1] \in Configs /\ r[2] \in Keys /\ Get(r[1], r[2]) # NoDocument
      BY <1>1 DEF Inv, IndexInv
    <2>2. PICK l \in Layers : Get(r[1], r[2]) = layers[l][r[2]]
      BY <2>1, ConfigFacts DEF Get, Layers
    <2>3. QED BY <1>1, <2>1, <2>2 DEF Inv, IndexInv
  <1>2. Inv => RefsResolve
    BY <1>1 DEF RefsResolve
  <1>3. QED BY <1>2, ClientsInvariant, PTL

-----------------------------------------------------------------------------
(* Recursion.  The definitions that the timeline rests on are recursive:    *)
(* each value is made of one value of a lower rank.                         *)

Below == {p \in Nat \X Nat : p[1] < p[2]}

\* A set with zero that is closed under successor holds every natural number.
LEMMA NatClosed ==
  ASSUME NEW T, 0 \in T, \A n \in Nat : n \in T => n + 1 \in T
  PROVE  Nat \subseteq T
  <1> DEFINE bad == Nat \ T
  <1>1. SUFFICES ASSUME bad # {} PROVE FALSE
    OBVIOUS
  <1>2. IsWellFoundedOn(Below, Nat)
    <2>1. OpToRel(<, Nat) = Below
      BY DEF OpToRel, Below
    <2>2. QED BY <2>1, NatLessThanWellFounded
  <1>3. \E x \in bad : \A y \in bad : ~(<<y, x>> \in Below)
    <2> HIDE DEF bad
    <2>1. bad \subseteq Nat BY DEF bad
    <2>2. QED BY <1>1, <1>2, <2>1, WFMin
  <1>4. PICK x \in bad : \A y \in bad : ~(<<y, x>> \in Below)
    BY <1>3
  <1>5. x \in Nat /\ x # 0 /\ x - 1 \in Nat /\ x - 1 < x /\ (x - 1) + 1 = x
    OBVIOUS
  <1>6. x - 1 \notin T
    BY <1>5
  <1> DEFINE p == <<x - 1, x>>
  <1>7. p \in Nat \X Nat /\ p[1] = x - 1 /\ p[2] = x
    BY <1>5
  <1>8. p \in Below
    <2> HIDE DEF p
    <2>1. QED BY <1>5, <1>7 DEF Below
  <1>9. QED BY <1>4, <1>5, <1>6, <1>8

\* f is base on B, and elsewhere what G makes of a point and of f at its predecessor.
IsRecursive(f, D, B, base, pred, G, V) ==
  /\ f \in [D -> V]
  /\ \A x \in D : f[x] = IF x \in B THEN base[x] ELSE G[<<x, f[pred[x]]>>]
Descending(D, B, pred, rank) ==
  \A x \in D : rank[x] \in Nat /\ (x \notin B => pred[x] \in D /\ rank[pred[x]] < rank[x])

LEMMA Recursion ==
  ASSUME NEW D, NEW B, NEW V, NEW base, \A x \in D : x \in B => base[x] \in V,
         NEW pred, NEW rank, Descending(D, B, pred, rank),
         NEW G, G \in [D \X V -> V]
  PROVE  \E f : IsRecursive(f, D, B, base, pred, G, V)
  <1> DEFINE Upto(m) == {x \in D : rank[x] <= m}
             Value(f, x) == IF x \in B THEN base[x] ELSE G[<<x, f[pred[x]]>>]
             Holds(f, m) == f \in [Upto(m) -> V] /\ \A x \in Upto(m) : f[x] = Value(f, x)
             T == {m \in Nat : \E f : Holds(f, m)}
             Glued(g) == [x \in D |-> g[rank[x]][x]]
  <1>1. ASSUME NEW m \in Nat, NEW f \in [Upto(m) -> V]
        PROVE  /\ \A x \in Upto(m + 1) : x \notin B => pred[x] \in Upto(m)
               /\ \A x \in Upto(m + 1) : Value(f, x) \in V
    <2>1. ASSUME NEW x \in Upto(m + 1), x \notin B PROVE pred[x] \in Upto(m)
      BY <2>1 DEF Descending
    <2>2. ASSUME NEW x \in Upto(m + 1) PROVE Value(f, x) \in V
      <3>1. CASE x \in B
        BY <3>1
      <3>2. CASE x \notin B
        <4>1. f[pred[x]] \in V
          BY <2>1, <3>2
        <4>2. <<x, f[pred[x]]>> \in D \X V
          BY <4>1
        <4>3. QED BY <3>2, <4>2
      <3>3. QED BY <3>1, <3>2
    <2>3. QED BY <2>1, <2>2
  <1>2. 0 \in T
    <2> DEFINE f == [x \in Upto(0) |-> base[x]]
    <2>1. \A x \in Upto(0) : x \in B
      BY DEF Descending
    <2>2. Holds(f, 0)
      BY <2>1
    <2>3. QED BY <2>2
  <1>3. ASSUME NEW m \in Nat, m \in T PROVE m + 1 \in T
    <2>1. PICK f : Holds(f, m)
      BY <1>3
    <2> DEFINE h == [x \in Upto(m + 1) |-> Value(f, x)]
    <2>2. \A x \in Upto(m + 1) : Value(f, x) \in V
      <3> HIDE DEF Value, Upto
      <3>1. QED BY <1>1, <2>1
    <2>3. h \in [Upto(m + 1) -> V]
      <3> HIDE DEF Value, Upto
      <3>1. QED BY <2>2
    <2>4. ASSUME NEW x \in Upto(m + 1) PROVE h[x] = Value(h, x)
      <3>1. CASE x \in B
        BY <3>1
      <3>2. CASE x \notin B
        <4>1. pred[x] \in Upto(m)
          <5> HIDE DEF Upto
          <5>1. QED BY <1>1, <2>1, <3>2
        <4>2. pred[x] \in Upto(m + 1)
          BY <4>1 DEF Descending
        <4>3. h[pred[x]] = f[pred[x]]
          <5>1. h[pred[x]] = Value(f, pred[x])
            BY <4>2
          <5>2. f[pred[x]] = Value(f, pred[x])
            BY <2>1, <4>1
          <5>3. QED BY <5>1, <5>2
        <4>4. QED BY <3>2, <4>3
      <3>3. QED BY <3>1, <3>2
    <2>5. Holds(h, m + 1)
      BY <2>3, <2>4
    <2>6. QED
      <3> HIDE DEF h, Holds
      <3>1. QED BY <2>5
  <1>4. Nat \subseteq T
    <2> HIDE DEF T
    <2>1. QED BY <1>2, <1>3, NatClosed
  \* Two of them agree where both are defined, so they can be glued.
  <1> DEFINE F(m) == CHOOSE f : Holds(f, m)
             U == {k \in Nat : \A i, j \in Nat : \A x \in D :
                     (rank[x] <= k /\ rank[x] <= i /\ rank[x] <= j) => F(i)[x] = F(j)[x]}
  <1>5. ASSUME NEW m \in Nat PROVE Holds(F(m), m)
    <2>1. \E f : Holds(f, m)
      BY <1>4
    <2> HIDE DEF Holds
    <2>2. QED BY <2>1
  <1> HIDE DEF F
  <1>6. ASSUME NEW m \in Nat, NEW x \in D, rank[x] <= m
        PROVE  F(m)[x] \in V /\ F(m)[x] = Value(F(m), x)
    BY <1>5, <1>6
  <1>7. 0 \in U
    <2>1. ASSUME NEW i \in Nat, NEW j \in Nat, NEW x \in D, rank[x] <= 0, rank[x] <= i, rank[x] <= j
          PROVE  F(i)[x] = F(j)[x]
      <3>1. x \in B
        BY <2>1 DEF Descending
      <3>2. QED BY <1>6, <2>1, <3>1
    <2>2. QED BY <2>1
  <1>8. ASSUME NEW k \in Nat, k \in U PROVE k + 1 \in U
    <2>1. ASSUME NEW i \in Nat, NEW j \in Nat, NEW x \in D, rank[x] <= k + 1, rank[x] <= i, rank[x] <= j
          PROVE  F(i)[x] = F(j)[x]
      <3>1. CASE x \in B
        BY <1>6, <2>1, <3>1
      <3>2. CASE x \notin B
        <4>1. pred[x] \in D /\ rank[pred[x]] \in Nat /\ rank[pred[x]] < rank[x] /\ rank[x] \in Nat
          BY <3>2 DEF Descending
        <4>2. rank[pred[x]] <= k /\ rank[pred[x]] <= i /\ rank[pred[x]] <= j
          BY <2>1, <4>1
        <4>3. F(i)[pred[x]] = F(j)[pred[x]]
          BY <1>8, <4>1, <4>2
        <4>4. F(i)[x] = Value(F(i), x) /\ F(j)[x] = Value(F(j), x)
          BY <1>6, <2>1
        <4>5. QED BY <3>2, <4>3, <4>4
      <3>3. QED BY <3>1, <3>2
    <2>2. QED BY <2>1
  <1>9. Nat \subseteq U
    <2> HIDE DEF U
    <2>1. QED BY <1>7, <1>8, NatClosed
  <1> DEFINE f == [x \in D |-> F(rank[x])[x]]
  <1>10. ASSUME NEW x \in D PROVE f[x] \in V /\ f[x] = Value(f, x)
    <2>1. rank[x] \in Nat /\ f[x] = F(rank[x])[x]
      BY DEF Descending
    <2>2. f[x] \in V /\ f[x] = Value(F(rank[x]), x)
      BY <1>6, <2>1
    <2>3. CASE x \in B
      BY <2>2, <2>3
    <2>4. CASE x \notin B
      <3>1. pred[x] \in D /\ rank[pred[x]] \in Nat /\ rank[pred[x]] <= rank[x]
        BY <2>4 DEF Descending
      <3>2. F(rank[x])[pred[x]] = F(rank[pred[x]])[pred[x]]
        BY <1>9, <2>1, <3>1
      <3>3. f[pred[x]] = F(rank[pred[x]])[pred[x]]
        BY <3>1
      <3>4. QED BY <2>2, <2>4, <3>2, <3>3
    <2>5. QED BY <2>3, <2>4
  <1>11. f \in [D -> V]
    <2>1. \A x \in D : F(rank[x])[x] \in V
      BY <1>10
    <2>2. QED BY <2>1
  <1>12. QED
    <2> HIDE DEF f
    <2>1. IsRecursive(f, D, B, base, pred, G, V)
      BY <1>10, <1>11 DEF IsRecursive
    <2>2. QED BY <2>1

LEMMA MaxOf ==
  ASSUME NEW n \in Nat, NEW s, s \subseteq 0..n, s # {}
  PROVE  \E x \in s : \A y \in s : y <= x
  <1> DEFINE T == {m \in Nat : \A r \in SUBSET (0..m) : r # {} => \E x \in r : \A y \in r : y <= x}
  <1>1. 0 \in T
    <2>1. ASSUME NEW r \in SUBSET (0..0), r # {} PROVE \E x \in r : \A y \in r : y <= x
      <3>1. PICK x \in r : x \in 0..0
        BY <2>1
      <3>2. \A y \in r : y <= x
        BY <3>1
      <3>3. QED BY <3>2
    <2>2. QED BY <2>1
  <1>2. ASSUME NEW m \in Nat, m \in T PROVE m + 1 \in T
    <2>1. ASSUME NEW r \in SUBSET (0..(m + 1)), r # {} PROVE \E x \in r : \A y \in r : y <= x
      <3>1. CASE m + 1 \in r
        <4>1. \A y \in r : y <= m + 1
          OBVIOUS
        <4>2. QED BY <3>1, <4>1
      <3>2. CASE m + 1 \notin r
        <4>1. r \in SUBSET (0..m)
          BY <3>2
        <4>2. QED BY <1>2, <2>1, <4>1
      <3>3. QED BY <3>1, <3>2
    <2>2. QED BY <2>1
  <1>3. Nat \subseteq T
    <2> HIDE DEF T
    <2>1. QED BY <1>1, <1>2, NatClosed
  <1>4. QED BY <1>3

\* The recursion of FlattenSeq: what is made of the first i sequences.
LEMMA FlattenSteps ==
  ASSUME NEW A, NEW seqs \in Seq(Seq(A))
  PROVE  \E f \in [0..Len(seqs) -> Seq(A)] :
           /\ f[0] = <<>>
           /\ \A i \in 1..Len(seqs) : f[i] = f[i - 1] \o seqs[i]
           /\ FlattenSeq(seqs) = f[Len(seqs)]
  <1> DEFINE n == Len(seqs)
             D == 1..n
             V == Seq(A)
             base == [i \in {1} |-> seqs[1]]
             pred == [i \in D |-> i - 1]
             rank == [i \in D |-> i]
             G == [p \in D \X V |-> p[2] \o seqs[p[1]]]
  <1>1. n \in Nat /\ \A i \in D : seqs[i] \in V
    OBVIOUS
  <1>2. PICK g : IsRecursive(g, D, {1}, base, pred, G, V)
    <2>1. \A x \in D : x \in {1} => base[x] \in V
      BY <1>1
    <2>2. Descending(D, {1}, pred, rank)
      BY <1>1 DEF Descending
    <2>3. G \in [D \X V -> V]
      <3>1. ASSUME NEW p \in D \X V PROVE p[2] \o seqs[p[1]] \in V
        <4>1. p[1] \in D /\ p[2] \in V
          OBVIOUS
        <4>2. QED BY <1>1, <4>1
      <3>2. QED BY <3>1
    <2> HIDE DEF n, D, V, base, pred, rank, G
    <2>4. QED BY <2>1, <2>2, <2>3, Recursion
  <1>3. ASSUME NEW i \in D PROVE g[i] \in V /\ g[i] = IF i = 1 THEN seqs[i] ELSE g[i - 1] \o seqs[i]
    <2>1. g[i] \in V
      BY <1>2 DEF IsRecursive
    <2>2. CASE i = 1
      BY <1>2, <2>1, <2>2 DEF IsRecursive
    <2>3. CASE i # 1
      <3>1. i - 1 \in D
        BY <1>1, <2>3
      <3>2. g[i - 1] \in V /\ pred[i] = i - 1
        BY <1>2, <3>1 DEF IsRecursive
      <3>3. <<i, g[i - 1]>> \in D \X V
        BY <3>2
      <3>4. G[<<i, g[i - 1]>>] = g[i - 1] \o seqs[i]
        BY <3>3
      <3>5. g[i] = G[<<i, g[pred[i]]>>]
        BY <1>2, <2>3 DEF IsRecursive
      <3>6. QED BY <2>1, <2>3, <3>2, <3>4, <3>5
    <2>4. QED BY <2>2, <2>3
  <1> DEFINE Recurs(f) == f = [i \in D |-> IF i = 1 THEN seqs[i] ELSE f[i - 1] \o seqs[i]]
  <1>4. Recurs(g)
    <2>1. g = [i \in D |-> g[i]]
      BY <1>2 DEF IsRecursive
    <2>2. QED BY <1>3, <2>1
  <1> DEFINE f == CHOOSE f : Recurs(f)
  <1>5. Recurs(f)
    <2> HIDE DEF Recurs
    <2>1. QED BY <1>4
  <1> HIDE DEF f
  <1>6. \A i \in D : f[i] = g[i]
    <2> DEFINE T == {m \in Nat : m \in D => f[m] = g[m]}
    <2>1. 0 \in T
      OBVIOUS
    <2>2. ASSUME NEW m \in Nat, m \in T PROVE m + 1 \in T
      <3>1. SUFFICES ASSUME m + 1 \in D PROVE f[m + 1] = g[m + 1]
        OBVIOUS
      <3>2. CASE m = 0
        BY <1>3, <1>5, <3>1, <3>2
      <3>3. CASE m # 0
        <4>1. m \in D /\ m + 1 # 1 /\ (m + 1) - 1 = m
          BY <1>1, <3>1, <3>3
        <4>2. f[m] = g[m]
          BY <2>2, <4>1
        <4>3. f[m + 1] = f[m] \o seqs[m + 1] /\ g[m + 1] = g[m] \o seqs[m + 1]
          BY <1>3, <1>5, <3>1, <4>1
        <4>4. QED BY <4>2, <4>3
      <3>4. QED BY <3>2, <3>3
    <2>3. Nat \subseteq T
      <3> HIDE DEF T
      <3>1. QED BY <2>1, <2>2, NatClosed
    <2>4. QED BY <2>3
  <1> DEFINE h == [i \in 0..n |-> IF i = 0 THEN <<>> ELSE g[i]]
  <1>7. h \in [0..n -> V] /\ h[0] = <<>>
    <2>1. ASSUME NEW i \in 0..n PROVE (IF i = 0 THEN <<>> ELSE g[i]) \in V
      <3>1. CASE i = 0
        BY <3>1
      <3>2. CASE i # 0
        BY <1>1, <1>3, <3>2
      <3>3. QED BY <3>1, <3>2
    <2>2. QED BY <1>1, <2>1
  <1>8. ASSUME NEW i \in 1..n PROVE h[i] = h[i - 1] \o seqs[i]
    <2>1. i \in D /\ i \in 0..n /\ i - 1 \in 0..n /\ i # 0 /\ h[i] = g[i]
      BY <1>1
    <2>2. CASE i = 1
      <3>1. h[i - 1] = <<>>
        BY <2>1, <2>2
      <3>2. h[i] = seqs[i] /\ seqs[i] \in Seq(A)
        BY <1>1, <1>3, <2>1, <2>2
      <3>3. <<>> \o seqs[i] = seqs[i]
        BY <3>2
      <3> HIDE DEF h
      <3>4. QED BY <3>1, <3>2, <3>3
    <2>3. CASE i # 1
      <3>1. h[i - 1] = g[i - 1]
        BY <2>1, <2>3
      <3>2. QED BY <1>3, <2>1, <2>3, <3>1
    <2>4. QED BY <2>2, <2>3
  <1>9. FlattenSeq(seqs) = h[n]
    <2>1. CASE n = 0
      BY <2>1, <1>7 DEF FlattenSeq
    <2>2. CASE n # 0
      <3>1. FlattenSeq(seqs) = f[n]
        BY <2>2 DEF FlattenSeq, f
      <3>2. QED BY <1>1, <1>6, <2>2, <3>1
    <2>3. QED BY <2>1, <2>2
  <1>10. QED
    <2> HIDE DEF h
    <2>1. QED BY <1>7, <1>8, <1>9

\* Flattening parts that are all empty, all empty but the last, or of one member each.
LEMMA FlattenNone ==
  ASSUME NEW A, NEW seqs \in Seq(Seq(A)), \A i \in 1..Len(seqs) : seqs[i] = <<>>
  PROVE  FlattenSeq(seqs) = <<>>
  <1>1. PICK f \in [0..Len(seqs) -> Seq(A)] :
           /\ f[0] = <<>>
           /\ \A i \in 1..Len(seqs) : f[i] = f[i - 1] \o seqs[i]
           /\ FlattenSeq(seqs) = f[Len(seqs)]
    BY FlattenSteps
  <1> DEFINE T == {m \in Nat : m <= Len(seqs) => f[m] = <<>>}
  <1>2. 0 \in T
    BY <1>1
  <1>3. ASSUME NEW m \in Nat, m \in T PROVE m + 1 \in T
    <2>1. SUFFICES ASSUME m + 1 <= Len(seqs) PROVE f[m + 1] = <<>>
      OBVIOUS
    <2>2. m + 1 \in 1..Len(seqs) /\ (m + 1) - 1 = m /\ f[m] = <<>>
      BY <1>3, <2>1
    <2>3. f[m + 1] = f[m] \o seqs[m + 1] /\ seqs[m + 1] = <<>>
      BY <1>1, <2>2
    <2>4. QED BY <2>2, <2>3
  <1>4. Nat \subseteq T
    <2> HIDE DEF T
    <2>1. QED BY <1>2, <1>3, NatClosed
  <1>5. QED BY <1>1, <1>4

LEMMA FlattenLast ==
  ASSUME NEW A, NEW seqs \in Seq(Seq(A)), seqs # <<>>,
         \A i \in 1..Len(seqs) : i < Len(seqs) => seqs[i] = <<>>
  PROVE  FlattenSeq(seqs) = seqs[Len(seqs)]
  <1> DEFINE n == Len(seqs)
  <1>1. PICK f \in [0..n -> Seq(A)] :
           /\ f[0] = <<>>
           /\ \A i \in 1..n : f[i] = f[i - 1] \o seqs[i]
           /\ FlattenSeq(seqs) = f[n]
    BY FlattenSteps
  <1> DEFINE T == {m \in Nat : m < n => f[m] = <<>>}
  <1>2. 0 \in T
    BY <1>1
  <1>3. ASSUME NEW m \in Nat, m \in T PROVE m + 1 \in T
    <2>1. SUFFICES ASSUME m + 1 < n PROVE f[m + 1] = <<>>
      OBVIOUS
    <2>2. m + 1 \in 1..n /\ (m + 1) - 1 = m /\ f[m] = <<>>
      BY <1>3, <2>1
    <2>3. f[m + 1] = f[m] \o seqs[m + 1] /\ seqs[m + 1] = <<>>
      BY <1>1, <2>1, <2>2
    <2>4. QED BY <2>2, <2>3
  <1>4. Nat \subseteq T
    <2> HIDE DEF T
    <2>1. QED BY <1>2, <1>3, NatClosed
  <1>5. n \in 1..n /\ n - 1 \in Nat /\ n - 1 < n /\ seqs[n] \in Seq(A)
    OBVIOUS
  <1>6. f[n - 1] = <<>>
    BY <1>4, <1>5
  <1>7. f[n] = f[n - 1] \o seqs[n]
    BY <1>1, <1>5
  <1>8. QED BY <1>1, <1>5, <1>6, <1>7

LEMMA FlattenEach ==
  ASSUME NEW A, NEW s \in Seq(A), NEW seqs \in Seq(Seq(A)), Len(seqs) = Len(s),
         \A i \in 1..Len(s) : seqs[i] = <<s[i]>>
  PROVE  FlattenSeq(seqs) = s
  <1> DEFINE n == Len(seqs)
  <1>1. PICK f \in [0..n -> Seq(A)] :
           /\ f[0] = <<>>
           /\ \A i \in 1..n : f[i] = f[i - 1] \o seqs[i]
           /\ FlattenSeq(seqs) = f[n]
    BY FlattenSteps
  <1> DEFINE T == {m \in Nat : m <= n => Len(f[m]) = m /\ \A i \in 1..m : f[m][i] = s[i]}
  <1>2. 0 \in T
    BY <1>1
  <1>3. ASSUME NEW m \in Nat, m \in T PROVE m + 1 \in T
    <2>1. SUFFICES ASSUME m + 1 <= n
                   PROVE Len(f[m + 1]) = m + 1 /\ \A i \in 1..(m + 1) : f[m + 1][i] = s[i]
      OBVIOUS
    <2>2. m + 1 \in 1..n /\ (m + 1) - 1 = m /\ m \in 0..n /\ Len(f[m]) = m /\ \A i \in 1..m : f[m][i] = s[i]
      BY <1>3, <2>1
    <2> DEFINE g == f[m]
               e == s[m + 1]
    <2>3. g \in Seq(A) /\ Len(g) = m /\ e \in A /\ f[m + 1] = g \o <<e>>
      <3>1. f[m + 1] = f[m] \o seqs[m + 1] /\ f[m] \in Seq(A)
        BY <1>1, <2>2
      <3>2. seqs[m + 1] = <<s[m + 1]>> /\ s[m + 1] \in A
        BY <2>2
      <3>3. QED BY <2>2, <3>1, <3>2
    <2>4. \A i \in 1..m : g[i] = s[i]
      BY <2>2
    <2> HIDE DEF g, e
    <2>5. Len(g \o <<e>>) = m + 1 /\ (g \o <<e>>)[m + 1] = e /\ \A i \in 1..m : (g \o <<e>>)[i] = g[i]
      BY <2>3
    <2>6. \A i \in 1..(m + 1) : i \in 1..m \/ i = m + 1
      BY <1>3
    <2>7. QED BY <2>3, <2>4, <2>5, <2>6 DEF e
  <1>4. Nat \subseteq T
    <2> HIDE DEF T
    <2>1. QED BY <1>2, <1>3, NatClosed
  <1>5. f[n] \in Seq(A) /\ Len(f[n]) = Len(s) /\ \A i \in 1..Len(s) : f[n][i] = s[i]
    BY <1>1, <1>4
  <1>6. f[n] = s
    BY <1>5, SeqEqual
  <1>7. QED BY <1>1, <1>6

-----------------------------------------------------------------------------
(* The fold over the checkpoints of a branch. *)

Items == [kind : {"message", "summary"}, id : Nat, at : Nat]
Accumulators == [prev : SUBSET Nat, seen : SUBSET Nat, items : Seq(Items)]
Begin == [prev |-> {}, seen |-> {}, items |-> <<>>]

\* What a checkpoint adds to the timeline.
Marker(acc, c) ==
  IF acc.prev # {} /\ ToSet(ckpts[c].msgs) # {} /\ acc.prev \cap ToSet(ckpts[c].msgs) = {}
  THEN <<Summary(c)>> ELSE <<>>
Parts(acc, c) ==
  [i \in DOMAIN ckpts[c].msgs |->
     IF ckpts[c].msgs[i] \in acc.seen THEN <<>> ELSE <<Message(ckpts[c].msgs[i], c)>>]

LEMMA AddFacts ==
  ASSUME NEW acc, NEW c
  PROVE  AddCheckpoint(acc, c) =
           [prev |-> ToSet(ckpts[c].msgs), seen |-> acc.seen \cup ToSet(ckpts[c].msgs),
            items |-> acc.items \o Marker(acc, c) \o FlattenSeq(Parts(acc, c))]
  BY DEF AddCheckpoint, Marker, Parts

LEMMA ItemsType ==
  ASSUME NEW c \in Nat, NEW m \in Nat
  PROVE  Message(m, c) \in Items /\ Summary(c) \in Items
  BY DEF Items, Message, Summary, NoCheckpoint

LEMMA PartsType ==
  ASSUME NEW acc, NEW c \in Nat, ckpts[c].msgs \in Seq(Nat)
  PROVE  /\ Parts(acc, c) \in Seq(Seq(Items)) /\ Len(Parts(acc, c)) = Len(ckpts[c].msgs)
         /\ Marker(acc, c) \in Seq(Items)
  <1> DEFINE s == ckpts[c].msgs
             part(i) == IF s[i] \in acc.seen THEN <<>> ELSE <<Message(s[i], c)>>
  <1>1. s \in Seq(Nat) /\ DOMAIN s = 1..Len(s) /\ Len(s) \in Nat
    OBVIOUS
  <1>2. ASSUME NEW i \in 1..Len(s) PROVE part(i) \in Seq(Items)
    <2>1. s[i] \in Nat
      BY <1>1
    <2>2. <<Message(s[i], c)>> \in Seq(Items)
      BY <2>1, ItemsType
    <2>3. QED BY <2>2
  <1>3. Parts(acc, c) = [i \in 1..Len(s) |-> part(i)]
    BY <1>1 DEF Parts
  <1>4. [i \in 1..Len(s) |-> part(i)] \in Seq(Seq(Items)) /\ Len([i \in 1..Len(s) |-> part(i)]) = Len(s)
    <2> HIDE DEF part, s
    <2>1. QED BY <1>1, <1>2
  <1>5. Marker(acc, c) \in Seq(Items)
    <2>1. <<Summary(c)>> \in Seq(Items)
      BY ItemsType
    <2>2. QED BY <2>1 DEF Marker
  <1>6. QED BY <1>3, <1>4, <1>5

LEMMA FlattenType ==
  ASSUME NEW A, NEW seqs \in Seq(Seq(A))
  PROVE  FlattenSeq(seqs) \in Seq(A)
  <1>1. PICK f \in [0..Len(seqs) -> Seq(A)] : FlattenSeq(seqs) = f[Len(seqs)]
    BY FlattenSteps
  <1>2. Len(seqs) \in 0..Len(seqs)
    OBVIOUS
  <1>3. QED BY <1>1, <1>2

LEMMA ToSetFacts ==
  ASSUME NEW A, NEW s \in Seq(A)
  PROVE  ToSet(s) = {s[i] : i \in 1..Len(s)} /\ ToSet(s) \subseteq A
  BY DEF ToSet

LEMMA AddType ==
  ASSUME NEW acc \in Accumulators, NEW c \in Nat, ckpts[c].msgs \in Seq(Nat)
  PROVE  AddCheckpoint(acc, c) \in Accumulators
  <1>1. FlattenSeq(Parts(acc, c)) \in Seq(Items) /\ Marker(acc, c) \in Seq(Items)
    BY PartsType, FlattenType
  <1>2. acc.items \o Marker(acc, c) \o FlattenSeq(Parts(acc, c)) \in Seq(Items)
    <2>1. acc.items \in Seq(Items)
      BY DEF Accumulators
    <2>2. QED BY <1>1, <2>1
  <1>3. ToSet(ckpts[c].msgs) \subseteq Nat
    BY ToSetFacts
  <1>4. acc.seen \cup ToSet(ckpts[c].msgs) \subseteq Nat
    BY <1>3 DEF Accumulators
  <1>5. QED BY <1>2, <1>3, <1>4, AddFacts DEF Accumulators

\* The recursion of FoldLeft: what is made of the first i checkpoints.
IsTimeline(f, seq) ==
  /\ f \in [0..Len(seq) -> Accumulators]
  /\ f[0] = Begin
  /\ \A i \in 1..Len(seq) : f[i] = AddCheckpoint(f[i - 1], seq[i])

LEMMA FoldSteps ==
  ASSUME NEW seq \in Seq(Nat), \A i \in 1..Len(seq) : ckpts[seq[i]].msgs \in Seq(Nat)
  PROVE  \E f : IsTimeline(f, seq) /\ FoldLeft(AddCheckpoint, Begin, seq) = f[Len(seq)]
  <1> DEFINE n == Len(seq)
             D == SUBSET (1..n)
             V == Accumulators
             base == [s \in {{}} |-> Begin]
             pred == [s \in D |-> s \ {Max(s)}]
             rank == [s \in D |-> IF s = {} THEN 0 ELSE Max(s)]
             G == [p \in D \X V |-> IF p[1] = {} THEN Begin ELSE AddCheckpoint(p[2], seq[Max(p[1])])]
  <1>1. n \in Nat /\ DOMAIN seq = 1..n /\ \A i \in 1..n : seq[i] \in Nat /\ ckpts[seq[i]].msgs \in Seq(Nat)
    OBVIOUS
  <1>2. Begin \in V
    BY DEF Begin, Accumulators
  <1>3. ASSUME NEW s \in D, s # {}
        PROVE  Max(s) \in s /\ Max(s) \in 1..n /\ \A y \in s : y <= Max(s)
    <2>1. s \subseteq 0..n
      BY <1>1
    <2>2. PICK x \in s : \A y \in s : y <= x
      BY <1>1, <1>3, <2>1, MaxOf
    <2>3. \A y \in s : x >= y
      BY <2>1, <2>2
    <2>4. Max(s) \in s /\ \A y \in s : Max(s) >= y
      BY <2>3 DEF Max
    <2>5. QED BY <2>1, <2>4
  <1>4. PICK g : IsRecursive(g, D, {{}}, base, pred, G, V)
    <2>1. \A s \in D : s \in {{}} => base[s] \in V
      BY <1>2
    <2>2. Descending(D, {{}}, pred, rank)
      <3>1. ASSUME NEW s \in D PROVE rank[s] \in Nat
        <4>1. CASE s = {}
          BY <4>1
        <4>2. CASE s # {}
          BY <1>1, <1>3, <4>2
        <4>3. QED BY <4>1, <4>2
      <3>2. ASSUME NEW s \in D, s # {} PROVE pred[s] \in D /\ rank[pred[s]] < rank[s]
        <4> DEFINE r == s \ {Max(s)}
        <4>1. pred[s] = r /\ r \in D /\ rank[s] = Max(s) /\ Max(s) \in 1..n
          BY <1>3, <3>2
        <4>2. CASE r = {}
          <5>1. rank[r] = 0
            BY <4>1, <4>2
          <5>2. QED BY <4>1, <5>1
        <4>3. CASE r # {}
          <5>1. Max(r) \in r /\ rank[r] = Max(r)
            BY <1>3, <4>1, <4>3
          <5>2. Max(r) <= Max(s) /\ Max(r) # Max(s) /\ Max(r) \in 1..n
            BY <1>3, <3>2, <4>1, <5>1
          <5>3. QED BY <4>1, <5>1, <5>2
        <4>4. QED BY <4>2, <4>3
      <3> HIDE DEF D, rank, pred
      <3>3. QED BY <3>1, <3>2 DEF Descending
    <2>3. G \in [D \X V -> V]
      <3>1. ASSUME NEW p \in D \X V
            PROVE  (IF p[1] = {} THEN Begin ELSE AddCheckpoint(p[2], seq[Max(p[1])])) \in V
        <4>1. p[1] \in D /\ p[2] \in V
          OBVIOUS
        <4>2. CASE p[1] = {}
          BY <1>2, <4>2
        <4>3. CASE p[1] # {}
          <5>1. Max(p[1]) \in 1..n
            BY <1>3, <4>1, <4>3
          <5>2. AddCheckpoint(p[2], seq[Max(p[1])]) \in V
            BY <1>1, <4>1, <5>1, AddType
          <5>3. QED BY <4>3, <5>2
        <4>4. QED BY <4>2, <4>3
      <3>2. QED BY <3>1
    <2> HIDE DEF D, V, base, pred, rank, G
    <2>4. QED BY <2>1, <2>2, <2>3, Recursion
  <1> DEFINE Recurs(f) == f = [s \in D |-> IF s = {} THEN Begin
                                           ELSE AddCheckpoint(f[s \ {Max(s)}], seq[Max(s)])]
  <1>5. Recurs(g)
    <2>1. g = [s \in D |-> g[s]]
      BY <1>4 DEF IsRecursive
    <2>2. ASSUME NEW s \in D
          PROVE  g[s] = IF s = {} THEN Begin ELSE AddCheckpoint(g[s \ {Max(s)}], seq[Max(s)])
      <3>1. CASE s = {}
        BY <1>4, <3>1 DEF IsRecursive
      <3>2. CASE s # {}
        <4>1. s \ {Max(s)} \in D /\ pred[s] = s \ {Max(s)}
          OBVIOUS
        <4>2. g[s \ {Max(s)}] \in V
          BY <1>4, <4>1 DEF IsRecursive
        <4>3. <<s, g[s \ {Max(s)}]>> \in D \X V
          BY <4>2
        <4>4. G[<<s, g[s \ {Max(s)}]>>] = AddCheckpoint(g[s \ {Max(s)}], seq[Max(s)])
          BY <3>2, <4>3
        <4>5. g[s] = G[<<s, g[pred[s]]>>]
          BY <1>4, <3>2 DEF IsRecursive
        <4>6. QED BY <3>2, <4>1, <4>4, <4>5
      <3>3. QED BY <3>1, <3>2
    <2>3. QED BY <2>1, <2>2
  <1> DEFINE iter == CHOOSE f : Recurs(f)
  <1>6. Recurs(iter)
    <2> HIDE DEF Recurs
    <2>1. QED BY <1>5
  <1>7. FoldLeft(AddCheckpoint, Begin, seq) = iter[1..n]
    BY <1>1 DEF FoldLeft, MapThenFoldSet
  <1> HIDE DEF iter
  <1> DEFINE h == [i \in 0..n |-> iter[1..i]]
  <1>8. ASSUME NEW i \in 1..n PROVE h[i] = AddCheckpoint(h[i - 1], seq[i])
    <2>1. 1..i \in D /\ 1..i # {} /\ i \in 1..i
      <3>1. i \in 1..i /\ \A j \in 1..i : j \in 1..n
        BY <1>1
      <3>2. QED BY <3>1
    <2>2. Max(1..i) = i
      <3>1. Max(1..i) \in 1..i /\ i <= Max(1..i)
        BY <1>3, <2>1
      <3>2. QED BY <1>1, <3>1
    <2>3. (1..i) \ {i} = 1..(i - 1) /\ i - 1 \in 0..n /\ i \in 0..n
      BY <1>1
    <2>4. iter[1..i] = AddCheckpoint(iter[(1..i) \ {Max(1..i)}], seq[Max(1..i)])
      BY <1>6, <2>1
    <2>5. QED BY <2>2, <2>3, <2>4
  <1>9. h[0] = Begin
    <2>1. 1..0 = {} /\ {} \in D
      OBVIOUS
    <2>2. iter[{}] = Begin
      BY <1>6, <2>1
    <2>3. QED BY <1>1, <2>1, <2>2
  <1>10. h \in [0..n -> Accumulators]
    <2> DEFINE T == {m \in Nat : m <= n => h[m] \in Accumulators}
    <2> HIDE DEF h
    <2>1. 0 \in T
      BY <1>2, <1>9
    <2>2. ASSUME NEW m \in Nat, m \in T PROVE m + 1 \in T
      <3>1. SUFFICES ASSUME m + 1 <= n PROVE h[m + 1] \in Accumulators
        OBVIOUS
      <3>2. m + 1 \in 1..n /\ (m + 1) - 1 = m /\ h[m] \in Accumulators
        BY <1>1, <2>2, <3>1
      <3>3. h[m + 1] = AddCheckpoint(h[m], seq[m + 1])
        BY <1>8, <3>2
      <3>4. QED BY <1>1, <3>2, <3>3, AddType
    <2>3. Nat \subseteq T
      <3> HIDE DEF T
      <3>1. QED BY <2>1, <2>2, NatClosed
    <2>4. \A i \in 0..n : h[i] \in Accumulators
      BY <2>3
    <2>5. h = [i \in 0..n |-> h[i]]
      BY DEF h
    <2>6. QED BY <2>4, <2>5
  <1>11. IsTimeline(h, seq)
    <2> HIDE DEF h
    <2>1. QED BY <1>8, <1>9, <1>10 DEF IsTimeline
  <1>12. FoldLeft(AddCheckpoint, Begin, seq) = h[Len(seq)]
    BY <1>1, <1>7
  <1>13. QED
    <2> HIDE DEF h
    <2>1. QED BY <1>11, <1>12

-----------------------------------------------------------------------------
(* What has been read of a branch is what happened on it. *)

\* A checkpoint, or the beginning of a thread: its messages, and what happened to them.
MsgsOf(cs, c) == IF c = NoCheckpoint THEN <<>> ELSE cs[c].msgs
ItemsOf(cs, c) == IF c = NoCheckpoint THEN <<>> ELSE cs[c].items

\* A checkpoint comes after its parent, and differs from it by one super-step.
Grown(cs, c) ==
  LET p == cs[c].parent
  IN  \/ cs[c].msgs = MsgsOf(cs, p) /\ cs[c].items = ItemsOf(cs, p)
      \/ cs[c].msgs = Append(MsgsOf(cs, p), c) /\ cs[c].items = ItemsOf(cs, p) \o <<Message(c, c)>>
      \/ /\ MsgsOf(cs, p) # <<>> /\ cs[c].msgs = <<c>>
         /\ cs[c].items = ItemsOf(cs, p) \o <<Summary(c), Message(c, c)>>
CheckpointOK(cs, c) ==
  /\ cs[c].parent \in 0..(c - 1)
  /\ cs[c].msgs \in Seq(1..c) /\ cs[c].items \in Seq(Items)
  /\ Grown(cs, c)

IsSequence(s) == \E A : s \in Seq(A)
WellLogged(cs) == IsSequence(cs) /\ \A c \in 1..Len(cs) : CheckpointOK(cs, c)

\* What has been read of the timeline.
ReadOf(seq) == FoldLeft(AddCheckpoint, Begin, seq)

LEMMA LogFacts ==
  ASSUME NEW cs, WellLogged(cs)
  PROVE  /\ Len(cs) \in Nat /\ DOMAIN cs = 1..Len(cs)
         /\ \A c \in 0..Len(cs) : MsgsOf(cs, c) \in Seq(1..c) /\ ItemsOf(cs, c) \in Seq(Items)
         /\ \A c \in 1..Len(cs) : cs[c].msgs \in Seq(Nat) /\ cs[c].parent \in 0..Len(cs) /\ cs[c].parent < c
  <1>1. Len(cs) \in Nat /\ DOMAIN cs = 1..Len(cs)
    <2>1. PICK A : cs \in Seq(A)
      BY DEF WellLogged, IsSequence
    <2>2. QED BY <2>1
  <1>2. ASSUME NEW c \in 1..Len(cs)
        PROVE  /\ cs[c].msgs \in Seq(1..c) /\ cs[c].items \in Seq(Items)
               /\ cs[c].parent \in 0..Len(cs) /\ cs[c].parent < c
    <2>1. CheckpointOK(cs, c)
      BY DEF WellLogged
    <2>2. cs[c].parent \in 0..(c - 1) /\ cs[c].msgs \in Seq(1..c) /\ cs[c].items \in Seq(Items)
      BY <2>1 DEF CheckpointOK
    <2>3. QED BY <1>1, <2>2
  <1>3. ASSUME NEW c \in 1..Len(cs) PROVE cs[c].msgs \in Seq(Nat)
    <2>1. cs[c].msgs \in Seq(1..c)
      BY <1>2
    <2> DEFINE m == cs[c].msgs
    <2> HIDE DEF m
    <2>2. m \in Seq(1..c) => m \in Seq(Nat)
      BY <1>1
    <2>3. QED BY <2>1, <2>2 DEF m
  <1>4. ASSUME NEW c \in 0..Len(cs) PROVE MsgsOf(cs, c) \in Seq(1..c) /\ ItemsOf(cs, c) \in Seq(Items)
    <2>1. CASE c = 0
      BY <2>1 DEF MsgsOf, ItemsOf, NoCheckpoint
    <2>2. CASE c # 0
      <3>1. c \in 1..Len(cs)
        BY <1>1, <2>2
      <3>2. QED BY <1>2, <2>2, <3>1 DEF MsgsOf, ItemsOf, NoCheckpoint
    <2>3. QED BY <2>1, <2>2
  <1>5. QED BY <1>1, <1>2, <1>3, <1>4

LEMMA ReadNothing == ReadOf(<<>>) = Begin
  <1>1. <<>> \in Seq(Nat) /\ \A i \in 1..Len(<<>>) : ckpts[<<>>[i]].msgs \in Seq(Nat)
    OBVIOUS
  <1>2. PICK f : IsTimeline(f, <<>>) /\ ReadOf(<<>>) = f[Len(<<>>)]
    BY <1>1, FoldSteps DEF ReadOf
  <1>3. QED BY <1>2 DEF IsTimeline

LEMMA ReadOne ==
  ASSUME WellLogged(ckpts), NEW seq \in Seq(1..Len(ckpts)), NEW c \in 1..Len(ckpts)
  PROVE  /\ ReadOf(seq) \in Accumulators
         /\ ReadOf(Append(seq, c)) = AddCheckpoint(ReadOf(seq), c)
  <1> DEFINE n == Len(seq)
             longer == Append(seq, c)
  <1>1. /\ n \in Nat /\ Len(ckpts) \in Nat
        /\ seq \in Seq(Nat) /\ \A i \in 1..n : seq[i] \in 1..Len(ckpts)
    BY LogFacts
  <1>2. /\ longer \in Seq(Nat) /\ Len(longer) = n + 1 /\ longer[n + 1] = c
        /\ \A i \in 1..n : longer[i] = seq[i]
    BY <1>1
  <1>3. \A i \in 1..(n + 1) : longer[i] \in 1..Len(ckpts)
    <2>1. \A i \in 1..(n + 1) : i \in 1..n \/ i = n + 1
      BY <1>1
    <2>2. QED BY <1>1, <1>2, <2>1
  <1>4. PICK f : IsTimeline(f, seq) /\ ReadOf(seq) = f[n]
    <2>1. \A i \in 1..Len(seq) : ckpts[seq[i]].msgs \in Seq(Nat)
      BY <1>1, LogFacts
    <2>2. QED BY <1>1, <2>1, FoldSteps DEF ReadOf
  <1>5. PICK g : IsTimeline(g, longer) /\ ReadOf(longer) = g[n + 1]
    <2>1. \A i \in 1..Len(longer) : ckpts[longer[i]].msgs \in Seq(Nat)
      BY <1>2, <1>3, LogFacts
    <2> HIDE DEF longer
    <2>2. QED BY <1>2, <2>1, FoldSteps DEF ReadOf
  <1> HIDE DEF longer
  <1> DEFINE T == {m \in Nat : m <= n => g[m] = f[m]}
  <1>6. 0 \in T
    BY <1>4, <1>5 DEF IsTimeline
  <1>7. ASSUME NEW m \in Nat, m \in T PROVE m + 1 \in T
    <2>1. SUFFICES ASSUME m + 1 <= n PROVE g[m + 1] = f[m + 1]
      OBVIOUS
    <2>2. m + 1 \in 1..n /\ m + 1 \in 1..(n + 1) /\ (m + 1) - 1 = m /\ g[m] = f[m]
      BY <1>1, <1>7, <2>1
    <2>3. f[m + 1] = AddCheckpoint(f[m], seq[m + 1])
      BY <1>4, <2>2 DEF IsTimeline
    <2>4. g[m + 1] = AddCheckpoint(g[m], longer[m + 1])
      BY <1>2, <1>5, <2>2 DEF IsTimeline
    <2>5. QED BY <1>2, <2>2, <2>3, <2>4
  <1>8. Nat \subseteq T
    <2> HIDE DEF T
    <2>1. QED BY <1>6, <1>7, NatClosed
  <1>9. g[n + 1] = AddCheckpoint(f[n], c)
    <2>1. n + 1 \in 1..(n + 1) /\ (n + 1) - 1 = n /\ g[n] = f[n]
      BY <1>1, <1>8
    <2>2. g[n + 1] = AddCheckpoint(g[n], longer[n + 1])
      BY <1>2, <1>5, <2>1 DEF IsTimeline
    <2>3. QED BY <1>2, <2>1, <2>2
  <1>10. ReadOf(seq) \in Accumulators
    <2>1. n \in 0..n
      BY <1>1
    <2>2. QED BY <1>4, <2>1 DEF IsTimeline
  <1>11. QED BY <1>4, <1>5, <1>9, <1>10 DEF longer

\* What happened since the checkpoint s, as a reader is to be told it.
StartedWith(s) == [i \in DOMAIN MsgsOf(ckpts, s) |-> Message(MsgsOf(ckpts, s)[i], s)]
Told(c, s) ==
  StartedWith(s) \o SubSeq(ItemsOf(ckpts, c), Len(ItemsOf(ckpts, s)) + 1, Len(ItemsOf(ckpts, c)))

\* What has been read up to the checkpoint c is what happened since s.
Followed(acc, c, s) ==
  /\ acc.prev = ToSet(MsgsOf(ckpts, c))
  /\ acc.prev \subseteq acc.seen /\ acc.seen \subseteq 1..c
  /\ acc.items = Told(c, s)
  /\ Len(ItemsOf(ckpts, s)) <= Len(ItemsOf(ckpts, c))

LEMMA Regroup == \A s, t, u \in Seq(Items) : (s \o t) \o u = s \o (t \o u)
  BY ConcatAssociative

LEMMA ToldMore ==
  ASSUME NEW w \in Seq(Items), NEW a \in Seq(Items), NEW b \in Seq(Items), NEW L \in 0..Len(a)
  PROVE  /\ w \o SubSeq(a \o b, L + 1, Len(a \o b)) = (w \o SubSeq(a, L + 1, Len(a))) \o b
         /\ Len(a) <= Len(a \o b)
  <1> DEFINE x == SubSeq(a \o b, L + 1, Len(a \o b))
             y == SubSeq(a, L + 1, Len(a))
  <1>1. a \o b \in Seq(Items) /\ Len(a \o b) = Len(a) + Len(b) /\ Len(a) \in Nat /\ Len(b) \in Nat
    OBVIOUS
  <1>2. x \in Seq(Items) /\ Len(x) = (Len(a) + Len(b)) - L
    <2> DEFINE ab == a \o b
    <2> HIDE DEF ab
    <2>1. ab \in Seq(Items) /\ L + 1 \in 1..(Len(ab) + 1) /\ Len(ab) \in Nat
      BY <1>1 DEF ab
    <2>2. SubSeq(ab, L + 1, Len(ab)) \in Seq(Items) /\ Len(SubSeq(ab, L + 1, Len(ab))) = Len(ab) - L
      BY <2>1
    <2>3. QED BY <1>1, <2>2 DEF ab
  <1>3. y \in Seq(Items) /\ Len(y) = Len(a) - L
    BY <1>1
  <1>4. \A i \in 1..((Len(a) + Len(b)) - L) : x[i] = (a \o b)[L + i]
    BY <1>1
  <1>5. \A i \in 1..(Len(a) - L) : y[i] = a[L + i]
    BY <1>1
  <1>6. x = y \o b
    <2>1. ASSUME NEW i \in 1..((Len(a) + Len(b)) - L) PROVE x[i] = (y \o b)[i]
      <3>1. x[i] = (a \o b)[L + i] /\ L + i \in 1..(Len(a) + Len(b))
        BY <1>1, <1>4
      <3>2. CASE i <= Len(a) - L
        <4>1. i \in 1..(Len(a) - L) /\ L + i <= Len(a)
          BY <1>1, <3>2
        <4>2. (a \o b)[L + i] = a[L + i]
          BY <1>1, <3>1, <4>1
        <4> HIDE DEF x, y
        <4>3. (y \o b)[i] = y[i]
          BY <1>1, <1>3, <4>1
        <4>4. QED BY <1>5, <3>1, <4>1, <4>2, <4>3
      <3>3. CASE ~(i <= Len(a) - L)
        <4>1. (L + i) - Len(a) = i - (Len(a) - L) /\ ~(L + i <= Len(a))
          BY <1>1, <3>3
        <4>2. (a \o b)[L + i] = b[(L + i) - Len(a)]
          BY <1>1, <3>1, <4>1
        <4> HIDE DEF x, y
        <4>3. (y \o b)[i] = b[i - (Len(a) - L)]
          BY <1>1, <1>3, <3>3
        <4>4. QED BY <3>1, <4>1, <4>2, <4>3
      <3>4. QED BY <3>2, <3>3
    <2> HIDE DEF x, y
    <2>2. y \o b \in Seq(Items) /\ Len(y \o b) = (Len(a) + Len(b)) - L
      <3>1. y \o b \in Seq(Items) /\ Len(y \o b) = Len(y) + Len(b)
        BY <1>3
      <3>2. QED BY <1>1, <1>3, <3>1
    <2>3. QED BY <1>2, <2>1, <2>2, SeqEqual
  <1> HIDE DEF x, y
  <1>7. w \o (y \o b) = (w \o y) \o b
    <2>1. y \in Seq(Items)
      BY <1>3
    <2>2. (w \o y) \o b = w \o (y \o b)
      BY <2>1, Regroup, Zenon
    <2>3. QED BY <2>2, Zenon
  <1>8. w \o x = (w \o y) \o b
    BY <1>6, <1>7, Zenon
  <1>9. Len(a) <= Len(a \o b)
    BY <1>1
  <1>10. QED BY <1>8, <1>9, Zenon DEF x, y

LEMMA PartFacts ==
  ASSUME NEW acc, NEW c, NEW i \in DOMAIN ckpts[c].msgs
  PROVE  Parts(acc, c)[i] = IF ckpts[c].msgs[i] \in acc.seen THEN <<>>
                            ELSE <<Message(ckpts[c].msgs[i], c)>>
  BY DEF Parts

\* The messages of a checkpoint that are told: none when all were seen, the last when
\* it is the only new one, all when none was seen.
LEMMA FreshNone ==
  ASSUME NEW acc, NEW c \in Nat, ckpts[c].msgs \in Seq(Nat), ToSet(ckpts[c].msgs) \subseteq acc.seen
  PROVE  FlattenSeq(Parts(acc, c)) = <<>>
  <1> DEFINE m == ckpts[c].msgs
  <1>1. DOMAIN m = 1..Len(m) /\ Len(Parts(acc, c)) = Len(m) /\ Parts(acc, c) \in Seq(Seq(Items))
    BY PartsType
  <1>2. ASSUME NEW i \in 1..Len(m) PROVE Parts(acc, c)[i] = <<>>
    <2>1. m[i] \in acc.seen
      BY <1>1, ToSetFacts
    <2>2. QED BY <1>1, <2>1, PartFacts
  <1>3. QED BY <1>1, <1>2, FlattenNone

LEMMA FreshLast ==
  ASSUME NEW acc, NEW c \in Nat, NEW old \in Seq(Nat), NEW x \in Nat, ckpts[c].msgs = Append(old, x),
         ToSet(old) \subseteq acc.seen, x \notin acc.seen
  PROVE  FlattenSeq(Parts(acc, c)) = <<Message(x, c)>>
  <1> DEFINE m == ckpts[c].msgs
             n == Len(old) + 1
  <1>1. /\ m \in Seq(Nat) /\ Len(m) = n /\ DOMAIN m = 1..n /\ n \in 1..n /\ m[n] = x
        /\ \A i \in 1..n : i < n => i \in 1..Len(old) /\ m[i] = old[i]
    OBVIOUS
  <1>2. Len(Parts(acc, c)) = n /\ Parts(acc, c) \in Seq(Seq(Items))
    BY <1>1, PartsType
  <1> HIDE DEF m
  <1>3. ASSUME NEW i \in 1..n, i < n PROVE Parts(acc, c)[i] = <<>>
    <2>1. m[i] \in acc.seen
      <3>1. i \in 1..Len(old) /\ m[i] = old[i]
        BY <1>1, <1>3
      <3>2. old[i] \in ToSet(old)
        BY <3>1, ToSetFacts
      <3>3. QED BY <3>1, <3>2
    <2>2. QED BY <1>1, <2>1, PartFacts DEF m
  <1>4. Parts(acc, c)[n] = <<Message(x, c)>>
    BY <1>1, PartFacts DEF m
  <1>5. Parts(acc, c) # <<>>
    BY <1>1, <1>2
  <1>6. FlattenSeq(Parts(acc, c)) = Parts(acc, c)[n]
    BY <1>2, <1>3, <1>5, FlattenLast
  <1>7. QED BY <1>4, <1>6

LEMMA FreshAll ==
  ASSUME NEW acc, NEW c \in Nat, ckpts[c].msgs \in Seq(Nat), ToSet(ckpts[c].msgs) \cap acc.seen = {}
  PROVE  /\ FlattenSeq(Parts(acc, c)) = [i \in DOMAIN ckpts[c].msgs |-> Message(ckpts[c].msgs[i], c)]
         /\ [i \in DOMAIN ckpts[c].msgs |-> Message(ckpts[c].msgs[i], c)] \in Seq(Items)
  <1> DEFINE m == ckpts[c].msgs
             all == [i \in DOMAIN m |-> Message(m[i], c)]
  <1>1. DOMAIN m = 1..Len(m) /\ Len(m) \in Nat /\ Len(Parts(acc, c)) = Len(m) /\ Parts(acc, c) \in Seq(Seq(Items))
    BY PartsType
  <1>2. ASSUME NEW i \in 1..Len(m) PROVE Message(m[i], c) \in Items
    BY ItemsType
  <1>3. all \in Seq(Items) /\ Len(all) = Len(m) /\ \A i \in 1..Len(m) : all[i] = Message(m[i], c)
    BY <1>1, <1>2
  <1>4. ASSUME NEW i \in 1..Len(m) PROVE Parts(acc, c)[i] = <<all[i]>>
    <2>1. m[i] \notin acc.seen
      BY <1>1, ToSetFacts
    <2>2. QED BY <1>1, <1>3, <2>1, PartFacts
  <1>5. FlattenSeq(Parts(acc, c)) = all
    <2> HIDE DEF all
    <2>1. QED BY <1>1, <1>3, <1>4, FlattenEach
  <1>6. QED BY <1>3, <1>5

LEMMA StartedType ==
  ASSUME WellLogged(ckpts), NEW s \in 0..Len(ckpts)
  PROVE  StartedWith(s) \in Seq(Items)
  <1> DEFINE m == MsgsOf(ckpts, s)
  <1>1. m \in Seq(1..s) /\ s \in Nat
    BY LogFacts
  <1> HIDE DEF m
  <1>2. Len(m) \in Nat /\ DOMAIN m = 1..Len(m) /\ \A i \in 1..Len(m) : Message(m[i], s) \in Items
    BY <1>1, ItemsType
  <1>3. [i \in DOMAIN m |-> Message(m[i], s)] \in Seq(Items)
    BY <1>2
  <1>4. QED BY <1>3 DEF StartedWith, m

LEMMA ToSetAppend ==
  ASSUME NEW A, NEW s \in Seq(A), NEW x
  PROVE  ToSet(Append(s, x)) = ToSet(s) \cup {x} /\ ToSet(<<x>>) = {x} /\ ToSet(<<>>) = {}
  <1> DEFINE t == Append(s, x)
             n == Len(s)
  <1>1. /\ n \in Nat /\ DOMAIN s = 1..n /\ DOMAIN t = 1..(n + 1) /\ t[n + 1] = x
        /\ \A i \in 1..n : t[i] = s[i]
    OBVIOUS
  <1>2. 1..(n + 1) = (1..n) \cup {n + 1}
    BY <1>1
  <1> HIDE DEF t, n
  <1>3. ToSet(t) = ToSet(s) \cup {x}
    BY <1>1, <1>2 DEF ToSet
  <1>4. ToSet(<<x>>) = {x} /\ ToSet(<<>>) = {}
    <2>1. DOMAIN <<x>> = {1} /\ <<x>>[1] = x
      OBVIOUS
    <2>2. QED BY <2>1 DEF ToSet
  <1>5. QED BY <1>3, <1>4 DEF t

\* One checkpoint more, however the super-step changed the messages.
LEMMA StepFollows ==
  ASSUME WellLogged(ckpts), NEW c \in 1..Len(ckpts), NEW s \in 0..Len(ckpts),
         NEW acc \in Accumulators, Followed(acc, ckpts[c].parent, s)
  PROVE  Followed(AddCheckpoint(acc, c), c, s)
  <1> DEFINE p == ckpts[c].parent
             new == AddCheckpoint(acc, c)
             fresh == FlattenSeq(Parts(acc, c))
             old == ItemsOf(ckpts, p)
             L == Len(ItemsOf(ckpts, s))
  <1>1. /\ c \in Nat /\ c # 0 /\ p \in 0..Len(ckpts) /\ p < c /\ p \in Nat
        /\ ckpts[c].msgs \in Seq(Nat) /\ MsgsOf(ckpts, c) = ckpts[c].msgs /\ ItemsOf(ckpts, c) = ckpts[c].items
        /\ MsgsOf(ckpts, p) \in Seq(1..p) /\ old \in Seq(Items) /\ ItemsOf(ckpts, s) \in Seq(Items)
        /\ StartedWith(s) \in Seq(Items)
    BY LogFacts, StartedType DEF MsgsOf, ItemsOf, NoCheckpoint
  <1>2. Grown(ckpts, c)
    BY DEF WellLogged, CheckpointOK
  <1>3. /\ acc.prev = ToSet(MsgsOf(ckpts, p)) /\ acc.prev \subseteq acc.seen /\ acc.seen \subseteq 1..p
        /\ acc.items = Told(p, s) /\ L \in 0..Len(old) /\ acc.items \in Seq(Items)
    BY <1>1 DEF Followed, Accumulators
  <1>4. /\ new.prev = ToSet(ckpts[c].msgs) /\ new.seen = acc.seen \cup ToSet(ckpts[c].msgs)
        /\ new.items = acc.items \o Marker(acc, c) \o fresh
    BY AddFacts
  <1>5. ToSet(ckpts[c].msgs) \subseteq 1..c
    <2>1. ckpts[c].msgs \in Seq(1..c)
      BY DEF WellLogged, CheckpointOK
    <2>2. QED BY <2>1, ToSetFacts
  <1>6. new.prev \subseteq new.seen /\ new.seen \subseteq 1..c
    BY <1>1, <1>3, <1>4, <1>5
  \* What was told is what happened, when what was added is.
  <1>7. ASSUME NEW b \in Seq(Items), ckpts[c].items = old \o b, Marker(acc, c) \o fresh = b,
               new.items = acc.items \o b
        PROVE  Followed(new, c, s)
    <2>1. /\ StartedWith(s) \o SubSeq(old \o b, L + 1, Len(old \o b))
               = (StartedWith(s) \o SubSeq(old, L + 1, Len(old))) \o b
          /\ Len(old) <= Len(old \o b)
      <3> DEFINE w == StartedWith(s)
      <3>1. w \in Seq(Items) /\ old \in Seq(Items) /\ L \in 0..Len(old)
        BY <1>1, <1>3
      <3> HIDE DEF old, L, w
      <3>2. /\ w \o SubSeq(old \o b, L + 1, Len(old \o b)) = (w \o SubSeq(old, L + 1, Len(old))) \o b
            /\ Len(old) <= Len(old \o b)
        BY <3>1, ToldMore
      <3>3. QED BY <3>2 DEF w
    <2>2. Told(c, s) = Told(p, s) \o b
      BY <1>1, <1>7, <2>1, Zenon DEF Told
    <2>3. new.items = Told(c, s)
      BY <1>3, <1>7, <2>2, Zenon
    <2>4. Len(ItemsOf(ckpts, s)) <= Len(ItemsOf(ckpts, c))
      <3>1. ItemsOf(ckpts, c) = old \o b
        BY <1>1, <1>7
      <3>2. Len(old) \in Nat /\ Len(old \o b) \in Nat
        <4> HIDE DEF old
        <4>1. QED BY <1>1
      <3> HIDE DEF old
      <3>3. QED BY <1>3, <2>1, <3>1, <3>2
    <2>5. new.prev = ToSet(MsgsOf(ckpts, c))
      BY <1>1, <1>4
    <2> HIDE DEF new
    <2>6. QED BY <1>6, <2>3, <2>4, <2>5 DEF Followed
  <1>8. ASSUME NEW a \in Seq(Items), NEW b \in Seq(Items), Marker(acc, c) = a, fresh = b
        PROVE  new.items = acc.items \o (a \o b)
    <2>1. (acc.items \o a) \o b = acc.items \o (a \o b)
      <3> DEFINE i == acc.items
      <3>1. i \in Seq(Items)
        BY <1>3
      <3> HIDE DEF i
      <3>2. (i \o a) \o b = i \o (a \o b)
        BY <3>1, Regroup, Zenon
      <3>3. QED BY <3>2 DEF i
    <2>2. QED BY <1>4, <1>8, <2>1, Zenon
  <1>9. CASE ckpts[c].msgs = MsgsOf(ckpts, p) /\ ckpts[c].items = old
    <2>1. Marker(acc, c) = <<>>
      BY <1>3, <1>9 DEF Marker
    <2>2. fresh = <<>>
      BY <1>1, <1>3, <1>9, FreshNone
    <2>3. <<>> \in Seq(Items) /\ <<>> \o <<>> = <<>> /\ old \o <<>> = old
      <3> HIDE DEF old
      <3>1. QED BY <1>1
    <2>4. new.items = acc.items \o <<>>
      BY <1>8, <2>1, <2>2, <2>3
    <2>5. QED BY <1>7, <1>9, <2>1, <2>2, <2>3, <2>4
  <1>10. CASE /\ ckpts[c].msgs = Append(MsgsOf(ckpts, p), c)
              /\ ckpts[c].items = old \o <<Message(c, c)>>
    <2>1. ToSet(ckpts[c].msgs) = acc.prev \cup {c} /\ c \notin acc.seen
      <3>1. ToSet(Append(MsgsOf(ckpts, p), c)) = ToSet(MsgsOf(ckpts, p)) \cup {c}
        BY <1>1, ToSetAppend
      <3>2. c \notin 1..p
        BY <1>1
      <3>3. QED BY <1>3, <1>10, <3>1, <3>2
    <2>2. Marker(acc, c) = <<>>
      BY <2>1 DEF Marker
    <2>3. fresh = <<Message(c, c)>>
      <3>1. MsgsOf(ckpts, p) \in Seq(Nat)
        <4> DEFINE m == MsgsOf(ckpts, p)
        <4> HIDE DEF m
        <4>1. m \in Seq(1..p) => m \in Seq(Nat)
          BY <1>1
        <4>2. QED BY <1>1, <4>1 DEF m
      <3>2. ToSet(MsgsOf(ckpts, p)) \subseteq acc.seen
        BY <1>3
      <3> DEFINE m == MsgsOf(ckpts, p)
      <3>3. m \in Seq(Nat) /\ ckpts[c].msgs = Append(m, c) /\ ToSet(m) \subseteq acc.seen
        BY <1>10, <3>1, <3>2
      <3> HIDE DEF m, p
      <3>4. QED BY <1>1, <2>1, <3>3, FreshLast
    <2>4. <<Message(c, c)>> \in Seq(Items) /\ <<>> \in Seq(Items) /\ <<>> \o <<Message(c, c)>> = <<Message(c, c)>>
      BY <1>1, ItemsType
    <2>5. new.items = acc.items \o <<Message(c, c)>>
      BY <1>8, <2>2, <2>3, <2>4
    <2>6. QED BY <1>7, <1>10, <2>2, <2>3, <2>4, <2>5
  <1>11. CASE /\ MsgsOf(ckpts, p) # <<>> /\ ckpts[c].msgs = <<c>>
              /\ ckpts[c].items = old \o <<Summary(c), Message(c, c)>>
    <2>1. ToSet(ckpts[c].msgs) = {c} /\ c \notin acc.seen
      BY <1>1, <1>3, <1>11, ToSetAppend
    <2>2. acc.prev # {}
      <3> DEFINE m == MsgsOf(ckpts, p)
      <3>1. m \in Seq(1..p) /\ m # <<>>
        BY <1>1, <1>11
      <3> HIDE DEF m
      <3>2. 1 \in 1..Len(m)
        BY <3>1
      <3>3. m[1] \in ToSet(m)
        BY <3>1, <3>2, ToSetFacts
      <3>4. QED BY <1>3, <3>3 DEF m
    <2>3. Marker(acc, c) = <<Summary(c)>>
      BY <1>3, <2>1, <2>2 DEF Marker
    <2>4. fresh = <<Message(c, c)>>
      <3>1. <<>> \in Seq(Nat) /\ ToSet(<<>>) = {}
        BY DEF ToSet
      <3>2. Append(<<>>, c) = <<c>>
        OBVIOUS
      <3>3. ckpts[c].msgs = Append(<<>>, c) /\ ToSet(<<>>) \subseteq acc.seen
        BY <1>11, <3>1, <3>2
      <3>4. QED BY <1>1, <2>1, <3>1, <3>3, FreshLast
    <2>5. /\ <<Message(c, c)>> \in Seq(Items) /\ <<Summary(c)>> \in Seq(Items)
          /\ <<Summary(c), Message(c, c)>> \in Seq(Items)
          /\ <<Summary(c)>> \o <<Message(c, c)>> = <<Summary(c), Message(c, c)>>
      <3> DEFINE x == Summary(c)
                 y == Message(c, c)
      <3>1. x \in Items /\ y \in Items
        BY <1>1, ItemsType
      <3> HIDE DEF x, y
      <3>2. <<y>> \in Seq(Items) /\ <<x>> \in Seq(Items) /\ <<x, y>> \in Seq(Items)
        BY <3>1
      <3>3. <<x>> \o <<y>> = <<x, y>>
        <4>1. <<x>> \o <<y>> \in Seq(Items) /\ Len(<<x>> \o <<y>>) = 2
          BY <3>2
        <4>2. \A i \in 1..2 : (<<x>> \o <<y>>)[i] = <<x, y>>[i]
          BY <3>2
        <4>3. Len(<<x, y>>) = 2
          OBVIOUS
        <4>4. QED BY <3>2, <4>1, <4>2, <4>3, SeqEqual
      <3>4. QED BY <3>2, <3>3 DEF x, y
    <2>6. new.items = acc.items \o <<Summary(c), Message(c, c)>>
      BY <1>8, <2>3, <2>4, <2>5
    <2>7. QED BY <1>7, <1>11, <2>3, <2>4, <2>5, <2>6
  <1>12. QED BY <1>2, <1>9, <1>10, <1>11 DEF Grown

\* The beginning, and the checkpoint a segment started from.
LEMMA StartFollows ==
  ASSUME WellLogged(ckpts), NEW s \in 1..Len(ckpts)
  PROVE  Followed(AddCheckpoint(Begin, s), s, s)
  <1> DEFINE m == ckpts[s].msgs
             all == [i \in DOMAIN m |-> Message(m[i], s)]
             it == ckpts[s].items
             new == AddCheckpoint(Begin, s)
  <1>1. /\ s \in Nat /\ s # 0 /\ m \in Seq(Nat) /\ it \in Seq(Items)
        /\ MsgsOf(ckpts, s) = m /\ ItemsOf(ckpts, s) = it
    BY LogFacts DEF WellLogged, CheckpointOK, MsgsOf, ItemsOf, NoCheckpoint
  <1>2. /\ new.prev = ToSet(m) /\ new.seen = Begin.seen \cup ToSet(m)
        /\ new.items = Begin.items \o Marker(Begin, s) \o FlattenSeq(Parts(Begin, s))
    BY AddFacts
  <1>3. Begin.prev = {} /\ Begin.seen = {} /\ Begin.items = <<>>
    BY DEF Begin
  <1>4. Marker(Begin, s) = <<>>
    BY <1>3 DEF Marker
  <1>5. FlattenSeq(Parts(Begin, s)) = all /\ all \in Seq(Items)
    BY <1>1, <1>3, FreshAll
  <1>6. new.items = all
    <2> HIDE DEF all, new
    <2>1. <<>> \o all = all /\ <<>> \o <<>> = <<>>
      BY <1>5
    <2>2. QED BY <1>2, <1>3, <1>4, <1>5, <2>1
  <1>7. Told(s, s) = all
    <2>1. StartedWith(s) = all
      BY <1>1 DEF StartedWith
    <2>2. SubSeq(it, Len(it) + 1, Len(it)) = <<>>
      <3> HIDE DEF it
      <3>1. Len(it) \in Nat
        BY <1>1
      <3>2. QED BY <3>1, SubSeqEmpty
    <2>3. all \o <<>> = all
      <3> HIDE DEF all
      <3>1. QED BY <1>5
    <2>4. QED BY <1>1, <2>1, <2>2, <2>3, Zenon DEF Told
  <1>8. ToSet(m) \subseteq 1..s
    <2>1. m \in Seq(1..s)
      BY DEF WellLogged, CheckpointOK
    <2>2. QED BY <2>1, ToSetFacts
  <1>9. Len(ItemsOf(ckpts, s)) <= Len(ItemsOf(ckpts, s))
    <2>1. Len(it) \in Nat
      <3> HIDE DEF it
      <3>1. QED BY <1>1
    <2>2. QED BY <1>1, <2>1
  <1> HIDE DEF new, all, m
  <1>10. new.prev = ToSet(MsgsOf(ckpts, s)) /\ new.prev \subseteq new.seen /\ new.seen \subseteq 1..s
    BY <1>1, <1>2, <1>3, <1>8
  <1>11. new.items = Told(s, s)
    BY <1>6, <1>7
  <1>12. Followed(new, s, s)
    BY <1>9, <1>10, <1>11 DEF Followed
  <1>13. QED BY <1>12 DEF new

LEMMA BeginFollows == Followed(Begin, 0, 0)
  <1>1. MsgsOf(ckpts, 0) = <<>> /\ ItemsOf(ckpts, 0) = <<>> /\ StartedWith(0) = <<>>
    BY DEF MsgsOf, ItemsOf, StartedWith, NoCheckpoint
  <1>2. Told(0, 0) = <<>>
    <2>1. SubSeq(<<>>, Len(<<>>) + 1, Len(<<>>)) = <<>>
      OBVIOUS
    <2>2. <<>> \o <<>> = <<>>
      OBVIOUS
    <2>3. QED BY <1>1, <2>1, <2>2, Zenon DEF Told
  <1>3. ToSet(<<>>) = {}
    BY DEF ToSet
  <1>4. Len(<<>>) <= Len(<<>>)
    OBVIOUS
  <1>5. Begin.prev = {} /\ Begin.seen = {} /\ Begin.items = <<>>
    BY DEF Begin
  <1>6. QED BY <1>1, <1>2, <1>3, <1>4, <1>5 DEF Followed

\* The chains of parents that end at the stop.
Walks(walk, stop) ==
  walk = [c \in 0..Len(ckpts) |->
            IF c = NoCheckpoint THEN <<>>
            ELSE IF c = stop THEN <<c>>
            ELSE Append(walk[ckpts[c].parent], c)]
Chain(stop) == CHOOSE walk : Walks(walk, stop)

LEMMA WalkExists ==
  ASSUME WellLogged(ckpts), NEW stop \in 0..Len(ckpts)
  PROVE  Walks(Chain(stop), stop)
  <1> DEFINE n == Len(ckpts)
             D == 0..n
             V == Seq(Nat)
             B == {0, stop}
             base == [c \in B |-> IF c = 0 THEN <<>> ELSE <<c>>]
             pred == [c \in D |-> ckpts[c].parent]
             rank == [c \in D |-> c]
             G == [p \in D \X V |-> Append(p[2], p[1])]
  <1>1. n \in Nat /\ \A c \in 1..n : ckpts[c].parent \in D /\ ckpts[c].parent < c
    BY LogFacts
  <1>2. PICK g : IsRecursive(g, D, B, base, pred, G, V)
    <2>1. \A x \in D : x \in B => base[x] \in V
      <3>1. ASSUME NEW x \in B PROVE (IF x = 0 THEN <<>> ELSE <<x>>) \in V
        <4>1. x \in Nat
          OBVIOUS
        <4>2. <<x>> \in V /\ <<>> \in V
          BY <4>1
        <4>3. QED BY <4>2
      <3>2. QED BY <3>1
    <2>2. Descending(D, B, pred, rank)
      <3>1. ASSUME NEW c \in D PROVE rank[c] \in Nat
        BY <1>1
      <3>2. ASSUME NEW c \in D, c \notin B PROVE pred[c] \in D /\ rank[pred[c]] < rank[c]
        <4>1. c \in 1..n
          BY <1>1, <3>2
        <4>2. QED BY <1>1, <4>1
      <3> HIDE DEF D, B, pred, rank
      <3>3. QED BY <3>1, <3>2 DEF Descending
    <2>3. G \in [D \X V -> V]
      <3>1. ASSUME NEW p \in D \X V PROVE Append(p[2], p[1]) \in V
        <4>1. p[1] \in Nat /\ p[2] \in V
          BY <1>1
        <4>2. QED BY <4>1
      <3>2. QED BY <3>1
    <2> HIDE DEF D, V, B, base, pred, rank, G
    <2>4. QED BY <2>1, <2>2, <2>3, Recursion
  <1>3. g = [c \in D |-> g[c]]
    BY <1>2 DEF IsRecursive
  <1>4. ASSUME NEW c \in D
        PROVE  g[c] = IF c = NoCheckpoint THEN <<>> ELSE IF c = stop THEN <<c>> ELSE Append(g[ckpts[c].parent], c)
    <2>1. CASE c \in B
      <3>1. g[c] = base[c]
        BY <1>2, <2>1 DEF IsRecursive
      <3>2. QED BY <2>1, <3>1 DEF NoCheckpoint
    <2>2. CASE c \notin B
      <3>1. c \in 1..n /\ ckpts[c].parent \in D /\ pred[c] = ckpts[c].parent
        BY <1>1, <2>2
      <3>2. g[ckpts[c].parent] \in V
        BY <1>2, <3>1 DEF IsRecursive
      <3>3. <<c, g[ckpts[c].parent]>> \in D \X V
        BY <3>2
      <3>4. G[<<c, g[ckpts[c].parent]>>] = Append(g[ckpts[c].parent], c)
        BY <3>3
      <3>5. g[c] = G[<<c, g[pred[c]]>>]
        BY <1>2, <2>2 DEF IsRecursive
      <3>6. QED BY <2>2, <3>1, <3>4, <3>5 DEF NoCheckpoint
    <2>3. QED BY <2>1, <2>2
  <1>5. Walks(g, stop)
    BY <1>3, <1>4 DEF Walks
  <1>6. QED BY <1>5 DEF Chain

\* c comes from s: every set of checkpoints that holds s, and what it holds the
\* parents of, holds c.
Descends(cs, c, s) ==
  \A U : (s \in U /\ \A d \in 1..Len(cs) : cs[d].parent \in U => d \in U) => c \in U

LEMMA ReadFollows ==
  ASSUME WellLogged(ckpts), NEW s \in 0..Len(ckpts), NEW c \in 0..Len(ckpts), Descends(ckpts, c, s)
  PROVE  Followed(ReadOf(Chain(s)[c]), c, s)
  <1> DEFINE walk == Chain(s)
             U == {d \in 0..Len(ckpts) : walk[d] \in Seq(1..Len(ckpts)) /\ Followed(ReadOf(walk[d]), d, s)}
  <1>1. /\ Len(ckpts) \in Nat
        /\ \A d \in 1..Len(ckpts) : ckpts[d].parent \in 0..Len(ckpts)
    BY LogFacts
  <1>2. Walks(walk, s)
    BY WalkExists
  <1> HIDE DEF walk
  <1>3. ASSUME NEW d \in 0..Len(ckpts)
        PROVE  walk[d] = IF d = 0 THEN <<>> ELSE IF d = s THEN <<d>> ELSE Append(walk[ckpts[d].parent], d)
    BY <1>2 DEF Walks, NoCheckpoint
  <1>4. s \in U
    <2>1. CASE s = 0
      <3>1. walk[s] = <<>>
        BY <1>3, <2>1
      <3>2. <<>> \in Seq(1..Len(ckpts))
        OBVIOUS
      <3>3. Followed(ReadOf(<<>>), 0, 0)
        BY BeginFollows, ReadNothing
      <3>4. QED BY <2>1, <3>1, <3>2, <3>3
    <2>2. CASE s # 0
      <3>1. walk[s] = <<s>> /\ s \in 1..Len(ckpts)
        <4>1. walk[s] = <<s>>
          BY <1>3, <2>2, Zenon
        <4>2. s \in 1..Len(ckpts)
          BY <1>1, <2>2
        <4>3. QED BY <4>1, <4>2
      <3>2. <<>> \in Seq(1..Len(ckpts)) /\ Append(<<>>, s) = <<s>> /\ <<s>> \in Seq(1..Len(ckpts))
        BY <3>1
      <3>3. ReadOf(Append(<<>>, s)) = AddCheckpoint(ReadOf(<<>>), s) /\ ReadOf(<<>>) = Begin
        BY <3>1, <3>2, ReadOne, ReadNothing
      <3>4. Followed(ReadOf(<<s>>), s, s)
        BY <3>1, <3>2, <3>3, StartFollows
      <3>5. QED BY <3>1, <3>2, <3>4
    <2>3. QED BY <2>1, <2>2
  <1>5. ASSUME NEW d \in 1..Len(ckpts), ckpts[d].parent \in U PROVE d \in U
    <2>1. CASE d = s
      BY <1>4, <2>1
    <2>2. CASE d # s
      <3> DEFINE p == ckpts[d].parent
      <3>1. p \in 0..Len(ckpts) /\ walk[p] \in Seq(1..Len(ckpts)) /\ Followed(ReadOf(walk[p]), p, s)
        BY <1>5
      <3>2. walk[d] = Append(walk[p], d) /\ d \in 0..Len(ckpts)
        <4>1. d \in 0..Len(ckpts) /\ d # 0
          BY <1>1
        <4>2. walk[d] = Append(walk[p], d)
          BY <1>3, <2>2, <4>1, Zenon
        <4>3. QED BY <4>1, <4>2
      <3>3. ReadOf(walk[p]) \in Accumulators /\ ReadOf(walk[d]) = AddCheckpoint(ReadOf(walk[p]), d)
        BY <3>1, <3>2, ReadOne
      <3>4. Followed(ReadOf(walk[d]), d, s)
        BY <3>1, <3>3, StepFollows
      <3>5. walk[d] \in Seq(1..Len(ckpts))
        BY <3>1, <3>2
      <3>6. QED BY <3>2, <3>4, <3>5
    <2>3. QED BY <2>1, <2>2
  <1>6. c \in U
    <2> HIDE DEF U
    <2>1. QED BY <1>4, <1>5 DEF Descends
  <1>7. QED BY <1>6 DEF walk

\* What is loaded of a segment that ended at a checkpoint that comes from its start.
LEMMA LoadedIsHappened ==
  ASSUME WellLogged(ckpts), NEW t, NEW end \in 1..Len(ckpts), NEW start \in 0..Len(ckpts),
         Descends(ckpts, end, start)
  PROVE  LoadTimeline(t, end, start) = Happened(end, start)
  <1>1. Len(ckpts) \in Nat /\ end \in 0..Len(ckpts) /\ end # NoCheckpoint
    BY LogFacts DEF NoCheckpoint
  <1>2. History(t, end, start) = Chain(start)[end]
    BY <1>1 DEF History, Chain, Walks
  <1>3. LoadTimeline(t, end, start) = ReadOf(Chain(start)[end]).items
    BY <1>2 DEF LoadTimeline, ReadOf, Begin
  <1>4. LoadTimeline(t, end, start) = Told(end, start)
    <2>1. Followed(ReadOf(Chain(start)[end]), end, start)
      BY <1>1, ReadFollows
    <2>2. QED BY <1>3, <2>1 DEF Followed
  <1>5. Told(end, start) = Happened(end, start)
    <2>1. ckpts[end].items \in Seq(Items) /\ ItemsOf(ckpts, end) = ckpts[end].items
      BY <1>1 DEF WellLogged, CheckpointOK, ItemsOf
    <2>2. CASE start = NoCheckpoint
      <3>1. StartedWith(start) = <<>> /\ ItemsOf(ckpts, start) = <<>>
        BY <2>2 DEF StartedWith, MsgsOf, ItemsOf
      <3> DEFINE it == ckpts[end].items
      <3>2. SubSeq(it, Len(<<>>) + 1, Len(it)) = it /\ <<>> \o it = it
        <4>1. it \in Seq(Items)
          BY <2>1
        <4> HIDE DEF it
        <4>2. Len(<<>>) + 1 = 1
          OBVIOUS
        <4>3. SubSeq(it, 1, Len(it)) = it
          BY <4>1, SubSeqFull
        <4>4. <<>> \o it = it
          BY <4>1
        <4>5. QED BY <4>2, <4>3, <4>4
      <3>3. Told(end, start) = it
        BY <2>1, <3>1, <3>2, Zenon DEF Told
      <3>4. QED BY <2>2, <3>3 DEF Happened
    <2>3. CASE start # NoCheckpoint
      BY <2>1, <2>3, Zenon DEF Told, Happened, StartedWith, MsgsOf, ItemsOf
    <2>4. QED BY <2>2, <2>3
  <1>6. QED BY <1>4, <1>5

-----------------------------------------------------------------------------
(* The log, whatever the processes do. *)

\* A record that has an end has one that comes from its start, and so has a graph that
\* runs a tip, which is the last checkpoint it made.
RecordOK(cs, r) ==
  r.end # NoCheckpoint =>
    r.end \in 1..Len(cs) /\ r.start \in 0..Len(cs) /\ Descends(cs, r.end, r.start)
GraphOK(cs, k) ==
  /\ k.at \in {"named", "graph"} => k.last = NoCheckpoint \/ (k.at = "graph" /\ k.last = k.tip)
  /\ k.at = "graph" => k.start \in 0..Len(cs) /\ k.tip \in 0..Len(cs) /\ Descends(cs, k.tip, k.start)
LogInv ==
  /\ WellLogged(ckpts) /\ \A c \in 1..Len(ckpts) : Descends(ckpts, c, NoCheckpoint)
  /\ IsSequence(records) /\ \A n \in 1..Len(records) : RecordOK(ckpts, records[n])
  /\ \A p \in Procs : GraphOK(ckpts, client[p])

LEMMA OffIsIdle == \A cs : GraphOK(cs, Off)
  BY DEF GraphOK, Off

LEMMA SequenceFacts ==
  ASSUME NEW s, IsSequence(s), NEW x
  PROVE  /\ Len(s) \in Nat /\ DOMAIN s = 1..Len(s) /\ IsSequence(Append(s, x))
         /\ Len(Append(s, x)) = Len(s) + 1 /\ Append(s, x)[Len(s) + 1] = x
         /\ \A i \in 1..Len(s) : Append(s, x)[i] = s[i]
  <1>1. PICK A : s \in Seq(A)
    BY DEF IsSequence
  <1>2. s \in Seq(A \cup {x}) /\ x \in A \cup {x}
    <2>1. A \subseteq A \cup {x}
      OBVIOUS
    <2>2. QED BY <1>1, <2>1, SeqMonotonic
  <1> DEFINE B == A \cup {x}
  <1> HIDE DEF B
  <1>3. s \in Seq(B) /\ x \in B
    BY <1>2 DEF B
  <1>4. Append(s, x) \in Seq(B)
    BY <1>3
  <1>5. QED BY <1>3, <1>4 DEF IsSequence

LEMMA SequenceLength ==
  ASSUME NEW s, IsSequence(s)
  PROVE  Len(s) \in Nat /\ DOMAIN s = 1..Len(s)
  BY SequenceFacts

\* One checkpoint more takes nothing back.
LEMMA LogGrows ==
  ASSUME NEW cs, WellLogged(cs), NEW k, NEW c, NEW s, Descends(cs, c, s)
  PROVE  /\ Descends(Append(cs, k), c, s)
         /\ k.parent = c => Descends(Append(cs, k), Len(cs) + 1, s)
  <1> DEFINE more == Append(cs, k)
  <1>1. /\ Len(cs) \in Nat /\ Len(more) = Len(cs) + 1 /\ more[Len(cs) + 1] = k
        /\ \A d \in 1..Len(cs) : more[d] = cs[d] /\ d \in 1..Len(more)
    BY SequenceFacts DEF WellLogged
  <1> HIDE DEF more
  <1>2. ASSUME NEW U, s \in U, \A d \in 1..Len(more) : more[d].parent \in U => d \in U
        PROVE  c \in U
    BY <1>1, <1>2 DEF Descends
  <1>3. ASSUME NEW U, s \in U, \A d \in 1..Len(more) : more[d].parent \in U => d \in U, k.parent = c
        PROVE  Len(cs) + 1 \in U
    <2>1. c \in U /\ Len(cs) + 1 \in 1..Len(more)
      BY <1>1, <1>2, <1>3
    <2>2. QED BY <1>1, <1>3, <2>1
  <1>4. Descends(more, c, s)
    BY <1>2 DEF Descends
  <1>5. k.parent = c => Descends(more, Len(cs) + 1, s)
    BY <1>3 DEF Descends
  <1>6. QED BY <1>4, <1>5 DEF more

LEMMA WellLoggedGrows ==
  ASSUME NEW cs, WellLogged(cs), NEW k, CheckpointOK(Append(cs, k), Len(cs) + 1)
  PROVE  WellLogged(Append(cs, k))
  <1> DEFINE more == Append(cs, k)
  <1>1. /\ Len(cs) \in Nat /\ Len(more) = Len(cs) + 1 /\ IsSequence(more)
        /\ \A d \in 1..Len(cs) : more[d] = cs[d]
    BY SequenceFacts DEF WellLogged
  <1> HIDE DEF more
  <1>2. ASSUME NEW c \in 1..Len(cs) PROVE CheckpointOK(more, c)
    <2>1. CheckpointOK(cs, c) /\ more[c] = cs[c]
      BY <1>1 DEF WellLogged
    <2> DEFINE p == cs[c].parent
    <2>2. MsgsOf(more, p) = MsgsOf(cs, p) /\ ItemsOf(more, p) = ItemsOf(cs, p)
      <3>1. CASE p = NoCheckpoint
        BY <3>1 DEF MsgsOf, ItemsOf
      <3>2. CASE p # NoCheckpoint
        <4>1. p \in 0..(c - 1)
          BY <2>1 DEF CheckpointOK
        <4>2. p \in 1..Len(cs)
          BY <1>1, <3>2, <4>1 DEF NoCheckpoint
        <4>3. QED BY <1>1, <3>2, <4>2 DEF MsgsOf, ItemsOf
      <3>3. QED BY <3>1, <3>2
    <2>3. Grown(more, c)
      <3>1. Grown(cs, c)
        BY <2>1 DEF CheckpointOK
      <3>2. QED BY <2>1, <2>2, <3>1, Zenon DEF Grown
    <2>4. QED BY <2>1, <2>3 DEF CheckpointOK
  <1>3. \A c \in 1..Len(more) : c \in 1..Len(cs) \/ c = Len(cs) + 1
    BY <1>1
  <1>4. QED BY <1>1, <1>2, <1>3 DEF WellLogged, more

LEMMA LatestFacts ==
  ASSUME LogInv, NEW t
  PROVE  Latest(t) \in 0..Len(ckpts) /\ Descends(ckpts, Latest(t), NoCheckpoint)
  <1>1. Len(ckpts) \in Nat /\ DOMAIN ckpts = 1..Len(ckpts)
    BY SequenceLength DEF LogInv, WellLogged
  <1>2. CASE OfThread(t) = {}
    BY <1>1, <1>2 DEF Latest, NoCheckpoint, Descends
  <1>3. CASE OfThread(t) # {}
    <2>1. OfThread(t) \subseteq 1..Len(ckpts) /\ OfThread(t) \subseteq 0..Len(ckpts)
      BY <1>1 DEF OfThread
    <2>2. \E c \in OfThread(t) : \A d \in OfThread(t) : d <= c
      BY <1>1, <1>3, <2>1, MaxOf
    <2>3. Latest(t) \in OfThread(t)
      BY <1>3, <2>2 DEF Latest
    <2>4. QED BY <2>1, <2>3 DEF LogInv
  <1>4. QED BY <1>2, <1>3

-----------------------------------------------------------------------------

LEMMA InitLog == Init => LogInv
  <1> SUFFICES ASSUME Init PROVE LogInv
    OBVIOUS
  <1>1. ckpts = <<>> /\ records = <<>> /\ \A p \in Procs : client[p] = Off
    BY DEF Init, LogInit
  <1>2. IsSequence(<<>>)
    <2>1. <<>> \in Seq({})
      OBVIOUS
    <2>2. QED BY <2>1 DEF IsSequence
  <1>3. 1..Len(<<>>) = {}
    OBVIOUS
  <1>4. QED BY <1>1, <1>2, <1>3, OffIsIdle DEF LogInv, WellLogged

\* The process p goes on, and leaves the log alone.
LEMMA LogGoes ==
  ASSUME LogInv, NEW p \in Procs, UNCHANGED log,
         \A q \in Procs : q # p => client'[q] = client[q], GraphOK(ckpts, client'[p])
  PROVE  LogInv'
  <1>1. ckpts' = ckpts /\ records' = records
    BY DEF log
  <1>2. \A q \in Procs : GraphOK(ckpts, client'[q])
    BY DEF LogInv
  <1>3. QED BY <1>1, <1>2 DEF LogInv

LEMMA LogStays == ASSUME LogInv, client' = client, UNCHANGED log PROVE LogInv'
  BY DEF LogInv, log

LEMMA LogGoesIdle ==
  ASSUME Inv, LogInv, NEW p \in Procs, NEW k, client' = [client EXCEPT ![p] = k], UNCHANGED log,
         k.at \notin {"named", "graph"}
  PROVE  LogInv'
  <1>1. client'[p] = k /\ \A q \in Procs : q # p => client'[q] = client[q]
    BY ClientFacts
  <1>2. GraphOK(ckpts, client'[p])
    BY <1>1 DEF GraphOK
  <1>3. QED BY <1>1, <1>2, LogGoes

LEMMA LogNamed ==
  ASSUME Inv, LogInv, NEW p \in Procs, NEW name, Named(p, name), UNCHANGED log
  PROVE  LogInv'
  <1> DEFINE k == [Off EXCEPT !.at = "named", !.tid = client[p].tid]
  <1>1. client' = [client EXCEPT ![p] = k]
    BY DEF Named
  <1>2. k.at = "named" /\ k.last = NoCheckpoint
    BY DEF Off
  <1>3. GraphOK(ckpts, k)
    BY <1>2 DEF GraphOK
  <1>4. client'[p] = k /\ \A q \in Procs : q # p => client'[q] = client[q]
    BY <1>1, ClientFacts
  <1>5. QED BY <1>3, <1>4, LogGoes

LEMMA OpenLogs == ASSUME Inv, LogInv, NEW p \in Procs, OpenSegment(p) PROVE LogInv'
  <1> DEFINE t == client[p].tid
             tip(start) == IF start = NoCheckpoint THEN Latest(t) ELSE start
  <1>1. PICK start \in {NoCheckpoint} \cup OfThread(t) :
          /\ StartRecord(t, start)
          /\ client' = [client EXCEPT ![p].at = "graph", ![p].seg = Len(records) + 1, ![p].start = start,
                                      ![p].tip = tip(start)]
    BY DEF OpenSegment
  <1>2. ckpts' = ckpts /\ client[p].at = "named"
    BY DEF OpenSegment
  <1>3. Len(ckpts) \in Nat /\ DOMAIN ckpts = 1..Len(ckpts) /\ start \in 0..Len(ckpts)
    <2>1. Len(ckpts) \in Nat /\ DOMAIN ckpts = 1..Len(ckpts)
      BY SequenceLength DEF LogInv, WellLogged
    <2>2. QED BY <2>1 DEF OfThread, NoCheckpoint
  <1>4. tip(start) \in 0..Len(ckpts) /\ Descends(ckpts, tip(start), start)
    <2>1. CASE start = NoCheckpoint
      BY <2>1, LatestFacts
    <2>2. CASE start # NoCheckpoint
      BY <1>3, <2>2 DEF Descends
    <2>3. QED BY <2>1, <2>2
  <1> HIDE DEF tip
  <1> DEFINE k == [client[p] EXCEPT !.at = "graph", !.seg = Len(records) + 1, !.start = start, !.tip = tip(start)]
  <1>5. client'[p] = k /\ \A q \in Procs : q # p => client'[q] = client[q]
    BY <1>1, ClientFacts
  <1>6. k.at = "graph" /\ k.start = start /\ k.tip = tip(start) /\ k.last = client[p].last
    BY ClientFacts, OffFacts
  <1>7. client[p].last = NoCheckpoint
    BY <1>2 DEF LogInv, GraphOK
  <1>8. GraphOK(ckpts, client'[p])
    BY <1>3, <1>4, <1>5, <1>6, <1>7 DEF GraphOK
  <1>9. PICK r : records' = Append(records, r) /\ r.end = NoCheckpoint
    BY <1>1 DEF StartRecord, Unlogged
  <1>10. IsSequence(records') /\ \A n \in 1..Len(records') : RecordOK(ckpts, records'[n])
    <2>1. RecordOK(ckpts, r)
      BY <1>9 DEF RecordOK
    <2>2. /\ IsSequence(Append(records, r)) /\ Len(Append(records, r)) = Len(records) + 1 /\ Len(records) \in Nat
          /\ Append(records, r)[Len(records) + 1] = r
          /\ \A i \in 1..Len(records) : Append(records, r)[i] = records[i]
      BY SequenceFacts DEF LogInv
    <2>3. \A n \in 1..(Len(records) + 1) : n \in 1..Len(records) \/ n = Len(records) + 1
      BY <2>2
    <2>4. QED BY <1>9, <2>1, <2>2, <2>3 DEF LogInv
  <1>11. \A q \in Procs : GraphOK(ckpts, client'[q])
    BY <1>5, <1>8 DEF LogInv
  <1>12. QED BY <1>2, <1>10, <1>11 DEF LogInv

LEMMA CloseLogs == ASSUME Inv, LogInv, NEW p \in Procs, CloseSegment(p) PROVE LogInv'
  <1> DEFINE n == client[p].seg
  <1>1. /\ client[p].at = "graph" /\ CompleteRecord(n, client[p].tid, client[p].start, client[p].last)
        /\ client' = [client EXCEPT ![p] = Off] /\ ckpts' = ckpts
    BY DEF CloseSegment
  <1>2. PICK r \in {[thread |-> client[p].tid, start |-> client[p].start, end |-> client[p].last], records[n]} :
          records' = [records EXCEPT ![n] = r]
    BY <1>1 DEF CompleteRecord
  <1>3. /\ client[p].last # NoCheckpoint => client[p].last = client[p].tip
        /\ client[p].start \in 0..Len(ckpts) /\ client[p].tip \in 0..Len(ckpts)
        /\ Descends(ckpts, client[p].tip, client[p].start)
    BY <1>1 DEF LogInv, GraphOK
  <1>4. Len(records) \in Nat /\ DOMAIN records = 1..Len(records)
    BY SequenceLength DEF LogInv
  <1>5. ASSUME n \in 1..Len(records) PROVE RecordOK(ckpts, r)
    <2>1. CASE r = records[n]
      BY <1>5, <2>1 DEF LogInv
    <2>2. CASE r = [thread |-> client[p].tid, start |-> client[p].start, end |-> client[p].last]
      <3>1. r.end = client[p].last /\ r.start = client[p].start
        BY <2>2
      <3>2. Len(ckpts) \in Nat
        BY SequenceLength DEF LogInv, WellLogged
      <3>3. ASSUME r.end # NoCheckpoint
            PROVE  r.end \in 1..Len(ckpts) /\ r.start \in 0..Len(ckpts) /\ Descends(ckpts, r.end, r.start)
        <4>1. r.end = client[p].tip
          BY <1>3, <3>1, <3>3
        <4>2. r.end \in 1..Len(ckpts)
          BY <1>3, <3>2, <3>3, <4>1 DEF NoCheckpoint
        <4>3. QED BY <1>3, <3>1, <4>1, <4>2
      <3>4. QED BY <3>3 DEF RecordOK
    <2>3. QED BY <1>2, <2>1, <2>2
  <1>6. IsSequence(records') /\ Len(records') = Len(records)
    <2>1. PICK A : records \in Seq(A)
      BY DEF LogInv, IsSequence
    <2> DEFINE B == A \cup {r}
    <2>2. records \in Seq(B) /\ r \in B
      <3>1. A \subseteq B
        OBVIOUS
      <3>2. QED BY <2>1, <3>1, SeqMonotonic
    <2> HIDE DEF B
    <2>3. [records EXCEPT ![n] = r] \in Seq(B) /\ Len([records EXCEPT ![n] = r]) = Len(records)
      <3>1. CASE n \in 1..Len(records)
        BY <2>2, <3>1, ExceptSeq
      <3>2. CASE n \notin 1..Len(records)
        <4>1. [records EXCEPT ![n] = r] = records
          BY <1>4, <2>2, <3>2
        <4>2. QED BY <2>2, <4>1
      <3>3. QED BY <3>1, <3>2
    <2>4. QED BY <1>2, <2>3 DEF IsSequence
  <1>7. ASSUME NEW m \in 1..Len(records) PROVE RecordOK(ckpts, records'[m])
    <2>1. records'[m] = IF m = n THEN r ELSE records[m]
      BY <1>2, <1>4
    <2>2. CASE m = n
      BY <1>5, <2>1, <2>2
    <2>3. CASE m # n
      BY <2>1, <2>3 DEF LogInv
    <2>4. QED BY <2>2, <2>3
  <1>8. \A q \in Procs : GraphOK(ckpts, client'[q])
    <2>1. client'[p] = Off /\ \A q \in Procs : q # p => client'[q] = client[q]
      BY <1>1, ClientFacts
    <2>2. QED BY <2>1, OffIsIdle DEF LogInv
  <1>9. QED BY <1>1, <1>6, <1>7, <1>8 DEF LogInv

LEMMA SuperStepLogs == ASSUME Inv, LogInv, NEW p \in Procs, SuperStep(p) PROVE LogInv'
  <1> DEFINE t == client[p].tid
             tip == client[p].tip
             new == Len(ckpts) + 1
  <1>1. /\ client[p].at = "graph" /\ Checkpoint(t, tip) /\ records' = records
        /\ client' = [client EXCEPT ![p].tip = New, ![p].last = New]
    BY DEF SuperStep
  <1>2. /\ client[p].start \in 0..Len(ckpts) /\ tip \in 0..Len(ckpts)
        /\ Descends(ckpts, tip, client[p].start) /\ Len(ckpts) \in Nat /\ WellLogged(ckpts)
        /\ Descends(ckpts, tip, NoCheckpoint)
    <2>1. Len(ckpts) \in Nat
      BY SequenceLength DEF LogInv, WellLogged
    <2>2. tip \in 0..Len(ckpts) /\ client[p].start \in 0..Len(ckpts) /\ Descends(ckpts, tip, client[p].start)
      BY <1>1 DEF LogInv, GraphOK
    <2>3. Descends(ckpts, tip, NoCheckpoint)
      <3>1. CASE tip = NoCheckpoint
        BY <3>1 DEF Descends
      <3>2. CASE tip # NoCheckpoint
        BY <2>1, <2>2, <3>2 DEF LogInv, NoCheckpoint
      <3>3. QED BY <3>1, <3>2
    <2>4. QED BY <2>1, <2>2, <2>3 DEF LogInv
  <1> DEFINE m == MsgsOf(ckpts, tip)
             it == ItemsOf(ckpts, tip)
  <1>3. PICK msgs, items :
          /\ ckpts' = Append(ckpts, [thread |-> t, parent |-> tip, msgs |-> msgs, items |-> items])
          /\ \/ msgs = m /\ items = it
             \/ msgs = Append(m, new) /\ items = it \o <<Message(new, new)>>
             \/ m # <<>> /\ msgs = <<new>> /\ items = it \o <<Summary(new), Message(new, new)>>
    <2>1. CASE tip = NoCheckpoint
      <3>1. ckpts' = Append(ckpts, [thread |-> t, parent |-> tip, msgs |-> <<>>, items |-> <<>>])
        BY <1>1, <2>1 DEF Checkpoint, Append1
      <3>2. m = <<>> /\ it = <<>>
        BY <2>1 DEF MsgsOf, ItemsOf
      <3>3. QED BY <3>1, <3>2
    <2>2. CASE tip # NoCheckpoint
      <3>1. m = ckpts[tip].msgs /\ it = ckpts[tip].items
        BY <2>2 DEF MsgsOf, ItemsOf
      <3>2. \A x : Append(it, x) = it \o <<x>>
        <4>1. it \in Seq(Items)
          BY <1>2, LogFacts
        <4> HIDE DEF it
        <4>2. QED BY <4>1
      <3>3. QED BY <1>1, <2>2, <3>1, <3>2 DEF Checkpoint, Append1, New
    <2>3. QED BY <2>1, <2>2
  <1> DEFINE k == [thread |-> t, parent |-> tip, msgs |-> msgs, items |-> items]
             more == Append(ckpts, k)
  <1>4. k.parent = tip /\ k.msgs = msgs /\ k.items = items
    OBVIOUS
  <1> HIDE DEF k
  <1>5. /\ Len(more) = new /\ more[new] = k
        /\ \A d \in 1..Len(ckpts) : more[d] = ckpts[d]
    BY SequenceFacts, <1>2 DEF WellLogged
  <1>6. MsgsOf(more, tip) = m /\ ItemsOf(more, tip) = it
    <2>1. CASE tip = NoCheckpoint
      BY <2>1 DEF MsgsOf, ItemsOf
    <2>2. CASE tip # NoCheckpoint
      <3>1. tip \in 1..Len(ckpts)
        BY <1>2, <2>2 DEF NoCheckpoint
      <3>2. QED BY <1>5, <2>2, <3>1 DEF MsgsOf, ItemsOf
    <2>3. QED BY <2>1, <2>2
  <1>7. CheckpointOK(more, new)
    <2>1. m \in Seq(1..tip) /\ it \in Seq(Items) /\ new \in Nat /\ tip \in 0..(new - 1) /\ tip \in Nat
      BY <1>2, LogFacts
    <2>2. msgs \in Seq(1..new) /\ items \in Seq(Items)
      <3>1. Message(new, new) \in Items /\ Summary(new) \in Items
        BY <2>1, ItemsType
      <3> DEFINE x == Message(new, new)
                 y == Summary(new)
      <3>2. x \in Items /\ y \in Items
        BY <3>1
      <3>3. m \in Seq(1..new) /\ new \in 1..new
        <4>1. 1..tip \subseteq 1..new
          BY <2>1
        <4> HIDE DEF m, new
        <4>2. QED BY <2>1, <4>1, SeqMonotonic
      <3> HIDE DEF m, it, new, x, y
      <3>4. Append(m, new) \in Seq(1..new) /\ <<new>> \in Seq(1..new)
        BY <3>3
      <3>5. it \o <<x>> \in Seq(Items)
        BY <2>1, <3>2
      <3>6. it \o <<y, x>> \in Seq(Items)
        <4>1. <<y, x>> \in Seq(Items)
          BY <3>2
        <4>2. QED BY <2>1, <4>1
      <3>7. QED BY <1>3, <2>1, <3>3, <3>4, <3>5, <3>6, Zenon DEF x, y
    <2>3. Grown(more, new)
      BY <1>3, <1>4, <1>5, <1>6, Zenon DEF Grown
    <2>4. QED BY <1>4, <1>5, <2>1, <2>2, <2>3 DEF CheckpointOK
  <1>8. WellLogged(more)
    BY <1>2, <1>7, WellLoggedGrows
  <1>9. \A c \in 1..Len(more) : Descends(more, c, NoCheckpoint)
    <2>1. ASSUME NEW c \in 1..Len(ckpts) PROVE Descends(more, c, NoCheckpoint)
      BY <1>2, LogGrows DEF LogInv
    <2>2. Descends(more, new, NoCheckpoint)
      BY <1>2, <1>4, LogGrows
    <2>3. \A c \in 1..new : c \in 1..Len(ckpts) \/ c = new
      BY <1>2
    <2> HIDE DEF new, more
    <2>4. QED BY <1>5, <2>1, <2>2, <2>3
  <1>10. ckpts' = more /\ new \in Nat /\ \A c : c \in 0..Len(ckpts) => c \in 0..new
    BY <1>2, <1>3 DEF k
  <1>11. ASSUME NEW n \in 1..Len(records) PROVE RecordOK(more, records[n])
    <2>1. RecordOK(ckpts, records[n])
      BY DEF LogInv
    <2>2. ASSUME records[n].end # NoCheckpoint
          PROVE  /\ records[n].end \in 1..new /\ records[n].start \in 0..new
                 /\ Descends(more, records[n].end, records[n].start)
      <3>1. /\ records[n].end \in 1..Len(ckpts) /\ records[n].start \in 0..Len(ckpts)
            /\ Descends(ckpts, records[n].end, records[n].start)
        BY <2>1, <2>2 DEF RecordOK
      <3>2. Descends(more, records[n].end, records[n].start)
        BY <1>2, <3>1, LogGrows
      <3>3. QED BY <1>2, <3>1, <3>2
    <2>3. QED BY <1>5, <2>2 DEF RecordOK
  <1>12. ASSUME NEW q \in Procs PROVE GraphOK(more, client'[q])
    <2>1. CASE q # p
      <3>1. client'[q] = client[q] /\ GraphOK(ckpts, client[q])
        BY <1>1, <2>1, ClientFacts DEF LogInv
      <3>2. ASSUME client[q].at = "graph"
            PROVE  /\ client[q].start \in 0..new /\ client[q].tip \in 0..new
                   /\ Descends(more, client[q].tip, client[q].start)
        <4>1. /\ client[q].start \in 0..Len(ckpts) /\ client[q].tip \in 0..Len(ckpts)
              /\ Descends(ckpts, client[q].tip, client[q].start)
          BY <3>1, <3>2 DEF GraphOK
        <4>2. Descends(more, client[q].tip, client[q].start)
          BY <1>2, <4>1, LogGrows
        <4>3. QED BY <1>10, <4>1, <4>2
      <3>3. QED BY <1>5, <3>1, <3>2 DEF GraphOK
    <2>2. CASE q = p
      <3> DEFINE w == [client[p] EXCEPT !.tip = new, !.last = new]
      <3>1. client'[p] = w
        BY <1>1, ClientFacts DEF New
      <3>2. w.at = "graph" /\ w.start = client[p].start /\ w.tip = new /\ w.last = new
        BY <1>1, ClientFacts, OffFacts
      <3>3. Descends(more, new, client[p].start)
        BY <1>2, <1>4, LogGrows
      <3>4. client[p].start \in 0..new /\ new \in 0..new
        BY <1>2, <1>10
      <3> HIDE DEF w, new, more
      <3>5. GraphOK(more, w)
        BY <1>5, <3>2, <3>3, <3>4 DEF GraphOK
      <3>6. QED BY <2>2, <3>1, <3>5
    <2>3. QED BY <2>1, <2>2
  <1> HIDE DEF more
  <1>13. QED BY <1>1, <1>8, <1>9, <1>10, <1>11, <1>12 DEF LogInv

LEMMA NextLog == Inv /\ LogInv /\ [Next]_vars => LogInv'
  <1> SUFFICES ASSUME Inv, LogInv, [Next]_vars PROVE LogInv'
    OBVIOUS
  <1>1. ASSUME NEW p \in Procs, NEW first, Start(p, first), first.at \notin {"named", "graph"} PROVE LogInv'
    BY <1>1, LogGoesIdle DEF Start
  <1>2. ASSUME NEW p \in Procs,
               \/ \E t \in Threads : StartThread(p, t)
               \/ \E c \in Configs : StartAsking(p, c)
               \/ \E b \in {"postgres", "chroma"} : StartBuild(p, b)
        PROVE  LogInv'
    <2>1. \A t : [Off EXCEPT !.at = "name", !.n = runs + 1, !.tid = t].at = "name"
      BY DEF Off
    <2>2. \A c : [Off EXCEPT !.at = "asking", !.config = c].at = "asking"
      BY DEF Off
    <2>3. [Off EXCEPT !.at = "page"].at = "page"
      BY DEF Off
    <2>4. QED BY <1>1, <1>2, <2>1, <2>2, <2>3 DEF StartThread, StartAsking, StartBuild
  \* The other steps leave the process where it runs no graph.
  <1>3. ASSUME NEW p \in Procs, NEW k, client' = [client EXCEPT ![p] = k], UNCHANGED log,
               k.at \notin {"named", "graph"}
        PROVE  LogInv'
    BY <1>3, LogGoesIdle
  <1>4. ASSUME NEW p \in Procs, NEW at, Goto(p, at), UNCHANGED log, at \notin {"named", "graph"}
        PROVE  LogInv'
    <2>1. client' = [client EXCEPT ![p] = [client[p] EXCEPT !.at = at]]
      BY <1>4, ClientFacts DEF Goto
    <2>2. [client[p] EXCEPT !.at = at].at = at
      BY ClientFacts, OffFacts
    <2>3. QED BY <1>3, <1>4, <2>1, <2>2
  <1>5. ASSUME NEW p \in Procs, FindMnemonic(p) \/ PutThread(p) PROVE LogInv'
    <2>1. UNCHANGED log /\ ((\E name : Named(p, name)) \/ Goto(p, "claim"))
      BY <1>5 DEF FindMnemonic, PutThread
    <2>2. QED BY <1>4, <2>1, LogNamed
  <1>6. ASSUME NEW p \in Procs, ClaimMnemonic(p) PROVE LogInv'
    <2>1. PICK cand : client' = IF Claimed(cand) THEN [client EXCEPT ![p].at = "thread", ![p].cand = cand]
                                ELSE [client EXCEPT ![p].attempt = @ + 1]
      BY <1>6 DEF ClaimMnemonic
    <2>2. UNCHANGED log /\ client[p].at = "claim"
      BY <1>6 DEF ClaimMnemonic
    <2>3. CASE Claimed(cand)
      <3>1. client' = [client EXCEPT ![p] = [client[p] EXCEPT !.at = "thread", !.cand = cand]]
        BY <2>1, <2>3, ClientFacts
      <3>2. [client[p] EXCEPT !.at = "thread", !.cand = cand].at = "thread"
        BY ClientFacts, OffFacts
      <3>3. QED BY <1>3, <2>2, <3>1, <3>2
    <2>4. CASE ~Claimed(cand)
      <3>1. client' = [client EXCEPT ![p] = [client[p] EXCEPT !.attempt = client[p].attempt + 1]]
        BY <2>1, <2>4, ClientFacts, OffFacts
      <3>2. [client[p] EXCEPT !.attempt = client[p].attempt + 1].at = "claim"
        BY <2>2, ClientFacts, OffFacts
      <3>3. QED BY <1>3, <2>2, <3>1, <3>2
    <2>5. QED BY <2>3, <2>4
  <1>7. ASSUME NEW p \in Procs, (\E q \in Questions : AskQuestion(p, q)) \/ FirstWrite(p) \/ PutAnswer(p)
        PROVE  LogInv'
    <2>1. UNCHANGED log
      BY <1>7 DEF AskQuestion, FirstWrite, PutAnswer
    <2>2. \/ client' = client
          \/ Goto(p, "asking") \/ Goto(p, "put")
          \/ \E q : client' = [client EXCEPT ![p].at = "asked", ![p].q = q]
      BY <1>7 DEF AskQuestion, FirstWrite, PutAnswer
    <2>3. ASSUME NEW q, client' = [client EXCEPT ![p].at = "asked", ![p].q = q] PROVE LogInv'
      <3>1. client' = [client EXCEPT ![p] = [client[p] EXCEPT !.at = "asked", !.q = q]]
        BY <2>3, ClientFacts
      <3>2. [client[p] EXCEPT !.at = "asked", !.q = q].at = "asked"
        BY ClientFacts, OffFacts
      <3>3. QED BY <1>3, <2>1, <3>1, <3>2
    <2>4. QED BY <1>4, <2>1, <2>2, <2>3, LogStays
  <1>8. ASSUME NEW p \in Procs, WalkPage(p) PROVE LogInv'
    BY <1>8, LogStays DEF WalkPage
  <1>9. ASSUME NEW p \in Procs, EndPage(p) \/ AddToKeywords(p) PROVE LogInv'
    <2>1. UNCHANGED log /\ \E n : client' = [client EXCEPT ![p] = [client[p] EXCEPT !.at = "section", !.n = n]]
      <3>1. CASE EndPage(p)
        BY <3>1, ClientFacts DEF EndPage
      <3>2. CASE AddToKeywords(p)
        <4>1. client' = [client EXCEPT ![p].at = "section", ![p].n = client[p].n + 1] /\ UNCHANGED log
          BY <3>2, ClientFacts, OffFacts DEF AddToKeywords
        <4>2. QED BY <4>1, ClientFacts
      <3>3. QED BY <1>9, <3>1, <3>2
    <2>2. \A n : [client[p] EXCEPT !.at = "section", !.n = n].at = "section"
      BY ClientFacts, OffFacts
    <2>3. QED BY <1>3, <2>1, <2>2
  <1>10. ASSUME NEW p \in Procs, AddManualSection(p) PROVE LogInv'
    <2>1. /\ client[p].at = "section" /\ UNCHANGED log
          /\ \/ client' = [client EXCEPT ![p] = Off]
             \/ client' = [client EXCEPT ![p].at = "keywords"]
             \/ client' = [client EXCEPT ![p].n = @ + 1]
      BY <1>10 DEF AddManualSection
    <2>2. CASE client' = [client EXCEPT ![p] = Off]
      BY <1>3, <2>1, <2>2, OffFacts
    <2>3. CASE client' = [client EXCEPT ![p].at = "keywords"]
      <3>1. Goto(p, "keywords") /\ "keywords" \notin {"named", "graph"}
        BY <2>3 DEF Goto
      <3>2. QED BY <1>4, <2>1, <3>1
    <2>4. CASE client' = [client EXCEPT ![p].n = @ + 1]
      <3>1. client' = [client EXCEPT ![p] = [client[p] EXCEPT !.n = client[p].n + 1]]
        BY <2>4, ClientFacts, OffFacts
      <3>2. [client[p] EXCEPT !.n = client[p].n + 1].at = "section"
        BY <2>1, ClientFacts, OffFacts
      <3>3. QED BY <1>3, <2>1, <3>1, <3>2
    <2>5. QED BY <2>1, <2>2, <2>3, <2>4
  <1>11. ASSUME NEW p \in Procs, EmbedRest(p) PROVE LogInv'
    BY <1>4, <1>11 DEF EmbedRest
  <1>12. ASSUME NEW p \in Procs, EndBuild(p) \/ Kill(p) PROVE LogInv'
    BY <1>3, <1>12, OffFacts DEF EndBuild, Kill
  <1>13. CASE UNCHANGED vars
    BY <1>13, LogStays DEF vars, log
  <1>14. QED
    BY <1>2, <1>5, <1>6, <1>7, <1>8, <1>9, <1>10, <1>11, <1>12, <1>13,
       OpenLogs, SuperStepLogs, CloseLogs DEF Next

\* The timeline that a reader gets of a segment whose end is recorded is what happened in
\* it, in order and marked where the messages were summarised: whatever other branches
\* its thread has, whoever else runs on it at the same time, and whichever puts of
\* records failed (io/thread_timeline.py, load_timeline; io/thread_logging.py).
THEOREM TimelinesAreTrue == Spec => []TimelineFaithful
  <1>1. LogInv => TimelineFaithful
    <2> SUFFICES ASSUME LogInv, NEW n \in DOMAIN records, records[n].end # NoCheckpoint
                 PROVE  LoadTimeline(records[n].thread, records[n].end, records[n].start)
                          = Happened(records[n].end, records[n].start)
      BY DEF TimelineFaithful
    <2>1. n \in 1..Len(records)
      BY SequenceLength DEF LogInv
    <2>2. /\ records[n].end \in 1..Len(ckpts) /\ records[n].start \in 0..Len(ckpts)
          /\ Descends(ckpts, records[n].end, records[n].start) /\ WellLogged(ckpts)
      BY <2>1 DEF LogInv, RecordOK
    <2>3. QED BY <2>2, LoadedIsHappened
  <1>2. Spec => []LogInv
    BY InitLog, NextLog, ClientsInvariant, PTL DEF Spec
  <1>3. QED BY <1>1, <1>2, PTL

LEMMA FlattenAppend ==
  ASSUME NEW A, NEW seqs \in Seq(Seq(A)), NEW x \in Seq(A)
  PROVE  FlattenSeq(Append(seqs, x)) = FlattenSeq(seqs) \o x
  <1> DEFINE n == Len(seqs)
             more == Append(seqs, x)
  <1>1. /\ n \in Nat /\ more \in Seq(Seq(A)) /\ Len(more) = n + 1 /\ more[n + 1] = x
        /\ \A i \in 1..n : more[i] = seqs[i]
    OBVIOUS
  <1> HIDE DEF more
  <1>2. PICK f \in [0..n -> Seq(A)] :
           /\ f[0] = <<>>
           /\ \A i \in 1..n : f[i] = f[i - 1] \o seqs[i]
           /\ FlattenSeq(seqs) = f[n]
    BY FlattenSteps
  <1>3. PICK g \in [0..Len(more) -> Seq(A)] :
           /\ g[0] = <<>>
           /\ \A i \in 1..Len(more) : g[i] = g[i - 1] \o more[i]
           /\ FlattenSeq(more) = g[Len(more)]
    BY <1>1, FlattenSteps
  <1> DEFINE T == {m \in Nat : m <= n => g[m] = f[m]}
  <1>4. 0 \in T
    BY <1>2, <1>3
  <1>5. ASSUME NEW m \in Nat, m \in T PROVE m + 1 \in T
    <2>1. SUFFICES ASSUME m + 1 <= n PROVE g[m + 1] = f[m + 1]
      OBVIOUS
    <2>2. m + 1 \in 1..n /\ m + 1 \in 1..Len(more) /\ (m + 1) - 1 = m /\ g[m] = f[m]
      BY <1>1, <1>5, <2>1
    <2>3. f[m + 1] = f[m] \o seqs[m + 1] /\ g[m + 1] = g[m] \o more[m + 1]
      BY <1>2, <1>3, <2>2
    <2>4. QED BY <1>1, <2>2, <2>3
  <1>6. Nat \subseteq T
    <2> HIDE DEF T
    <2>1. QED BY <1>4, <1>5, NatClosed
  <1>7. n + 1 \in 1..Len(more) /\ (n + 1) - 1 = n /\ g[n] = f[n]
    BY <1>1, <1>6
  <1>8. g[n + 1] = g[n] \o more[n + 1]
    BY <1>3, <1>7
  <1>9. QED BY <1>1, <1>2, <1>3, <1>7, <1>8 DEF more

\* Flattening parts of one member at most: what is kept of a sequence.
KeptOf(s, seqs, m) ==
  Len(s) <= m /\ \A j \in 1..Len(s) : \E i \in 1..Len(seqs) : seqs[i] = <<s[j]>>

LEMMA FlattenKeeps ==
  ASSUME NEW A, NEW seqs \in Seq(Seq(A)), \A i \in 1..Len(seqs) : Len(seqs[i]) <= 1
  PROVE  /\ FlattenSeq(seqs) \in Seq(A) /\ Len(FlattenSeq(seqs)) <= Len(seqs)
         /\ \A j \in 1..Len(FlattenSeq(seqs)) : \E i \in 1..Len(seqs) : seqs[i] = <<FlattenSeq(seqs)[j]>>
  <1> DEFINE n == Len(seqs)
  <1>1. n \in Nat /\ \A i \in 1..n : seqs[i] \in Seq(A)
    OBVIOUS
  <1>2. PICK f \in [0..n -> Seq(A)] :
           /\ f[0] = <<>>
           /\ \A i \in 1..n : f[i] = f[i - 1] \o seqs[i]
           /\ FlattenSeq(seqs) = f[n]
    BY FlattenSteps
  <1> DEFINE T == {m \in Nat : m <= n => KeptOf(f[m], seqs, m)}
  <1>3. 0 \in T
    BY <1>2 DEF KeptOf
  <1>4. ASSUME NEW m \in Nat, m \in T PROVE m + 1 \in T
    <2>1. SUFFICES ASSUME m + 1 <= n PROVE KeptOf(f[m + 1], seqs, m + 1)
      OBVIOUS
    <2>2. m + 1 \in 1..n /\ (m + 1) - 1 = m /\ m \in 0..n /\ KeptOf(f[m], seqs, m)
      BY <1>1, <1>4, <2>1
    <2> DEFINE s == f[m]
               x == seqs[m + 1]
    <2>3. f[m + 1] = s \o x /\ s \in Seq(A) /\ x \in Seq(A) /\ Len(x) <= 1 /\ Len(s) <= m
      BY <1>1, <1>2, <2>2 DEF KeptOf
    <2>4. ASSUME NEW j \in 1..Len(s \o x) PROVE \E i \in 1..n : seqs[i] = <<(s \o x)[j]>>
      <3>1. CASE j <= Len(s)
        <4>1. j \in 1..Len(s)
          BY <3>1
        <4>2. (s \o x)[j] = s[j]
          <5> HIDE DEF s, x
          <5>1. QED BY <2>3, <4>1
        <4>3. QED BY <2>2, <4>1, <4>2 DEF KeptOf
      <3>2. CASE ~(j <= Len(s))
        <4>1. j = Len(s) + 1 /\ Len(x) = 1 /\ (s \o x)[j] = x[1]
          <5> HIDE DEF s, x
          <5>1. Len(s \o x) = Len(s) + Len(x) /\ Len(s) \in Nat /\ Len(x) \in Nat
            BY <2>3
          <5>2. j = Len(s) + 1 /\ Len(x) = 1
            <6>1. j \in 1..(Len(s) + Len(x)) /\ Len(x) <= 1 /\ ~(j <= Len(s))
              BY <2>3, <3>2, <5>1
            <6>2. \A a, b, i \in Nat : i \in 1..(a + b) /\ b <= 1 /\ ~(i <= a) => i = a + 1 /\ b = 1
              OBVIOUS
            <6>3. j \in Nat
              BY <6>1
            <6>4. QED BY <5>1, <6>1, <6>2, <6>3, Zenon
          <5>3. (s \o x)[Len(s) + 1] = x[1]
            BY <2>3, <5>1, <5>2
          <5>4. QED BY <5>2, <5>3
        <4>2. x = <<x[1]>>
          <5> HIDE DEF s, x
          <5>1. QED BY <2>3, <4>1
        <4>3. QED BY <2>2, <4>1, <4>2
      <3>3. QED BY <3>1, <3>2
    <2>5. Len(s \o x) <= m + 1
      <3> HIDE DEF s, x
      <3>1. QED BY <2>3
    <2> HIDE DEF s, x
    <2>6. KeptOf(s \o x, seqs, m + 1)
      BY <2>4, <2>5 DEF KeptOf
    <2>7. QED BY <2>3, <2>6
  <1>5. Nat \subseteq T
    <2> HIDE DEF T
    <2>1. QED BY <1>3, <1>4, NatClosed
  <1>6. KeptOf(f[n], seqs, n) /\ f[n] \in Seq(A)
    BY <1>1, <1>5
  <1>7. QED BY <1>2, <1>6 DEF KeptOf

\* Flattening parts of one member up to a place and empty ones from there.
CutAt(m, k) == IF m <= k THEN m ELSE k
SameTo(t, s, k) == Len(t) = k /\ \A i \in 1..k : t[i] = s[i]

LEMMA FlattenFirst ==
  ASSUME NEW A, NEW s \in Seq(A), NEW seqs \in Seq(Seq(A)), Len(s) <= Len(seqs),
         \A i \in 1..Len(seqs) : seqs[i] = IF i <= Len(s) THEN <<s[i]>> ELSE <<>>
  PROVE  FlattenSeq(seqs) = s
  <1> DEFINE n == Len(seqs)
             k == Len(s)
  <1>1. n \in Nat /\ k \in Nat
    OBVIOUS
  <1>2. PICK f \in [0..n -> Seq(A)] :
           /\ f[0] = <<>>
           /\ \A i \in 1..n : f[i] = f[i - 1] \o seqs[i]
           /\ FlattenSeq(seqs) = f[n]
    BY FlattenSteps
  <1> DEFINE Cut(m) == CutAt(m, k)
             Same(m) == SameTo(f[m], s, Cut(m))
             T == {m \in Nat : m <= n => Same(m)}
  <1>3. 0 \in T
    BY <1>1, <1>2 DEF CutAt, SameTo
  <1>4. ASSUME NEW m \in Nat, m \in T PROVE m + 1 \in T
    <2>1. SUFFICES ASSUME m + 1 <= n PROVE Same(m + 1)
      OBVIOUS
    <2>2. m + 1 \in 1..n /\ (m + 1) - 1 = m /\ m \in 0..n /\ Same(m)
      BY <1>1, <1>4, <2>1
    <2>3. f[m + 1] = f[m] \o seqs[m + 1] /\ f[m] \in Seq(A)
      BY <1>2, <2>2
    <2>4. CASE m + 1 <= k
      <3> DEFINE g == f[m]
                 e == s[m + 1]
      <3>1. /\ g \in Seq(A) /\ Len(g) = m /\ e \in A /\ f[m + 1] = g \o <<e>>
            /\ \A i \in 1..m : g[i] = s[i]
        <4>1. seqs[m + 1] = <<s[m + 1]>> /\ m + 1 \in 1..k
          <5>1. m + 1 \in 1..k
            BY <1>1, <2>4
          <5>2. seqs[m + 1] = IF m + 1 <= Len(s) THEN <<s[m + 1]>> ELSE <<>>
            BY <2>2
          <5>3. QED BY <2>4, <5>1, <5>2
        <4>2. Len(f[m]) = m /\ \A i \in 1..m : f[m][i] = s[i]
          BY <1>1, <2>2, <2>4 DEF CutAt, SameTo
        <4>3. QED BY <2>3, <4>1, <4>2
      <3> HIDE DEF g, e
      <3>2. Len(g \o <<e>>) = m + 1 /\ (g \o <<e>>)[m + 1] = e /\ \A i \in 1..m : (g \o <<e>>)[i] = g[i]
        <4>1. g \in Seq(A) /\ Len(g) = m /\ e \in A
          BY <3>1
        <4>2. QED BY <4>1
      <3>3. \A i \in 1..(m + 1) : i \in 1..m \/ i = m + 1
        BY <1>4
      <3>4. Cut(m + 1) = m + 1
        BY <2>4 DEF CutAt
      <3>5. QED BY <3>1, <3>2, <3>3, <3>4 DEF e, SameTo
    <2>5. CASE ~(m + 1 <= k)
      <3>1. seqs[m + 1] = <<>> /\ Cut(m + 1) = k /\ Cut(m) = k
        <4>1. seqs[m + 1] = IF m + 1 <= Len(s) THEN <<s[m + 1]>> ELSE <<>>
          BY <2>2
        <4>2. Cut(m + 1) = k /\ Cut(m) = k
          BY <1>1, <2>5 DEF CutAt
        <4>3. QED BY <2>5, <4>1, <4>2
      <3>2. f[m + 1] = f[m]
        BY <2>3, <3>1
      <3>3. QED BY <2>2, <3>1, <3>2
    <2>6. QED BY <2>4, <2>5
  <1>5. Nat \subseteq T
    <2> HIDE DEF T
    <2>1. QED BY <1>3, <1>4, NatClosed
  <1>6. f[n] \in Seq(A) /\ Len(f[n]) = Len(s) /\ \A i \in 1..Len(s) : f[n][i] = s[i]
    <2>1. SameTo(f[n], s, k)
      <3>1. Same(n)
        BY <1>1, <1>5
      <3>2. Cut(n) = k
        BY <1>1 DEF CutAt
      <3>3. QED BY <3>1, <3>2
    <2>2. f[n] \in Seq(A)
      BY <1>1, <1>2
    <2>3. QED BY <2>1, <2>2 DEF SameTo
  <1>7. f[n] = s
    BY <1>6, SeqEqual
  <1>8. QED BY <1>2, <1>7

-----------------------------------------------------------------------------
(* The headers of a section. *)

IsHeader(h) == IsSequence(h) /\ Len(h) <= Depth /\ \A i \in 1..Len(h) : h[i] # NoHead

LEMMA PresentFacts ==
  ASSUME NEW head, IsSequence(head), Len(head) <= Depth
  PROVE  IsHeader(Present(head))
  <1>1. PICK A : head \in Seq(A)
    BY DEF IsSequence
  <1> DEFINE n == Len(head)
             part(k) == IF head[k] = NoHead THEN <<>> ELSE <<head[k]>>
             parts == [k \in 1..n |-> part(k)]
  <1>2. n \in Nat /\ DOMAIN head = 1..n /\ \A k \in 1..n : head[k] \in A
    BY <1>1
  <1>3. parts \in Seq(Seq(A)) /\ Len(parts) = n /\ \A k \in 1..n : Len(parts[k]) <= 1
    <2>1. ASSUME NEW k \in 1..n PROVE part(k) \in Seq(A) /\ Len(part(k)) <= 1
      BY <1>2
    <2> HIDE DEF part, n
    <2>2. QED BY <1>2, <2>1
  <1>4. Present(head) = FlattenSeq(parts)
    BY <1>2 DEF Present
  <1> HIDE DEF parts
  <1> DEFINE flat == FlattenSeq(parts)
  <1>5. /\ flat \in Seq(A) /\ Len(flat) <= n
        /\ \A j \in 1..Len(flat) : \E i \in 1..n : parts[i] = <<flat[j]>>
    BY <1>3, FlattenKeeps
  <1>6. ASSUME NEW j \in 1..Len(flat) PROVE flat[j] # NoHead
    <2>1. PICK i \in 1..n : parts[i] = <<flat[j]>>
      BY <1>5
    <2>2. parts[i] = IF head[i] = NoHead THEN <<>> ELSE <<head[i]>>
      BY DEF parts
    <2>3. QED BY <2>1, <2>2
  <1>7. Len(flat) <= Depth
    <2>1. Depth \in Nat /\ Len(flat) \in Nat
      BY <1>5, ManualAssumption
    <2>2. QED BY <1>2, <1>5, <2>1
  <1>8. QED BY <1>4, <1>5, <1>6, <1>7 DEF IsHeader, IsSequence

\* Headers that were padded to be stored are found again.
LEMMA PaddedIsKept ==
  ASSUME NEW h, IsHeader(h)
  PROVE  Present(Padded(h)) = h
  <1>1. PICK A : h \in Seq(A)
    BY DEF IsHeader, IsSequence
  <1> DEFINE B == A \cup {NoHead}
             k == Len(h)
             pad == Padded(h)
             part(i) == IF pad[i] = NoHead THEN <<>> ELSE <<pad[i]>>
             parts == [i \in 1..Depth |-> part(i)]
  <1>2. Depth \in Nat /\ k \in Nat /\ k <= Depth /\ DOMAIN h = 1..k /\ \A i \in 1..k : h[i] # NoHead /\ h[i] \in B
    BY <1>1, ManualAssumption DEF IsHeader
  <1>3. h \in Seq(B)
    <2>1. A \subseteq B
      OBVIOUS
    <2>2. QED BY <1>1, <2>1, SeqMonotonic
  <1>4. DOMAIN pad = 1..Depth /\ \A i \in 1..Depth : pad[i] = IF i <= k THEN h[i] ELSE NoHead
    BY <1>2 DEF Padded
  <1>5. \A i \in 1..Depth : part(i) = IF i <= k THEN <<h[i]>> ELSE <<>>
    <2>1. \A i \in 1..Depth : i <= k => h[i] # NoHead
      BY <1>2
    <2> HIDE DEF pad
    <2>2. QED BY <1>4, <2>1
  <1>6. parts \in Seq(Seq(B)) /\ Len(parts) = Depth
    <2>1. ASSUME NEW i \in 1..Depth PROVE part(i) \in Seq(B)
      <3>1. i <= k => <<h[i]>> \in Seq(B)
        BY <1>2
      <3>2. part(i) = IF i <= k THEN <<h[i]>> ELSE <<>>
        BY <1>5
      <3> HIDE DEF part, B
      <3>3. QED BY <3>1, <3>2
    <2> HIDE DEF part
    <2>2. QED BY <1>2, <2>1
  <1>7. Present(pad) = FlattenSeq(parts)
    BY <1>4 DEF Present
  <1>8. FlattenSeq(parts) = h
    <2>1. \A i \in 1..Len(parts) : parts[i] = IF i <= Len(h) THEN <<h[i]>> ELSE <<>>
      BY <1>5, <1>6
    <2> HIDE DEF parts, B
    <2>2. QED BY <1>2, <1>3, <1>6, <2>1, FlattenFirst
  <1>9. QED BY <1>7, <1>8

-----------------------------------------------------------------------------
(* What a stream has of the page. *)

Ids == Nat \X Nat
Toks == [id : Ids, ref : Nat]
Elements == [kind : {"text", "code", "skip", "open", "close"}, n : Nat]
Marks == {"open", "close"}

PieceIn(pg, e) == IF pg[e].kind \in Marks THEN << <<e, 0>> >> ELSE [i \in 1..pg[e].n |-> <<e, i>>]
\* The d elements behind an element.
Stretch(pg, from, d) == FlattenSeq([k \in 1..d |-> PieceIn(pg, from + k)])

LEMMA PieceType ==
  ASSUME NEW pg \in Seq(Elements), NEW e \in 1..Len(pg)
  PROVE  PieceIn(pg, e) \in Seq(Ids)
  <1>1. pg[e].n \in Nat /\ e \in Nat
    <2>1. pg[e] \in Elements
      OBVIOUS
    <2>2. QED BY <2>1 DEF Elements
  <1>2. << <<e, 0>> >> \in Seq(Ids)
    BY <1>1 DEF Ids
  <1>3. [i \in 1..pg[e].n |-> <<e, i>>] \in Seq(Ids)
    <2> DEFINE n == pg[e].n
    <2>1. \A i \in 1..n : <<e, i>> \in Ids
      BY <1>1 DEF Ids
    <2> HIDE DEF n
    <2>2. QED BY <1>1, <2>1 DEF n
  <1>4. QED BY <1>2, <1>3 DEF PieceIn

LEMMA StretchParts ==
  ASSUME NEW pg \in Seq(Elements), NEW from \in Nat, NEW d \in Nat, from + d <= Len(pg)
  PROVE  /\ [k \in 1..d |-> PieceIn(pg, from + k)] \in Seq(Seq(Ids))
         /\ \A x \in Elements, k \in 1..d : PieceIn(Append(pg, x), from + k) = PieceIn(pg, from + k)
  <1>1. ASSUME NEW k \in 1..d PROVE from + k \in 1..Len(pg)
    OBVIOUS
  <1>2. \A k \in 1..d : PieceIn(pg, from + k) \in Seq(Ids)
    BY <1>1, PieceType
  <1>3. ASSUME NEW x \in Elements, NEW k \in 1..d PROVE PieceIn(Append(pg, x), from + k) = PieceIn(pg, from + k)
    <2>1. Append(pg, x)[from + k] = pg[from + k]
      BY <1>1
    <2>2. QED BY <2>1 DEF PieceIn
  <1>4. QED BY <1>2, <1>3

LEMMA StretchFacts ==
  ASSUME NEW pg \in Seq(Elements), NEW from \in Nat, NEW d \in Nat, from + d <= Len(pg)
  PROVE  Stretch(pg, from, d) \in Seq(Ids)
  <1> DEFINE parts == [k \in 1..d |-> PieceIn(pg, from + k)]
  <1>1. parts \in Seq(Seq(Ids))
    BY StretchParts
  <1>2. FlattenSeq(parts) \in Seq(Ids)
    <2> HIDE DEF parts
    <2>1. PICK f \in [0..Len(parts) -> Seq(Ids)] : FlattenSeq(parts) = f[Len(parts)]
      BY <1>1, FlattenSteps
    <2>2. Len(parts) \in 0..Len(parts)
      BY <1>1
    <2>3. QED BY <2>1, <2>2
  <1>3. QED BY <1>2 DEF Stretch

LEMMA StretchSame ==
  ASSUME NEW pg \in Seq(Elements), NEW from \in Nat, NEW d \in Nat, from + d <= Len(pg), NEW x \in Elements
  PROVE  Stretch(Append(pg, x), from, d) = Stretch(pg, from, d)
  <1>1. \A k \in 1..d : PieceIn(Append(pg, x), from + k) = PieceIn(pg, from + k)
    BY StretchParts
  <1>2. [k \in 1..d |-> PieceIn(Append(pg, x), from + k)] = [k \in 1..d |-> PieceIn(pg, from + k)]
    BY <1>1
  <1>3. QED BY <1>2, Zenon DEF Stretch

LEMMA StretchMore ==
  ASSUME NEW pg \in Seq(Elements), NEW from \in Nat, NEW d \in Nat, from + d = Len(pg), NEW x \in Elements
  PROVE  Stretch(Append(pg, x), from, d + 1) = Stretch(pg, from, d) \o PieceIn(Append(pg, x), Len(pg) + 1)
  <1> DEFINE more == Append(pg, x)
             parts == [k \in 1..d |-> PieceIn(pg, from + k)]
             last == PieceIn(more, Len(pg) + 1)
             parts2 == [k \in 1..(d + 1) |-> PieceIn(more, from + k)]
  <1>1. more \in Seq(Elements) /\ Len(pg) + 1 \in 1..Len(more)
    OBVIOUS
  <1>2. last \in Seq(Ids)
    BY <1>1, PieceType
  <1>3. parts \in Seq(Seq(Ids)) /\ \A k \in 1..d : PieceIn(more, from + k) = PieceIn(pg, from + k)
    <2>1. from + d <= Len(pg)
      OBVIOUS
    <2>2. QED BY <2>1, StretchParts
  <1>4. parts2 = Append(parts, last)
    <2>1. Len(parts) = d /\ \A k \in 1..d : parts[k] = PieceIn(more, from + k)
      <3>1. Len(parts) = d /\ \A k \in 1..d : parts[k] = PieceIn(pg, from + k)
        OBVIOUS
      <3> HIDE DEF parts, more
      <3>2. QED BY <1>3, <3>1
    <2>2. Append(parts, last) \in Seq(Seq(Ids)) /\ Len(Append(parts, last)) = d + 1
          /\ Append(parts, last)[d + 1] = last /\ \A k \in 1..d : Append(parts, last)[k] = parts[k]
      <3> HIDE DEF parts, last
      <3>1. QED BY <1>2, <1>3, <2>1
    <2>3. from + (d + 1) = Len(pg) + 1
      OBVIOUS
    <2>4. ASSUME NEW k \in 1..(d + 1) PROVE PieceIn(more, from + k) = Append(parts, last)[k]
      <3>1. CASE k \in 1..d
        BY <2>1, <2>2, <3>1, Zenon
      <3>2. CASE k = d + 1
        BY <2>2, <2>3, <3>2, Zenon
      <3>3. k \in 1..d \/ k = d + 1
        OBVIOUS
      <3>4. QED BY <3>1, <3>2, <3>3
    <2> HIDE DEF parts, last, more
    <2>6. Append(parts, last) = [k \in 1..(d + 1) |-> Append(parts, last)[k]]
      <3> DEFINE both == Append(parts, last)
      <3>1. both \in Seq(Seq(Ids)) /\ Len(both) = d + 1
        BY <2>2
      <3> HIDE DEF both
      <3>2. both = [k \in 1..(d + 1) |-> both[k]]
        BY <3>1
      <3>3. QED BY <3>2 DEF both
    <2>7. QED BY <2>4, <2>6
  <1>5. FlattenSeq(Append(parts, last)) = FlattenSeq(parts) \o last
    <2> HIDE DEF parts, last
    <2>1. QED BY <1>2, <1>3, FlattenAppend
  <1>6. QED BY <1>4, <1>5, Zenon DEF Stretch

LEMMA StretchNone ==
  ASSUME NEW pg, NEW from \in Nat
  PROVE  Stretch(pg, from, 0) = <<>>
  <1> DEFINE parts == [k \in 1..0 |-> PieceIn(pg, from + k)]
  <1>1. parts = <<>>
    BY 1..0 = {}
  <1>2. <<>> \in Seq(Seq(Ids)) /\ Len(<<>>) = 0
    OBVIOUS
  <1>3. FlattenSeq(<<>>) = <<>>
    <2>1. PICK f : f[0] = <<>> /\ FlattenSeq(<<>>) = f[Len(<<>>)]
      BY <1>2, FlattenSteps
    <2>2. QED BY <1>2, <2>1
  <1>4. QED BY <1>1, <1>3, Zenon DEF Stretch

-----------------------------------------------------------------------------
(* Texts and the codes of their tags. *)

Reads(text, codes, ids) ==
  /\ text \in Seq(Toks) /\ codes \in Seq(Ids) /\ \A i \in 1..Len(text) : text[i].ref <= Len(codes)
  /\ Expand(text, codes) = ids
Meaning(t, codes) == IF t.ref = 0 THEN t.id ELSE codes[t.ref]

LEMMA ExpandFacts ==
  ASSUME NEW text \in Seq(Toks), NEW codes \in Seq(Ids), \A i \in 1..Len(text) : text[i].ref <= Len(codes)
  PROVE  /\ Expand(text, codes) \in Seq(Ids) /\ Len(Expand(text, codes)) = Len(text)
         /\ \A i \in 1..Len(text) : Expand(text, codes)[i] = Meaning(text[i], codes)
  <1> DEFINE n == Len(text)
  <1>1. n \in Nat /\ DOMAIN text = 1..n /\ \A i \in 1..n : text[i] \in Toks
    OBVIOUS
  <1>2. \A i \in 1..n : Meaning(text[i], codes) \in Ids
    <2> SUFFICES ASSUME NEW i \in 1..n PROVE Meaning(text[i], codes) \in Ids
      OBVIOUS
    <2>1. text[i].id \in Ids /\ text[i].ref \in Nat /\ text[i].ref <= Len(codes)
      BY <1>1 DEF Toks
    <2>2. text[i].ref # 0 => codes[text[i].ref] \in Ids
      BY <2>1
    <2>3. QED BY <2>1, <2>2 DEF Meaning
  <1>3. Expand(text, codes) = [i \in 1..n |-> Meaning(text[i], codes)]
    BY <1>1 DEF Expand, Meaning
  <1> HIDE DEF n
  <1>4. QED BY <1>1, <1>2, <1>3 DEF n

LEMMA ReadsIs ==
  ASSUME NEW text \in Seq(Toks), NEW codes \in Seq(Ids), NEW ids \in Seq(Ids), Len(text) = Len(ids),
         \A i \in 1..Len(text) : text[i].ref <= Len(codes) /\ Meaning(text[i], codes) = ids[i]
  PROVE  Reads(text, codes, ids)
  <1> DEFINE ex == Expand(text, codes)
  <1>1. ex \in Seq(Ids) /\ Len(ex) = Len(ids) /\ \A i \in 1..Len(ids) : ex[i] = ids[i]
    BY ExpandFacts
  <1>2. ex = ids
    <2> HIDE DEF ex
    <2>1. QED BY <1>1, SeqEqual
  <1>3. QED BY <1>2 DEF Reads

LEMMA ReadsFacts ==
  ASSUME NEW text, NEW codes, NEW ids, Reads(text, codes, ids)
  PROVE  /\ text \in Seq(Toks) /\ codes \in Seq(Ids) /\ ids \in Seq(Ids) /\ Len(text) = Len(ids)
         /\ \A i \in 1..Len(text) : text[i].ref <= Len(codes) /\ Meaning(text[i], codes) = ids[i]
  <1>1. QED BY ExpandFacts DEF Reads

LEMMA ReadsText ==
  ASSUME NEW text, NEW codes, NEW ids, Reads(text, codes, ids),
         NEW txt \in Seq(Toks), NEW more \in Seq(Ids), Len(txt) = Len(more),
         \A i \in 1..Len(txt) : txt[i].ref = 0 /\ txt[i].id = more[i]
  PROVE  Reads(text \o txt, codes, ids \o more)
  <1>1. /\ text \in Seq(Toks) /\ codes \in Seq(Ids) /\ ids \in Seq(Ids) /\ Len(text) = Len(ids)
        /\ \A i \in 1..Len(text) : text[i].ref <= Len(codes) /\ Meaning(text[i], codes) = ids[i]
    BY ReadsFacts
  <1> DEFINE k == Len(text)
             t2 == text \o txt
             i2 == ids \o more
  <1>2. /\ t2 \in Seq(Toks) /\ i2 \in Seq(Ids) /\ Len(t2) = k + Len(txt) /\ Len(i2) = k + Len(txt)
        /\ k \in Nat /\ Len(txt) \in Nat
    <2>1. t2 \in Seq(Toks) /\ Len(t2) = Len(text) + Len(txt)
      <3>1. text \in Seq(Toks)
        BY <1>1
      <3>2. QED BY <3>1
    <2>2. i2 \in Seq(Ids) /\ Len(i2) = Len(ids) + Len(more)
      BY <1>1
    <2>3. Len(text) \in Nat /\ Len(txt) \in Nat
      BY <1>1
    <2> HIDE DEF t2, i2
    <2>4. QED BY <1>1, <2>1, <2>2, <2>3
  <1>3. ASSUME NEW i \in 1..Len(t2) PROVE t2[i].ref <= Len(codes) /\ Meaning(t2[i], codes) = i2[i]
    <2>1. CASE i \in 1..k
      <3>1. t2[i] = text[i] /\ i2[i] = ids[i]
        BY <1>1, <2>1
      <3>2. QED BY <1>1, <2>1, <3>1
    <2>2. CASE i \notin 1..k
      <3>1. PICK j \in 1..Len(txt) : i = k + j
        <4>1. i - k \in 1..Len(txt) /\ i = k + (i - k)
          BY <1>2, <2>2
        <4>2. QED BY <4>1
      <3>2. t2[k + j] = txt[j] /\ i2[k + j] = more[j]
        BY <1>1
      <3>3. Len(codes) \in Nat
        BY <1>1
      <3>4. QED BY <3>1, <3>2, <3>3 DEF Meaning
    <2>3. QED BY <2>1, <2>2
  <1> HIDE DEF t2, i2
  <1>4. Reads(t2, codes, i2)
    BY <1>1, <1>2, <1>3, ReadsIs
  <1>5. QED BY <1>4 DEF t2, i2

LEMMA ReadsCode ==
  ASSUME NEW text, NEW codes, NEW ids, Reads(text, codes, ids), NEW code \in Ids
  PROVE  Reads(Append(text, Tag(code, Len(codes) + 1)), Append(codes, code), ids \o <<code>>)
  <1>1. /\ text \in Seq(Toks) /\ codes \in Seq(Ids) /\ ids \in Seq(Ids) /\ Len(text) = Len(ids)
        /\ \A i \in 1..Len(text) : text[i].ref <= Len(codes) /\ Meaning(text[i], codes) = ids[i]
    BY ReadsFacts
  <1> DEFINE k == Len(text)
             c == Len(codes)
             tag == Tag(code, c + 1)
             t2 == Append(text, tag)
             c2 == Append(codes, code)
             i2 == ids \o <<code>>
  <1>2. k \in Nat /\ c \in Nat /\ tag.ref = c + 1 /\ tag \in Toks
    BY <1>1 DEF Tag, Toks
  <1>3. /\ t2 \in Seq(Toks) /\ c2 \in Seq(Ids) /\ i2 \in Seq(Ids)
        /\ Len(t2) = k + 1 /\ Len(c2) = c + 1 /\ Len(i2) = k + 1
    <2> HIDE DEF tag
    <2>1. QED BY <1>1, <1>2
  <1>4. ASSUME NEW i \in 1..(k + 1) PROVE t2[i].ref <= c + 1 /\ Meaning(t2[i], c2) = i2[i]
    <2>1. CASE i \in 1..k
      <3>1. t2[i] = text[i] /\ i2[i] = ids[i] /\ text[i].ref \in Nat /\ text[i].ref <= c
        <4>1. t2[i] = text[i]
          <5> HIDE DEF tag
          <5>1. QED BY <1>1, <1>2, <2>1
        <4>2. i2[i] = ids[i]
          BY <1>1, <2>1
        <4>3. text[i] \in Toks /\ text[i].ref <= c
          BY <1>1, <2>1
        <4>4. QED BY <4>1, <4>2, <4>3 DEF Toks
      <3>2. text[i].ref # 0 => c2[text[i].ref] = codes[text[i].ref]
        BY <1>1, <1>2, <3>1
      <3>3. Meaning(text[i], c2) = Meaning(text[i], codes)
        BY <3>2 DEF Meaning
      <3>4. text[i].ref <= c + 1 /\ Meaning(text[i], codes) = ids[i]
        BY <1>1, <1>2, <2>1, <3>1
      <3>5. QED BY <3>1, <3>3, <3>4
    <2>2. CASE i = k + 1
      <3>1. t2[k + 1] = tag
        <4> HIDE DEF tag
        <4>1. QED BY <1>1, <1>2
      <3>2. i2[k + 1] = code
        BY <1>1
      <3>3. c2[c + 1] = code
        BY <1>1
      <3>4. Meaning(tag, c2) = code
        BY <1>2, <3>3 DEF Meaning
      <3> HIDE DEF tag, t2, i2, c2
      <3>5. QED BY <1>2, <2>2, <3>1, <3>2, <3>4
    <2>3. i \in 1..k \/ i = k + 1
      BY <1>2
    <2>4. QED BY <2>1, <2>2, <2>3
  <1> HIDE DEF t2, i2, c2, tag
  <1>5. Reads(t2, c2, i2)
    BY <1>3, <1>4, ReadsIs
  <1>6. QED BY <1>5 DEF t2, i2, c2, tag

-----------------------------------------------------------------------------
(* The streams of the sections of a page. *)

StreamFields == {"parent", "header", "active", "text", "codes", "from", "to"}
Span(pg, st) == (IF st.to = 0 THEN Len(pg) + 1 ELSE st.to) - st.from - 1
StreamOK(pg, st) ==
  /\ StreamFields \subseteq DOMAIN st
  /\ IsHeader(st.header)
  /\ st.from \in 1..Len(pg) /\ (st.to # 0 => st.to \in (st.from + 1)..Len(pg))
  /\ st.active => Reads(st.text, st.codes, Stretch(pg, st.from, Span(pg, st)))

\* What is streamed for the newest element.
IsPiece(txt, pg) ==
  LET ids == PieceIn(pg, Len(pg))
  IN  txt \in Seq(Toks) /\ Len(txt) = Len(ids) /\ \A i \in 1..Len(txt) : txt[i].ref = 0 /\ txt[i].id = ids[i]

\* The same stream before and after an element.
Follows(pg, before, after) == StreamOK(pg, after) /\ after.parent = before.parent /\ after.to = before.to

LEMMA PageGrows ==
  ASSUME NEW pg \in Seq(Elements), NEW x \in Elements
  PROVE  /\ Append(pg, x) \in Seq(Elements) /\ Len(pg) \in Nat /\ Len(Append(pg, x)) = Len(pg) + 1
         /\ Len(pg) + 1 \in 1..Len(Append(pg, x)) /\ Append(pg, x)[Len(pg) + 1] = x
  OBVIOUS

LEMMA SpanFacts ==
  ASSUME NEW pg \in Seq(Elements), NEW st, StreamOK(pg, st)
  PROVE  /\ Span(pg, st) \in Nat /\ st.from \in Nat /\ st.from + Span(pg, st) <= Len(pg)
         /\ st.to = 0 => st.from + Span(pg, st) = Len(pg)
  <1>1. Len(pg) \in Nat /\ st.from \in 1..Len(pg)
    BY DEF StreamOK
  <1>2. CASE st.to = 0
    BY <1>1, <1>2 DEF Span
  <1>3. CASE st.to # 0
    <2>1. st.to \in (st.from + 1)..Len(pg)
      BY <1>3 DEF StreamOK
    <2>2. QED BY <1>1, <1>3, <2>1 DEF Span
  <1>4. QED BY <1>2, <1>3

LEMMA Heard ==
  ASSUME NEW pg \in Seq(Elements), NEW x \in Elements, NEW st, StreamOK(pg, st), st.to = 0,
         NEW txt, IsPiece(txt, Append(pg, x))
  PROVE  st.active => Follows(Append(pg, x), st, [st EXCEPT !.text = st.text \o txt])
  <1> SUFFICES ASSUME st.active PROVE Follows(Append(pg, x), st, [st EXCEPT !.text = st.text \o txt])
    OBVIOUS
  <1> DEFINE more == Append(pg, x)
             st2 == [st EXCEPT !.text = st.text \o txt]
             d == Span(pg, st)
             ids == PieceIn(more, Len(more))
  <1>1. more \in Seq(Elements) /\ Len(more) = Len(pg) + 1 /\ Len(pg) \in Nat /\ Len(more) \in 1..Len(more)
    BY PageGrows
  <1>2. d \in Nat /\ st.from \in Nat /\ st.from + d = Len(pg)
    BY SpanFacts
  <1>3. /\ DOMAIN st2 = DOMAIN st /\ st2.text = st.text \o txt /\ st2.parent = st.parent
        /\ st2.header = st.header /\ st2.active = st.active /\ st2.codes = st.codes
        /\ st2.from = st.from /\ st2.to = st.to
    BY DEF StreamOK, StreamFields
  <1>4. Span(more, st2) = d + 1
    <2>1. st.from \in 1..Len(pg)
      BY DEF StreamOK
    <2> HIDE DEF more, st2
    <2>2. QED BY <1>1, <1>3, <2>1 DEF Span
  <1>5. Reads(st.text, st.codes, Stretch(pg, st.from, d))
    BY DEF StreamOK
  <1>6. Stretch(more, st.from, d + 1) = Stretch(pg, st.from, d) \o ids
    <2>1. Stretch(more, st.from, d + 1) = Stretch(pg, st.from, d) \o PieceIn(more, Len(pg) + 1)
      BY <1>2, StretchMore
    <2> HIDE DEF more
    <2>2. QED BY <1>1, <2>1
  <1>7. ids \in Seq(Ids)
    <2> HIDE DEF more
    <2>1. QED BY <1>1, PieceType
  <1>8. Reads(st.text \o txt, st.codes, Stretch(pg, st.from, d) \o ids)
    <2>1. txt \in Seq(Toks) /\ Len(txt) = Len(ids) /\ \A i \in 1..Len(txt) : txt[i].ref = 0 /\ txt[i].id = ids[i]
      BY DEF IsPiece
    <2> HIDE DEF ids, d
    <2>2. QED BY <1>5, <1>7, <2>1, ReadsText
  <1> HIDE DEF more, st2, d, ids
  <1>9. Reads(st2.text, st2.codes, Stretch(more, st2.from, Span(more, st2)))
    BY <1>3, <1>4, <1>6, <1>8
  <1>10. IsHeader(st2.header) /\ st2.from \in 1..Len(more) /\ st2.to = 0 /\ StreamFields \subseteq DOMAIN st2
    BY <1>1, <1>3 DEF StreamOK
  <1>11. StreamOK(more, st2)
    BY <1>9, <1>10 DEF StreamOK
  <1>12. QED BY <1>3, <1>11 DEF Follows, more, st2

LEMMA HeardCode ==
  ASSUME NEW pg \in Seq(Elements), NEW x \in Elements, NEW st, StreamOK(pg, st), st.to = 0, x.n = 1,
         x.kind \notin Marks
  PROVE  st.active =>
           LET code == <<Len(pg) + 1, 1>>
           IN  Follows(Append(pg, x), st,
                 [st EXCEPT !.text = Append(st.text, Tag(code, Len(st.codes) + 1)), !.codes = Append(st.codes, code)])
  <1> DEFINE more == Append(pg, x)
             code == <<Len(pg) + 1, 1>>
             text == Append(st.text, Tag(code, Len(st.codes) + 1))
             codes == Append(st.codes, code)
             st2 == [st EXCEPT !.text = text, !.codes = codes]
             d == Span(pg, st)
             ids == PieceIn(more, Len(more))
  <1> SUFFICES ASSUME st.active PROVE Follows(more, st, st2)
    OBVIOUS
  <1>1. /\ more \in Seq(Elements) /\ Len(more) = Len(pg) + 1 /\ Len(pg) \in Nat /\ Len(more) \in 1..Len(more)
        /\ more[Len(more)] = x /\ code \in Ids
    BY PageGrows DEF Ids
  <1>2. d \in Nat /\ st.from \in Nat /\ st.from + d = Len(pg)
    BY SpanFacts
  <1>3. /\ DOMAIN st2 = DOMAIN st /\ st2.text = text /\ st2.codes = codes /\ st2.parent = st.parent
        /\ st2.header = st.header /\ st2.active = st.active /\ st2.from = st.from /\ st2.to = st.to
    <2> HIDE DEF text, codes
    <2>1. QED BY DEF StreamOK, StreamFields
  <1>4. Span(more, st2) = d + 1
    <2>1. st.from \in 1..Len(pg)
      BY DEF StreamOK
    <2> HIDE DEF more, st2
    <2>2. QED BY <1>1, <1>3, <2>1 DEF Span
  <1>5. Reads(st.text, st.codes, Stretch(pg, st.from, d))
    BY DEF StreamOK
  <1>6. Stretch(more, st.from, d + 1) = Stretch(pg, st.from, d) \o ids
    <2>1. Stretch(more, st.from, d + 1) = Stretch(pg, st.from, d) \o PieceIn(more, Len(pg) + 1)
      BY <1>2, StretchMore
    <2> HIDE DEF more
    <2>2. QED BY <1>1, <2>1
  <1>7. ids = <<code>>
    <2>1. PieceIn(more, Len(more)) = [i \in 1..1 |-> <<Len(more), i>>]
      <3> HIDE DEF more
      <3>1. more[Len(more)].n = 1 /\ more[Len(more)].kind \notin Marks
        BY <1>1
      <3>2. QED BY <3>1, Zenon DEF PieceIn
    <2>2. [i \in 1..1 |-> <<Len(pg) + 1, i>>] = << <<Len(pg) + 1, 1>> >>
      OBVIOUS
    <2> HIDE DEF more
    <2>3. QED BY <1>1, <2>1, <2>2
  <1>8. Reads(text, codes, Stretch(pg, st.from, d) \o ids)
    <2> HIDE DEF d, ids
    <2>1. Reads(text, codes, Stretch(pg, st.from, d) \o <<code>>)
      <3> HIDE DEF code
      <3>1. QED BY <1>1, <1>5, ReadsCode
    <2>2. QED BY <1>7, <2>1
  <1> HIDE DEF more, st2, d, ids, text, codes
  <1>9. Reads(st2.text, st2.codes, Stretch(more, st2.from, Span(more, st2)))
    BY <1>3, <1>4, <1>6, <1>8
  <1>10. IsHeader(st2.header) /\ st2.from \in 1..Len(more) /\ st2.to = 0 /\ StreamFields \subseteq DOMAIN st2
    BY <1>1, <1>3 DEF StreamOK
  <1>11. StreamOK(more, st2)
    BY <1>9, <1>10 DEF StreamOK
  <1>12. QED BY <1>3, <1>11 DEF Follows

LEMMA Missed ==
  ASSUME NEW pg \in Seq(Elements), NEW x \in Elements, NEW st, StreamOK(pg, st), ~(st.active /\ st.to = 0)
  PROVE  Follows(Append(pg, x), st, st)
  <1> DEFINE more == Append(pg, x)
             d == Span(pg, st)
  <1>1. more \in Seq(Elements) /\ Len(more) = Len(pg) + 1 /\ Len(pg) \in Nat
    BY PageGrows
  <1>2. d \in Nat /\ st.from \in Nat /\ st.from + d <= Len(pg)
    BY SpanFacts
  <1>3. Stretch(more, st.from, d) = Stretch(pg, st.from, d)
    BY <1>2, StretchSame
  <1>4. st.active => Reads(st.text, st.codes, Stretch(more, st.from, Span(more, st)))
    <2>1. SUFFICES ASSUME st.active PROVE Reads(st.text, st.codes, Stretch(more, st.from, Span(more, st)))
      OBVIOUS
    <2>2. Span(more, st) = d
      BY <2>1 DEF Span
    <2>3. Reads(st.text, st.codes, Stretch(pg, st.from, d))
      BY <2>1 DEF StreamOK
    <2> HIDE DEF more, d
    <2>4. QED BY <1>3, <2>2, <2>3
  <1> HIDE DEF more, d
  <1>5. st.from \in 1..Len(more) /\ (st.to # 0 => st.to \in (st.from + 1)..Len(more))
    BY <1>1 DEF StreamOK
  <1>6. StreamOK(more, st)
    BY <1>4, <1>5 DEF StreamOK
  <1>7. QED BY <1>6 DEF Follows, more

LEMMA Ends ==
  ASSUME NEW pg \in Seq(Elements), NEW x \in Elements, NEW st, StreamOK(pg, st), st.to = 0
  PROVE  LET st2 == [st EXCEPT !.to = Len(pg) + 1]
         IN  StreamOK(Append(pg, x), st2) /\ st2.parent = st.parent /\ st2.to = Len(pg) + 1
  <1> DEFINE more == Append(pg, x)
             st2 == [st EXCEPT !.to = Len(pg) + 1]
             d == Span(pg, st)
  <1>1. more \in Seq(Elements) /\ Len(more) = Len(pg) + 1 /\ Len(pg) \in Nat
    BY PageGrows
  <1>2. d \in Nat /\ st.from \in Nat /\ st.from + d <= Len(pg) /\ st.from \in 1..Len(pg)
    BY SpanFacts DEF StreamOK
  <1>3. Stretch(more, st.from, d) = Stretch(pg, st.from, d)
    BY <1>2, StretchSame
  <1>4. /\ DOMAIN st2 = DOMAIN st /\ st2.text = st.text /\ st2.codes = st.codes /\ st2.parent = st.parent
        /\ st2.header = st.header /\ st2.active = st.active /\ st2.from = st.from /\ st2.to = Len(pg) + 1
    BY DEF StreamOK, StreamFields
  <1> HIDE DEF more, st2
  <1>5. Span(more, st2) = d
    BY <1>1, <1>2, <1>4 DEF Span
  <1>6. st2.active => Reads(st2.text, st2.codes, Stretch(more, st2.from, Span(more, st2)))
    <2>1. st.active => Reads(st.text, st.codes, Stretch(pg, st.from, d))
      BY DEF StreamOK
    <2> HIDE DEF d
    <2>2. QED BY <1>3, <1>4, <1>5, <2>1
  <1>7. st2.from \in 1..Len(more) /\ st2.to \in (st2.from + 1)..Len(more) /\ IsHeader(st2.header)
        /\ StreamFields \subseteq DOMAIN st2
    BY <1>1, <1>2, <1>4 DEF StreamOK
  <1>8. StreamOK(more, st2)
    BY <1>6, <1>7 DEF StreamOK
  <1>9. QED BY <1>4, <1>8 DEF more, st2

LEMMA Begins ==
  ASSUME NEW pg \in Seq(Elements), NEW x \in Elements, NEW header, IsHeader(header), NEW parent
  PROVE  LET st == Streamer(parent, header, Len(pg) + 1)
         IN  StreamOK(Append(pg, x), st) /\ st.parent = parent /\ st.to = 0
  <1> DEFINE more == Append(pg, x)
             st == Streamer(parent, header, Len(pg) + 1)
  <1>1. more \in Seq(Elements) /\ Len(more) = Len(pg) + 1 /\ Len(pg) \in Nat
    BY PageGrows
  <1>2. /\ StreamFields \subseteq DOMAIN st /\ st.parent = parent /\ st.header = header /\ st.text = <<>>
        /\ st.codes = <<>> /\ st.from = Len(pg) + 1 /\ st.to = 0
    BY DEF Streamer, StreamFields
  <1> HIDE DEF more, st
  <1>3. Span(more, st) = 0
    BY <1>1, <1>2 DEF Span
  <1>4. Stretch(more, st.from, 0) = <<>>
    BY <1>1, <1>2, StretchNone
  <1>5. Reads(<<>>, <<>>, <<>>)
    <2>1. <<>> \in Seq(Toks) /\ <<>> \in Seq(Ids) /\ Len(<<>>) = 0
      OBVIOUS
    <2>2. \A i \in 1..Len(<<>>) : FALSE
      OBVIOUS
    <2>3. QED BY <2>1, <2>2, ReadsIs
  <1>6. st.from \in 1..Len(more)
    BY <1>1, <1>2
  <1>7. StreamOK(more, st)
    BY <1>2, <1>3, <1>4, <1>5, <1>6 DEF StreamOK
  <1>8. QED BY <1>2, <1>7 DEF more, st

-----------------------------------------------------------------------------
(* The sections that are open. *)

\* Each has a stream of its own whose parent is the stream around it, or shares that.
Nested(ss, ks, n) ==
  LET s == ks[n].stream
  IN  IF n = 1 THEN ss[s].parent = 0 ELSE s = ks[n - 1].stream \/ ss[s].parent = ks[n - 1].stream
Inside(ks, n, i) == \E m \in 1..n : ks[m].stream = i
FramesOK(ss, ks) ==
  /\ IsSequence(ss) /\ IsSequence(ks)
  /\ \A i \in 1..Len(ss) : ss[i].parent \in 0..(i - 1)
  /\ \A n \in 1..Len(ks) : "stream" \in DOMAIN ks[n] /\ ks[n].stream \in 1..Len(ss) /\ Nested(ss, ks, n)
  /\ \A m, n \in 1..Len(ks) : m <= n => ks[m].stream <= ks[n].stream
  /\ \A i \in 1..Len(ss) : ss[i].to = 0 <=> Inside(ks, Len(ks), i)

\* The streams that a stream hands its text on to.
Up(ss, up) == up = [i \in 0..Len(ss) |-> IF i = 0 THEN {} ELSE {i} \cup up[ss[i].parent]]

LEMMA UpExists ==
  ASSUME NEW ss, IsSequence(ss), \A i \in 1..Len(ss) : ss[i].parent \in 0..(i - 1)
  PROVE  \E up : Up(ss, up)
  <1> DEFINE n == Len(ss)
             D == 0..n
             V == SUBSET Nat
             base == [i \in {0} |-> {}]
             pred == [i \in D |-> ss[i].parent]
             rank == [i \in D |-> i]
             G == [p \in D \X V |-> {p[1]} \cup p[2]]
  <1>1. n \in Nat
    BY SequenceLength
  <1>2. PICK g : IsRecursive(g, D, {0}, base, pred, G, V)
    <2>1. \A x \in D : x \in {0} => base[x] \in V
      OBVIOUS
    <2>2. Descending(D, {0}, pred, rank)
      <3>1. ASSUME NEW i \in D PROVE rank[i] \in Nat /\ (i \notin {0} => pred[i] \in D /\ rank[pred[i]] < rank[i])
        <4>1. rank[i] \in Nat
          BY <1>1
        <4>2. ASSUME i \notin {0} PROVE pred[i] \in D /\ rank[pred[i]] < rank[i]
          <5>1. i \in 1..n /\ i \in Nat
            BY <1>1, <4>2
          <5>2. ss[i].parent \in 0..(i - 1)
            BY <5>1
          <5>3. ss[i].parent \in D /\ ss[i].parent < i /\ pred[i] = ss[i].parent
            BY <1>1, <5>1, <5>2
          <5>4. QED BY <5>3
        <4>3. QED BY <4>1, <4>2
      <3> HIDE DEF D, pred, rank
      <3>2. QED BY <3>1 DEF Descending
    <2>3. G \in [D \X V -> V]
      <3>1. ASSUME NEW p \in D \X V PROVE {p[1]} \cup p[2] \in V
        <4>1. p[1] \in Nat /\ p[2] \in V
          BY <1>1
        <4>2. QED BY <4>1
      <3>2. QED BY <3>1
    <2> HIDE DEF D, V, base, pred, rank, G
    <2>4. QED BY <2>1, <2>2, <2>3, Recursion
  <1>3. g = [i \in D |-> g[i]]
    BY <1>2 DEF IsRecursive
  <1>4. ASSUME NEW i \in D PROVE g[i] = IF i = 0 THEN {} ELSE {i} \cup g[ss[i].parent]
    <2>1. CASE i = 0
      <3>1. g[i] = base[i]
        BY <1>2, <2>1 DEF IsRecursive
      <3>2. QED BY <2>1, <3>1
    <2>2. CASE i # 0
      <3>1. ss[i].parent \in D /\ pred[i] = ss[i].parent
        <4>1. i \in 1..n /\ i \in Nat
          BY <1>1, <2>2
        <4>2. ss[i].parent \in 0..(i - 1)
          BY <4>1
        <4>3. QED BY <1>1, <4>1, <4>2
      <3>2. g[ss[i].parent] \in V
        BY <1>2, <3>1 DEF IsRecursive
      <3>3. <<i, g[ss[i].parent]>> \in D \X V
        BY <3>2
      <3>4. G[<<i, g[ss[i].parent]>>] = {i} \cup g[ss[i].parent]
        BY <3>3
      <3>5. g[i] = G[<<i, g[pred[i]]>>]
        BY <1>2, <2>2 DEF IsRecursive
      <3>6. QED BY <2>2, <3>1, <3>4, <3>5
    <2>3. QED BY <2>1, <2>2
  <1>5. Up(ss, g)
    BY <1>3, <1>4 DEF Up
  <1>6. QED BY <1>5

\* What is streamed to an open section reaches it and those around it.
LEMMA ListeningFacts ==
  ASSUME FramesOK(streams, stack), NEW n \in 1..Len(stack)
  PROVE  Listening(stack[n].stream) = {i \in 1..Len(streams) : streams[i].active /\ Inside(stack, n, i)}
  <1> DEFINE up == CHOOSE up : Up(streams, up)
             k == Len(stack)
             Around(m) == {i \in 1..Len(streams) : Inside(stack, m, i)}
             T == {m \in Nat : m \in 1..k => up[stack[m].stream] = Around(m)}
  <1>1. Len(streams) \in Nat /\ k \in Nat
    BY SequenceLength DEF FramesOK
  <1>2. Up(streams, up)
    <2>1. \E u : Up(streams, u)
      BY UpExists DEF FramesOK
    <2>2. QED BY <2>1
  <1> HIDE DEF up
  <1>3. up[0] = {} /\ \A i \in 1..Len(streams) : up[i] = {i} \cup up[streams[i].parent]
    <2>1. \A i \in 0..Len(streams) : up[i] = IF i = 0 THEN {} ELSE {i} \cup up[streams[i].parent]
      BY <1>2 DEF Up
    <2>2. 0 \in 0..Len(streams) /\ \A i \in 1..Len(streams) : i \in 0..Len(streams) /\ i # 0
      BY <1>1
    <2>3. QED BY <2>1, <2>2
  <1>4. \A m \in 1..k : stack[m].stream \in 1..Len(streams) /\ Nested(streams, stack, m)
    BY DEF FramesOK
  <1>5. 0 \in T
    OBVIOUS
  <1>6. ASSUME NEW m \in Nat, m \in T PROVE m + 1 \in T
    <2>1. SUFFICES ASSUME m + 1 \in 1..k PROVE up[stack[m + 1].stream] = Around(m + 1)
      OBVIOUS
    <2> DEFINE s == stack[m + 1].stream
    <2>2. s \in 1..Len(streams) /\ Nested(streams, stack, m + 1) /\ up[s] = {s} \cup up[streams[s].parent]
      BY <1>3, <1>4, <2>1
    <2>3. CASE m = 0
      <3>1. streams[s].parent = 0
        BY <2>2, <2>3 DEF Nested
      <3>2. Around(m + 1) = {s}
        <4>1. \A i : Inside(stack, 1, i) <=> stack[1].stream = i
          BY DEF Inside
        <4>2. QED BY <2>2, <2>3, <4>1
      <3>3. QED BY <1>3, <2>2, <3>1, <3>2
    <2>4. CASE m # 0
      <3>1. m \in 1..k /\ m + 1 # 1 /\ (m + 1) - 1 = m
        BY <1>1, <2>1, <2>4
      <3>2. up[stack[m].stream] = Around(m)
        BY <1>6, <3>1
      <3>3. \A i : Inside(stack, m + 1, i) <=> (Inside(stack, m, i) \/ s = i)
        <4>1. \A j \in 1..(m + 1) : j \in 1..m \/ j = m + 1
          OBVIOUS
        <4>2. m + 1 \in 1..(m + 1) /\ \A j \in 1..m : j \in 1..(m + 1)
          OBVIOUS
        <4>3. QED BY <4>1, <4>2 DEF Inside
      <3>4. Around(m + 1) = Around(m) \cup {s}
        BY <2>2, <3>3
      <3>5. s = stack[m].stream \/ streams[s].parent = stack[m].stream
        BY <2>2, <3>1 DEF Nested
      <3>6. CASE s = stack[m].stream
        <4>1. s \in Around(m)
          <5>1. m \in 1..m
            BY <3>1
          <5>2. QED BY <2>2, <3>6, <5>1 DEF Inside
        <4> HIDE DEF Around, s
        <4>2. QED BY <3>2, <3>4, <3>6, <4>1 DEF s
      <3>7. CASE streams[s].parent = stack[m].stream
        <4> HIDE DEF Around
        <4>1. QED BY <2>2, <3>2, <3>4, <3>7
      <3>8. QED BY <3>5, <3>6, <3>7
    <2>5. QED BY <2>3, <2>4
  <1>7. Nat \subseteq T
    <2> HIDE DEF T
    <2>1. QED BY <1>5, <1>6, NatClosed
  <1>8. up[stack[n].stream] = Around(n)
    BY <1>7
  <1>9. Listening(stack[n].stream) = {i \in up[stack[n].stream] : streams[i].active}
    BY DEF Listening, Up, up
  <1>10. QED BY <1>8, <1>9

\* Nothing is opened or closed.
LEMMA FramesKept ==
  ASSUME NEW ss, NEW ks, FramesOK(ss, ks), NEW ss2, IsSequence(ss2), Len(ss2) = Len(ss),
         \A i \in 1..Len(ss) : ss2[i].parent = ss[i].parent /\ ss2[i].to = ss[i].to,
         NEW ks2, IsSequence(ks2), Len(ks2) = Len(ks),
         \A n \in 1..Len(ks) : "stream" \in DOMAIN ks2[n] /\ ks2[n].stream = ks[n].stream
  PROVE  FramesOK(ss2, ks2)
  <1>1. Len(ss) \in Nat /\ Len(ks) \in Nat
    BY SequenceLength DEF FramesOK
  <1>2. ASSUME NEW n \in 1..Len(ks) PROVE ks2[n].stream \in 1..Len(ss) /\ Nested(ss2, ks2, n)
    <2>1. ks2[n].stream = ks[n].stream /\ ks[n].stream \in 1..Len(ss) /\ Nested(ss, ks, n)
      BY DEF FramesOK
    <2>2. n # 1 => n - 1 \in 1..Len(ks)
      BY <1>1
    <2>3. QED BY <2>1, <2>2 DEF Nested
  <1>3. \A i : Inside(ks2, Len(ks), i) <=> Inside(ks, Len(ks), i)
    BY DEF Inside
  <1>4. QED BY <1>1, <1>2, <1>3 DEF FramesOK

\* A section with a stream of its own, or that shares the one around it.
LEMMA FramesOpen ==
  ASSUME NEW ss, NEW ks, FramesOK(ss, ks), NEW st, NEW f, "stream" \in DOMAIN f, f.stream = Len(ss) + 1,
         st.to = 0, st.parent = IF Len(ks) = 0 THEN 0 ELSE ks[Len(ks)].stream
  PROVE  FramesOK(Append(ss, st), Append(ks, f))
  <1> DEFINE ss2 == Append(ss, st)
             ks2 == Append(ks, f)
             k == Len(ks)
             l == Len(ss)
  <1>1. /\ k \in Nat /\ l \in Nat /\ IsSequence(ss2) /\ IsSequence(ks2) /\ Len(ss2) = l + 1 /\ Len(ks2) = k + 1
        /\ ss2[l + 1] = st /\ ks2[k + 1] = f
        /\ \A i \in 1..l : ss2[i] = ss[i]
        /\ \A n \in 1..k : ks2[n] = ks[n]
    BY SequenceFacts DEF FramesOK
  <1> HIDE DEF ss2, ks2
  <1>2. \A n \in 1..(k + 1) : n \in 1..k \/ n = k + 1
    BY <1>1
  <1>3. \A i \in 1..(l + 1) : i \in 1..l \/ i = l + 1
    BY <1>1
  <1>4. \A n \in 1..k : ks[n].stream \in 1..l
    BY DEF FramesOK
  <1>5. ASSUME NEW i \in 1..(l + 1) PROVE ss2[i].parent \in 0..(i - 1)
    <2>1. CASE i \in 1..l
      BY <1>1, <2>1 DEF FramesOK
    <2>2. CASE i = l + 1
      <3>1. st.parent \in 0..l
        <4>1. CASE k = 0
          BY <1>1, <4>1
        <4>2. CASE k # 0
          <5>1. k \in 1..k
            BY <1>1, <4>2
          <5>2. QED BY <1>1, <1>4, <4>2, <5>1
        <4>3. QED BY <4>1, <4>2
      <3>2. QED BY <1>1, <2>2, <3>1
    <2>3. QED BY <1>3, <2>1, <2>2
  <1>6. ASSUME NEW n \in 1..(k + 1)
        PROVE  "stream" \in DOMAIN ks2[n] /\ ks2[n].stream \in 1..(l + 1) /\ Nested(ss2, ks2, n)
    <2>1. CASE n \in 1..k
      <3>1. ks2[n] = ks[n] /\ "stream" \in DOMAIN ks[n] /\ ks[n].stream \in 1..l /\ Nested(ss, ks, n)
        BY <1>1, <2>1 DEF FramesOK
      <3>2. n # 1 => ks2[n - 1] = ks[n - 1]
        BY <1>1, <2>1
      <3>3. ss2[ks[n].stream] = ss[ks[n].stream]
        BY <1>1, <3>1
      <3>4. Nested(ss2, ks2, n)
        BY <3>1, <3>2, <3>3 DEF Nested
      <3>5. QED BY <1>1, <3>1, <3>4
    <2>2. CASE n = k + 1
      <3>1. ks2[n] = f /\ ss2[f.stream] = st /\ f.stream \in 1..(l + 1)
        BY <1>1, <2>2
      <3>2. Nested(ss2, ks2, n)
        <4>1. CASE k = 0
          BY <2>2, <3>1, <4>1 DEF Nested
        <4>2. CASE k # 0
          <5>1. n # 1 /\ n - 1 = k /\ ks2[k] = ks[k]
            BY <1>1, <2>2, <4>2
          <5>2. QED BY <3>1, <4>2, <5>1 DEF Nested
        <4>3. QED BY <4>1, <4>2
      <3>3. QED BY <3>1, <3>2
    <2>3. QED BY <1>2, <2>1, <2>2
  <1>7. ASSUME NEW m \in 1..(k + 1), NEW n \in 1..(k + 1), m <= n PROVE ks2[m].stream <= ks2[n].stream
    <2>1. CASE n \in 1..k
      <3>1. m \in 1..k
        BY <1>1, <1>7, <2>1
      <3>2. QED BY <1>1, <1>7, <2>1, <3>1 DEF FramesOK
    <2>2. CASE n = k + 1
      <3>1. ks2[n].stream = l + 1 /\ ks2[m].stream \in 1..(l + 1)
        BY <1>1, <1>6, <2>2
      <3>2. QED BY <1>1, <3>1
    <2>3. QED BY <1>2, <2>1, <2>2
  <1>8. ASSUME NEW i \in 1..(l + 1) PROVE ss2[i].to = 0 <=> Inside(ks2, k + 1, i)
    <2>1. Inside(ks2, k + 1, i) <=> Inside(ks, k, i) \/ i = l + 1
      <3>1. k + 1 \in 1..(k + 1) /\ \A n \in 1..k : n \in 1..(k + 1)
        BY <1>1
      <3>2. QED BY <1>1, <1>2, <3>1 DEF Inside
    <2>2. CASE i \in 1..l
      <3>1. ss2[i] = ss[i] /\ i # l + 1 /\ (ss[i].to = 0 <=> Inside(ks, k, i))
        BY <1>1, <2>2 DEF FramesOK
      <3>2. QED BY <2>1, <3>1
    <2>3. CASE i = l + 1
      BY <1>1, <2>1, <2>3
    <2>4. QED BY <1>3, <2>2, <2>3
  <1>9. FramesOK(ss2, ks2)
    BY <1>1, <1>5, <1>6, <1>7, <1>8 DEF FramesOK
  <1>10. QED BY <1>9 DEF ss2, ks2

LEMMA FramesShare ==
  ASSUME NEW ss, NEW ks, FramesOK(ss, ks), Len(ks) # 0,
         NEW f, "stream" \in DOMAIN f, f.stream = ks[Len(ks)].stream
  PROVE  FramesOK(ss, Append(ks, f))
  <1> DEFINE ks2 == Append(ks, f)
             k == Len(ks)
             l == Len(ss)
  <1>1. /\ k \in Nat /\ l \in Nat /\ k \in 1..k /\ IsSequence(ks2) /\ Len(ks2) = k + 1
        /\ ks2[k + 1] = f /\ \A n \in 1..k : ks2[n] = ks[n]
    BY SequenceFacts DEF FramesOK
  <1> HIDE DEF ks2
  <1>2. \A n \in 1..(k + 1) : n \in 1..k \/ n = k + 1
    BY <1>1
  <1>3. ASSUME NEW n \in 1..(k + 1)
        PROVE  "stream" \in DOMAIN ks2[n] /\ ks2[n].stream \in 1..l /\ Nested(ss, ks2, n)
    <2>1. CASE n \in 1..k
      <3>1. ks2[n] = ks[n] /\ "stream" \in DOMAIN ks[n] /\ ks[n].stream \in 1..l /\ Nested(ss, ks, n)
        BY <1>1, <2>1 DEF FramesOK
      <3>2. n # 1 => ks2[n - 1] = ks[n - 1]
        BY <1>1, <2>1
      <3>3. Nested(ss, ks2, n)
        BY <3>1, <3>2 DEF Nested
      <3>4. QED BY <3>1, <3>3
    <2>2. CASE n = k + 1
      <3>1. n # 1 /\ n - 1 = k /\ ks2[k] = ks[k] /\ ks2[n] = f
        BY <1>1, <2>2
      <3>2. ks[k].stream \in 1..l
        BY <1>1 DEF FramesOK
      <3>3. QED BY <3>1, <3>2 DEF Nested
    <2>3. QED BY <1>2, <2>1, <2>2
  <1>4. ASSUME NEW m \in 1..(k + 1), NEW n \in 1..(k + 1), m <= n PROVE ks2[m].stream <= ks2[n].stream
    <2>1. \A j \in 1..(k + 1) : \E i \in 1..k : ks2[j].stream = ks[i].stream /\ (j <= k => i = j) /\ (j = k + 1 => i = k)
      BY <1>1, <1>2
    <2>2. PICK i \in 1..k : ks2[m].stream = ks[i].stream /\ (m <= k => i = m) /\ (m = k + 1 => i = k)
      BY <2>1
    <2>3. PICK j \in 1..k : ks2[n].stream = ks[j].stream /\ (n <= k => j = n) /\ (n = k + 1 => j = k)
      BY <2>1
    <2>4. i <= j
      BY <1>1, <1>4, <2>2, <2>3
    <2>5. QED BY <2>2, <2>3, <2>4 DEF FramesOK
  <1>5. \A i : Inside(ks2, k + 1, i) <=> Inside(ks, k, i)
    <2>1. k + 1 \in 1..(k + 1) /\ \A n \in 1..k : n \in 1..(k + 1)
      BY <1>1
    <2>2. QED BY <1>1, <1>2, <2>1 DEF Inside
  <1>6. FramesOK(ss, ks2)
    BY <1>1, <1>3, <1>4, <1>5 DEF FramesOK
  <1>7. QED BY <1>6 DEF ks2

\* The stream of the innermost section is that of the section around it or of no other.
LEMMA OwnIsLast ==
  ASSUME NEW ss, NEW ks, FramesOK(ss, ks), Len(ks) # 0,
         NEW m \in 1..(Len(ks) - 1), ks[m].stream = ks[Len(ks)].stream
  PROVE  Len(ks) > 1 /\ ks[Len(ks)].stream = ks[Len(ks) - 1].stream
  <1> DEFINE k == Len(ks)
             l == Len(ss)
             own == ks[k].stream
  <1>1. k \in Nat /\ l \in Nat
    BY SequenceLength DEF FramesOK
  <1>2. k > 1 /\ k # 1 /\ k \in 1..k /\ k - 1 \in 1..k /\ m \in 1..k /\ m <= k - 1
    BY <1>1
  <1>3. ks[m].stream <= ks[k - 1].stream /\ own \in 1..l /\ ks[k - 1].stream \in 1..l /\ Nested(ss, ks, k)
    BY <1>2 DEF FramesOK
  <1>4. own = ks[k - 1].stream \/ ss[own].parent = ks[k - 1].stream
    BY <1>2, <1>3 DEF Nested
  <1>5. ss[own].parent \in 0..(own - 1)
    BY <1>3 DEF FramesOK
  <1>6. QED BY <1>1, <1>2, <1>3, <1>4, <1>5

LEMMA FramesClose ==
  ASSUME NEW ss, NEW ks, FramesOK(ss, ks), Len(ks) # 0,
         NEW ss2, IsSequence(ss2), Len(ss2) = Len(ss), \A i \in 1..Len(ss) : ss2[i].parent = ss[i].parent,
         NEW ks2, IsSequence(ks2), Len(ks2) = Len(ks) - 1,
         \A n \in 1..(Len(ks) - 1) : "stream" \in DOMAIN ks2[n] /\ ks2[n].stream = ks[n].stream,
         \A i \in 1..Len(ss) :
           ss2[i].to = 0 <=> /\ ss[i].to = 0
                             /\ i = ks[Len(ks)].stream => Len(ks) > 1 /\ i = ks[Len(ks) - 1].stream
  PROVE  FramesOK(ss2, ks2)
  <1> DEFINE k == Len(ks)
             l == Len(ss)
             own == ks[k].stream
  <1>1. k \in Nat /\ l \in Nat /\ k \in 1..k /\ \A n \in 1..(k - 1) : n \in 1..k /\ n <= k
    BY SequenceLength DEF FramesOK
  <1>2. ASSUME NEW n \in 1..(k - 1)
        PROVE  "stream" \in DOMAIN ks2[n] /\ ks2[n].stream \in 1..l /\ Nested(ss2, ks2, n)
    <2>1. ks2[n].stream = ks[n].stream /\ "stream" \in DOMAIN ks2[n]
      OBVIOUS
    <2>2. ks[n].stream \in 1..l /\ Nested(ss, ks, n)
      BY <1>1 DEF FramesOK
    <2>3. n # 1 => n - 1 \in 1..(k - 1)
      BY <1>1
    <2>4. n # 1 => ks2[n - 1].stream = ks[n - 1].stream
      BY <2>3
    <2>5. ss2[ks[n].stream].parent = ss[ks[n].stream].parent
      BY <2>2
    <2>6. Nested(ss2, ks2, n)
      BY <2>1, <2>2, <2>4, <2>5 DEF Nested
    <2>7. QED BY <2>1, <2>2, <2>6
  <1>3. ASSUME NEW m \in 1..(k - 1), NEW n \in 1..(k - 1), m <= n PROVE ks2[m].stream <= ks2[n].stream
    <2>1. ks2[m].stream = ks[m].stream /\ ks2[n].stream = ks[n].stream /\ m \in 1..k /\ n \in 1..k
      BY <1>1
    <2>2. QED BY <1>3, <2>1 DEF FramesOK
  <1>4. \A m \in 1..(k - 1) : ks[m].stream = own => k > 1 /\ own = ks[k - 1].stream
    BY OwnIsLast
  <1>5. ASSUME NEW i \in 1..l PROVE ss2[i].to = 0 <=> Inside(ks2, k - 1, i)
    <2>1. Inside(ks, k, i) <=> Inside(ks, k - 1, i) \/ i = own
      <3>1. \A n \in 1..k : n \in 1..(k - 1) \/ n = k
        BY <1>1
      <3>2. QED BY <1>1, <3>1 DEF Inside
    <2>2. Inside(ks2, k - 1, i) <=> Inside(ks, k - 1, i)
      BY DEF Inside
    <2>3. ss[i].to = 0 <=> Inside(ks, k, i)
      BY DEF FramesOK
    <2>4. ss2[i].to = 0 <=> (ss[i].to = 0 /\ (i = own => k > 1 /\ i = ks[k - 1].stream))
      OBVIOUS
    <2>5. Inside(ks, k - 1, i) /\ i = own => k > 1 /\ i = ks[k - 1].stream
      BY <1>4 DEF Inside
    <2>6. k > 1 /\ i = ks[k - 1].stream => Inside(ks, k - 1, i)
      <3>1. k > 1 => k - 1 \in 1..(k - 1)
        BY <1>1
      <3>2. QED BY <3>1 DEF Inside
    <2>7. QED BY <2>1, <2>2, <2>3, <2>4, <2>5, <2>6
  <1>6. \A i \in 1..l : ss2[i].parent \in 0..(i - 1)
    BY DEF FramesOK
  <1>7. QED BY <1>1, <1>2, <1>3, <1>5, <1>6 DEF FramesOK

-----------------------------------------------------------------------------
(* The walk of a page. *)

StreamsOK(ss, pg) == pg \in Seq(Elements) /\ \A i \in 1..Len(ss) : StreamOK(pg, ss[i])
WalkInv == StreamsOK(streams, page) /\ FramesOK(streams, stack)

LEMMA MadeSequence ==
  ASSUME NEW n \in Nat, NEW s, s = [i \in 1..n |-> s[i]]
  PROVE  IsSequence(s) /\ Len(s) = n
  <1> DEFINE A == {s[i] : i \in 1..n}
  <1>1. \A i \in 1..n : s[i] \in A
    OBVIOUS
  <1> HIDE DEF A
  <1>2. s \in Seq(A) /\ Len(s) = n
    BY <1>1
  <1>3. QED BY <1>2 DEF IsSequence

LEMMA PieceOfText ==
  ASSUME NEW pg \in Seq(Elements), NEW n \in Nat, NEW x \in Elements, x.n = n, x.kind \notin Marks
  PROVE  IsPiece([i \in 1..n |-> Sentence(<<Len(pg) + 1, i>>)], Append(pg, x))
  <1> DEFINE more == Append(pg, x)
             e == Len(pg) + 1
             txt == [i \in 1..n |-> Sentence(<<e, i>>)]
             ids == [i \in 1..n |-> <<e, i>>]
  <1>1. Len(more) = e /\ more[e] = x /\ e \in Nat
    BY PageGrows
  <1> HIDE DEF more
  <1>2. PieceIn(more, Len(more)) = ids
    BY <1>1, Zenon DEF PieceIn
  <1>3. \A i \in 1..n : <<e, i>> \in Ids /\ Sentence(<<e, i>>) \in Toks
        /\ Sentence(<<e, i>>).ref = 0 /\ Sentence(<<e, i>>).id = <<e, i>>
    <2> SUFFICES ASSUME NEW i \in 1..n
                 PROVE  <<e, i>> \in Ids /\ Sentence(<<e, i>>) \in Toks
                        /\ Sentence(<<e, i>>).ref = 0 /\ Sentence(<<e, i>>).id = <<e, i>>
      OBVIOUS
    <2>1. <<e, i>> \in Ids
      BY <1>1 DEF Ids
    <2>2. QED BY <2>1 DEF Sentence, Toks
  <1> HIDE DEF e
  <1>4. txt \in Seq(Toks) /\ Len(txt) = n /\ Len(ids) = n
    <2>1. txt \in Seq(Toks)
      BY <1>3
    <2>2. QED BY <2>1
  <1>5. \A i \in 1..n : txt[i].ref = 0 /\ txt[i].id = ids[i]
    BY <1>3
  <1>6. IsPiece(txt, more)
    <2> HIDE DEF txt, ids
    <2>1. QED BY <1>2, <1>4, <1>5 DEF IsPiece
  <1>7. QED BY <1>6 DEF more, e

LEMMA PieceOfMark ==
  ASSUME NEW pg \in Seq(Elements), NEW x \in Elements, x.kind \in Marks
  PROVE  IsPiece(<<Sentence(<<Len(pg) + 1, 0>>)>>, Append(pg, x))
  <1> DEFINE more == Append(pg, x)
             id == <<Len(pg) + 1, 0>>
             t == Sentence(id)
  <1>1. Len(more) = Len(pg) + 1 /\ more[Len(pg) + 1] = x /\ id \in Ids
    BY PageGrows DEF Ids
  <1> HIDE DEF more
  <1>2. PieceIn(more, Len(more)) = <<id>>
    BY <1>1, Zenon DEF PieceIn
  <1>3. t \in Toks /\ t.ref = 0 /\ t.id = id
    <2> HIDE DEF id
    <2>1. QED BY <1>1 DEF Sentence, Toks
  <1> HIDE DEF t, id
  <1>4. <<t>> \in Seq(Toks) /\ Len(<<t>>) = Len(<<id>>) /\ \A i \in 1..Len(<<t>>) : i = 1
    BY <1>3
  <1>5. <<t>>[1] = t /\ <<id>>[1] = id
    OBVIOUS
  <1>6. IsPiece(<<t>>, more)
    BY <1>2, <1>3, <1>4, <1>5 DEF IsPiece
  <1>7. QED BY <1>6 DEF more, t, id

LEMMA OpenListen ==
  ASSUME WalkInv, Len(stack) # 0
  PROVE  Listening(stack[Len(stack)].stream) = {i \in 1..Len(streams) : streams[i].active /\ streams[i].to = 0}
  <1>1. Len(stack) \in 1..Len(stack)
    BY SequenceLength DEF WalkInv, FramesOK
  <1>2. Listening(stack[Len(stack)].stream) = {i \in 1..Len(streams) : streams[i].active /\ Inside(stack, Len(stack), i)}
    BY <1>1, ListeningFacts DEF WalkInv
  <1>3. \A i \in 1..Len(streams) : streams[i].to = 0 <=> Inside(stack, Len(stack), i)
    BY DEF WalkInv, FramesOK
  <1>4. QED BY <1>2, <1>3

LEMMA StreamsFacts ==
  ASSUME WalkInv
  PROVE  /\ IsSequence(streams) /\ Len(streams) \in Nat /\ DOMAIN streams = 1..Len(streams)
         /\ IsSequence(stack) /\ Len(stack) \in Nat /\ DOMAIN stack = 1..Len(stack)
         /\ page \in Seq(Elements) /\ Len(page) \in Nat
         /\ \A i \in 1..Len(streams) : StreamOK(page, streams[i])
  BY SequenceLength DEF WalkInv, FramesOK, StreamsOK

\* The streams before and after an element.
AllFollow(pg, ss, ss2) ==
  IsSequence(ss2) /\ Len(ss2) = Len(ss) /\ \A i \in 1..Len(ss) : Follows(pg, ss[i], ss2[i])

LEMMA TextReaches ==
  ASSUME WalkInv, Len(stack) # 0, NEW x \in Elements, NEW txt, IsPiece(txt, Append(page, x))
  PROVE  AllFollow(Append(page, x), streams, StreamText(stack[Len(stack)].stream, txt))
  <1> DEFINE s == stack[Len(stack)].stream
             ss2 == StreamText(s, txt)
             Next2(i) == IF i \in Listening(s) THEN [streams[i] EXCEPT !.text = streams[i].text \o txt] ELSE streams[i]
  <1>1. ss2 = [i \in 1..Len(streams) |-> Next2(i)]
    BY StreamsFacts DEF StreamText
  <1>2. IsSequence(ss2) /\ Len(ss2) = Len(streams)
    <2>1. ss2 = [i \in 1..Len(streams) |-> ss2[i]]
      <3> HIDE DEF Next2, ss2
      <3>1. QED BY <1>1
    <2> HIDE DEF ss2
    <2>2. QED BY <2>1, StreamsFacts, MadeSequence
  <1>3. ASSUME NEW i \in 1..Len(streams) PROVE Follows(Append(page, x), streams[i], ss2[i])
    <2> DEFINE st == streams[i]
    <2>1. page \in Seq(Elements) /\ StreamOK(page, st)
      BY StreamsFacts
    <2>2. ss2[i] = Next2(i)
      <3> HIDE DEF Next2, ss2
      <3>1. QED BY <1>1
    <2>3. i \in Listening(s) <=> (st.active /\ st.to = 0)
      BY OpenListen
    <2> HIDE DEF st, s, ss2
    <2>4. CASE st.active /\ st.to = 0
      <3>1. Follows(Append(page, x), st, [st EXCEPT !.text = st.text \o txt])
        BY <2>1, <2>4, Heard
      <3>2. ss2[i] = [st EXCEPT !.text = st.text \o txt]
        BY <2>2, <2>3, <2>4 DEF st
      <3>3. QED BY <3>1, <3>2 DEF st
    <2>5. CASE ~(st.active /\ st.to = 0)
      <3>1. Follows(Append(page, x), st, st)
        BY <2>1, <2>5, Missed
      <3>2. ss2[i] = st
        BY <2>2, <2>3, <2>5 DEF st
      <3>3. QED BY <3>1, <3>2 DEF st
    <2>6. QED BY <2>4, <2>5
  <1>4. QED BY <1>2, <1>3 DEF AllFollow

LEMMA CodeReaches ==
  ASSUME WalkInv, Len(stack) # 0, NEW x \in Elements, x.n = 1, x.kind \notin Marks
  PROVE  AllFollow(Append(page, x), streams, StreamCode(stack[Len(stack)].stream, <<Len(page) + 1, 1>>))
  <1> DEFINE s == stack[Len(stack)].stream
             code == <<Len(page) + 1, 1>>
             ss2 == StreamCode(s, code)
             Coded(st) == [st EXCEPT !.text = Append(st.text, Tag(code, Len(st.codes) + 1)), !.codes = Append(st.codes, code)]
             Next2(i) == IF i \in Listening(s) THEN Coded(streams[i]) ELSE streams[i]
  <1>1. ss2 = [i \in 1..Len(streams) |-> Next2(i)]
    <2>1. \A i \in DOMAIN streams : StreamOK(page, streams[i])
      BY StreamsFacts
    <2>2. \A i \in DOMAIN streams :
            [streams[i] EXCEPT !.text = Append(@, Tag(code, Len(streams[i].codes) + 1)), !.codes = Append(@, code)]
              = Coded(streams[i])
      <3> SUFFICES ASSUME NEW i \in DOMAIN streams
                   PROVE  [streams[i] EXCEPT !.text = Append(@, Tag(code, Len(streams[i].codes) + 1)), !.codes = Append(@, code)]
                            = Coded(streams[i])
        OBVIOUS
      <3> DEFINE st == streams[i]
      <3>1. {"text", "codes"} \subseteq DOMAIN st
        BY <2>1 DEF StreamOK, StreamFields
      <3> HIDE DEF code
      <3>2. QED BY <3>1
    <2>3. QED BY <2>2, StreamsFacts DEF StreamCode
  <1>2. IsSequence(ss2) /\ Len(ss2) = Len(streams)
    <2>1. ss2 = [i \in 1..Len(streams) |-> ss2[i]]
      <3> HIDE DEF Next2, ss2
      <3>1. QED BY <1>1
    <2> HIDE DEF ss2
    <2>2. QED BY <2>1, StreamsFacts, MadeSequence
  <1>3. ASSUME NEW i \in 1..Len(streams) PROVE Follows(Append(page, x), streams[i], ss2[i])
    <2> DEFINE st == streams[i]
    <2>1. page \in Seq(Elements) /\ StreamOK(page, st)
      BY StreamsFacts
    <2>2. ss2[i] = Next2(i)
      <3> HIDE DEF Next2, ss2
      <3>1. QED BY <1>1
    <2>3. i \in Listening(s) <=> (st.active /\ st.to = 0)
      BY OpenListen
    <2> HIDE DEF st, s, ss2
    <2>4. CASE st.active /\ st.to = 0
      <3>1. Follows(Append(page, x), st, Coded(st))
        BY <2>1, <2>4, HeardCode
      <3>2. ss2[i] = Coded(st)
        <4> HIDE DEF Coded
        <4>1. QED BY <2>2, <2>3, <2>4 DEF st
      <3>3. QED BY <3>1, <3>2 DEF st
    <2>5. CASE ~(st.active /\ st.to = 0)
      <3>1. Follows(Append(page, x), st, st)
        BY <2>1, <2>5, Missed
      <3>2. ss2[i] = st
        <4> HIDE DEF Coded
        <4>1. QED BY <2>2, <2>3, <2>5 DEF st
      <3>3. QED BY <3>1, <3>2 DEF st
    <2>6. QED BY <2>4, <2>5
  <1>4. QED BY <1>2, <1>3 DEF AllFollow

LEMMA HereKeeps ==
  ASSUME WalkInv, Len(stack) # 0, NEW b
  PROVE  LET ks2 == [stack EXCEPT ![Len(stack)].builder = b]
         IN  /\ IsSequence(ks2) /\ Len(ks2) = Len(stack)
             /\ \A n \in 1..Len(stack) : "stream" \in DOMAIN ks2[n] /\ ks2[n].stream = stack[n].stream
  <1> DEFINE k == Len(stack)
             f == [stack[k] EXCEPT !.builder = b]
             ks2 == [stack EXCEPT ![k] = f]
  <1>1. k \in Nat /\ k \in 1..k /\ DOMAIN stack = 1..k /\ \A n \in 1..k : "stream" \in DOMAIN stack[n]
    BY StreamsFacts DEF WalkInv, FramesOK
  <1>2. "stream" \in DOMAIN f /\ f.stream = stack[k].stream
    BY <1>1
  <1> HIDE DEF f
  <1>3. DOMAIN ks2 = 1..k /\ ks2 = [n \in 1..k |-> ks2[n]] /\ ks2[k] = f /\ \A n \in 1..k : n # k => ks2[n] = stack[n]
    BY <1>1
  <1> HIDE DEF ks2
  <1>4. IsSequence(ks2) /\ Len(ks2) = k
    <2> HIDE DEF k
    <2>1. QED BY <1>1, <1>3, MadeSequence
  <1>5. \A n \in 1..k : "stream" \in DOMAIN ks2[n] /\ ks2[n].stream = stack[n].stream
    BY <1>1, <1>2, <1>3
  <1>6. QED BY <1>4, <1>5 DEF ks2, f

\* An element within a section.
LEMMA ReadKeeps ==
  ASSUME WalkInv, Len(stack) # 0, NEW x \in Elements, NEW b,
         AllFollow(Append(page, x), streams, streams'), page' = Append(page, x),
         stack' = [stack EXCEPT ![Len(stack)].builder = b]
  PROVE  WalkInv'
  <1>1. FramesOK(streams', stack')
    <2>1. /\ IsSequence(stack') /\ Len(stack') = Len(stack)
          /\ \A n \in 1..Len(stack) : "stream" \in DOMAIN stack'[n] /\ stack'[n].stream = stack[n].stream
      BY HereKeeps
    <2>2. /\ IsSequence(streams') /\ Len(streams') = Len(streams)
          /\ \A i \in 1..Len(streams) : streams'[i].parent = streams[i].parent /\ streams'[i].to = streams[i].to
      BY DEF AllFollow, Follows
    <2>3. QED BY <2>1, <2>2, FramesKept DEF WalkInv
  <1>2. StreamsOK(streams', page')
    BY PageGrows, StreamsFacts DEF AllFollow, Follows, StreamsOK
  <1>3. QED BY <1>1, <1>2 DEF WalkInv

LEMMA ReadTextKeeps ==
  ASSUME WalkInv, NEW n \in 1..(MaxLength + 1), NEW s, NEW u, ReadText(n, s, u)
  PROVE  WalkInv'
  <1> DEFINE x == [kind |-> "text", n |-> n]
             txt == [i \in 1..n |-> Sentence(<<Len(page) + 1, i>>)]
  <1>1. n \in Nat /\ n # 0
    BY ManualAssumption
  <1>2. x \in Elements /\ x.n = n /\ x.kind \notin Marks
    BY <1>1 DEF Elements, Marks
  <1>3. page \in Seq(Elements) /\ Len(stack) \in Nat
    BY StreamsFacts
  <1>4. /\ Len(stack) # 0 /\ page' = Append(page, x)
        /\ streams' = StreamText(stack[Len(stack)].stream, txt)
        /\ \E b : stack' = [stack EXCEPT ![Len(stack)].builder = b]
    <2>1. Top > 0 /\ Read(x) /\ streams' = StreamText(stack[Top].stream, txt)
      BY DEF ReadText, Element
    <2>2. \E b : Here(b)
      BY DEF ReadText
    <2>3. \E b : stack' = [stack EXCEPT ![Len(stack)].builder = b]
      BY <2>2 DEF Here, Top
    <2>4. Len(stack) # 0
      BY <1>3, <2>1 DEF Top
    <2>5. page' = Append(page, x)
      BY <2>1 DEF Read
    <2>6. streams' = StreamText(stack[Len(stack)].stream, txt)
      BY <2>1 DEF Top
    <2>7. QED BY <2>3, <2>4, <2>5, <2>6
  <1> HIDE DEF x
  <1>5. IsPiece(txt, Append(page, x))
    BY <1>1, <1>2, <1>3, PieceOfText
  <1> HIDE DEF txt
  <1>6. AllFollow(Append(page, x), streams, streams')
    BY <1>2, <1>4, <1>5, TextReaches
  <1>7. QED BY <1>2, <1>4, <1>6, ReadKeeps

LEMMA ReadCodeKeeps ==
  ASSUME WalkInv, ReadCode
  PROVE  WalkInv'
  <1> DEFINE x == [kind |-> "code", n |-> 1]
  <1>1. x \in Elements /\ x.n = 1 /\ x.kind \notin Marks
    BY DEF Elements, Marks
  <1>2. Len(stack) \in Nat
    BY StreamsFacts
  <1>3. /\ Len(stack) # 0 /\ page' = Append(page, x)
        /\ streams' = StreamCode(stack[Len(stack)].stream, <<Len(page) + 1, 1>>)
        /\ \E b : stack' = [stack EXCEPT ![Len(stack)].builder = b]
    <2>1. Top > 0 /\ Read(x) /\ streams' = StreamCode(stack[Top].stream, <<Len(page) + 1, 1>>)
      BY DEF ReadCode, Element
    <2>2. \E b : Here(b)
      BY DEF ReadCode
    <2>3. \E b : stack' = [stack EXCEPT ![Len(stack)].builder = b]
      BY <2>2 DEF Here, Top
    <2>4. Len(stack) # 0
      BY <1>2, <2>1 DEF Top
    <2>5. page' = Append(page, x)
      BY <2>1 DEF Read
    <2>6. streams' = StreamCode(stack[Len(stack)].stream, <<Len(page) + 1, 1>>)
      BY <2>1 DEF Top
    <2>7. QED BY <2>3, <2>4, <2>5, <2>6
  <1> HIDE DEF x
  <1>4. AllFollow(Append(page, x), streams, streams')
    BY <1>1, <1>3, CodeReaches
  <1>5. QED BY <1>1, <1>3, <1>4, ReadKeeps

\* An element that goes nowhere is an empty piece.
LEMMA SkipKeeps ==
  ASSUME WalkInv, SkipElement
  PROVE  WalkInv'
  <1> DEFINE x == [kind |-> "skip", n |-> 0]
             more == Append(page, x)
             n == 0
             none == [i \in 1..n |-> Sentence(<<Len(page) + 1, i>>)]
  <1>1. x \in Elements /\ x.n = n /\ x.kind \notin Marks /\ n \in Nat /\ none = <<>>
    BY DEF Elements, Marks
  <1>2. Len(stack) # 0 /\ page' = more /\ streams' = streams /\ stack' = stack /\ page \in Seq(Elements)
    BY StreamsFacts DEF SkipElement, Read, Top
  <1> HIDE DEF x, n
  <1>3. IsPiece(none, more)
    BY <1>1, <1>2, PieceOfText
  <1>4. ASSUME NEW i \in 1..Len(streams) PROVE StreamOK(more, streams[i])
    <2> DEFINE st == streams[i]
    <2>1. StreamOK(page, st)
      BY StreamsFacts
    <2> HIDE DEF st
    <2>2. CASE st.active /\ st.to = 0
      <3>1. Follows(more, st, [st EXCEPT !.text = st.text \o none])
        <4> HIDE DEF none
        <4>1. QED BY <1>1, <1>2, <1>3, <2>1, <2>2, Heard
      <3>2. st.text \in Seq(Toks) /\ "text" \in DOMAIN st
        BY <2>1, <2>2 DEF StreamOK, StreamFields, Reads
      <3> HIDE DEF more, none
      <3>3. st.text \o none = st.text
        BY <1>1, <3>2
      <3> DEFINE st2 == [st EXCEPT !.text = st.text \o none]
      <3>4. /\ DOMAIN st2 = DOMAIN st /\ st2.text = st.text /\ st2.header = st.header
            /\ st2.active = st.active /\ st2.codes = st.codes /\ st2.from = st.from /\ st2.to = st.to
        BY <2>1, <3>3 DEF StreamOK, StreamFields
      <3>5. StreamOK(more, st2)
        BY <3>1 DEF Follows
      <3> HIDE DEF st2
      <3>6. Span(more, st2) = Span(more, st)
        BY <3>4 DEF Span
      <3>7. QED BY <3>4, <3>5, <3>6 DEF StreamOK, st
    <2>3. CASE ~(st.active /\ st.to = 0)
      <3>1. Follows(more, st, st)
        BY <1>1, <1>2, <2>1, <2>3, Missed
      <3>2. QED BY <3>1 DEF Follows, st
    <2>4. QED BY <2>2, <2>3
  <1>5. more \in Seq(Elements)
    BY <1>1, <1>2
  <1> HIDE DEF more
  <1>6. StreamsOK(streams, page')
    BY <1>2, <1>4, <1>5 DEF StreamsOK
  <1>7. QED BY <1>2, <1>6 DEF WalkInv

LEMMA HeaderFacts ==
  ASSUME NEW level, NEW heading
  PROVE  IsHeader(SectionHeader(BlockHeader(level, heading)))
  <1> DEFINE head == BlockHeader(level, heading)
             own == Append([n \in DOMAIN stack |-> [level |-> stack[n].level, heading |-> stack[n].heading]],
                           [level |-> level, heading |-> heading])
             At(k) == {n \in DOMAIN own : Position(own[n].level) = k}
             Place(k) == IF k = 1 THEN "file" ELSE IF At(k) = {} THEN NoHead
                       ELSE own[CHOOSE n \in At(k) : \A m \in At(k) : m <= n].heading
  <1>1. Depth \in Nat
    BY ManualAssumption
  <1>2. head = [k \in 1..Depth |-> head[k]]
    <2>1. head = [k \in 1..Depth |-> Place(k)]
      BY DEF BlockHeader
    <2> HIDE DEF Place, head
    <2>2. QED BY <2>1
  <1> HIDE DEF head
  <1>3. IsSequence(head) /\ Len(head) = Depth
    BY <1>1, <1>2, MadeSequence
  <1>4. IsHeader(Present(head))
    BY <1>1, <1>3, PresentFacts
  <1>5. QED BY <1>4 DEF SectionHeader, head

\* The announcement of a section, within another or not.
LEMMA MarkReaches ==
  ASSUME WalkInv, NEW x \in Elements, x.kind \in Marks
  PROVE  AllFollow(Append(page, x), streams,
           IF Top = 0 THEN streams ELSE StreamText(stack[Top].stream, <<Sentence(<<Element, 0>>)>>))
  <1>1. CASE Top = 0
    <2>1. ASSUME NEW i \in 1..Len(streams) PROVE Follows(Append(page, x), streams[i], streams[i])
      <3>1. streams[i].to # 0
        <4>1. ~Inside(stack, 0, i)
          BY 1..0 = {} DEF Inside
        <4>2. QED BY <1>1, <4>1 DEF WalkInv, FramesOK, Top
      <3>2. page \in Seq(Elements) /\ StreamOK(page, streams[i])
        BY StreamsFacts
      <3>3. QED BY <3>1, <3>2, Missed
    <2>2. AllFollow(Append(page, x), streams, streams)
      BY <2>1, StreamsFacts DEF AllFollow
    <2>3. QED BY <1>1, <2>2
  <1>2. CASE Top # 0
    <2>1. IsPiece(<<Sentence(<<Element, 0>>)>>, Append(page, x))
      BY StreamsFacts, PieceOfMark DEF Element
    <2>2. AllFollow(Append(page, x), streams, StreamText(stack[Top].stream, <<Sentence(<<Element, 0>>)>>))
      BY <1>2, <2>1, TextReaches DEF Top
    <2>3. QED BY <1>2, <2>2
  <1>3. QED BY <1>1, <1>2

LEMMA OpenKeeps ==
  ASSUME WalkInv, NEW level, NEW heading, NEW example, OpenSection(level, heading, example)
  PROVE  WalkInv'
  <1> DEFINE x == [kind |-> "open", n |-> 0]
             more == Append(page, x)
             k == Len(stack)
             head == BlockHeader(level, heading)
             parent == IF Top = 0 THEN 0 ELSE stack[Top].stream
             marked == IF Top = 0 THEN streams ELSE StreamText(parent, <<Sentence(<<Element, 0>>)>>)
             shared == example /\ Top > 0
             st == Streamer(parent, SectionHeader(head), Element)
             ks == [n \in DOMAIN stack |-> IF n = Top THEN [stack[n] EXCEPT !.first = TRUE] ELSE stack[n]]
             f == [level |-> level, heading |-> heading, builder |-> BlockBuilder(head), first |-> FALSE,
                   stream |-> IF shared THEN parent ELSE Len(streams) + 1]
  <1>1. page' = more /\ stack' = Append(ks, f) /\ streams' = IF shared THEN marked ELSE Append(marked, st)
    BY DEF OpenSection, Read
  <1>2. x \in Elements /\ x.kind \in Marks
    BY DEF Elements, Marks
  <1>3. k \in Nat /\ DOMAIN stack = 1..k /\ IsSequence(stack) /\ Top = k /\ page \in Seq(Elements)
    BY StreamsFacts DEF Top
  <1>4. AllFollow(more, streams, marked)
    <2>1. CASE Top = 0
      BY <1>2, <2>1, MarkReaches
    <2>2. CASE Top # 0
      <3> HIDE DEF x
      <3>1. QED BY <1>2, <2>2, MarkReaches
    <2>3. QED BY <2>1, <2>2
  <1>5. IsSequence(ks) /\ Len(ks) = k
    <2> DEFINE e(n) == IF n = Top THEN [stack[n] EXCEPT !.first = TRUE] ELSE stack[n]
    <2>1. ks = [n \in 1..k |-> e(n)]
      BY <1>3
    <2> HIDE DEF e, ks
    <2>2. ks = [n \in 1..k |-> ks[n]]
      BY <2>1
    <2> HIDE DEF k
    <2>3. QED BY <1>3, <2>2, MadeSequence
  <1>6. ASSUME NEW n \in 1..k PROVE "stream" \in DOMAIN ks[n] /\ ks[n].stream = stack[n].stream
    <2>1. "stream" \in DOMAIN stack[n]
      BY DEF WalkInv, FramesOK
    <2>2. ks[n] = IF n = Top THEN [stack[n] EXCEPT !.first = TRUE] ELSE stack[n]
      BY <1>3
    <2> HIDE DEF ks
    <2>3. QED BY <2>1, <2>2
  <1>7. FramesOK(marked, ks)
    <2>1. /\ IsSequence(marked) /\ Len(marked) = Len(streams)
          /\ \A i \in 1..Len(streams) : marked[i].parent = streams[i].parent /\ marked[i].to = streams[i].to
      BY <1>4 DEF AllFollow, Follows
    <2> HIDE DEF marked, ks, k
    <2>2. QED BY <1>5, <1>6, <2>1, FramesKept DEF WalkInv, k
  <1>8. StreamsOK(marked, more)
    <2>1. more \in Seq(Elements)
      <3> HIDE DEF x
      <3>1. QED BY <1>2, <1>3, PageGrows
    <2> HIDE DEF marked, more
    <2>2. QED BY <1>4, <2>1 DEF AllFollow, Follows, StreamsOK
  <1>9. "stream" \in DOMAIN f /\ f.stream = (IF shared THEN parent ELSE Len(streams) + 1) /\ Len(marked) = Len(streams)
    <2>1. "stream" \in DOMAIN f /\ f.stream = (IF shared THEN parent ELSE Len(streams) + 1)
      <3> HIDE DEF head, shared, parent
      <3>1. QED OBVIOUS
    <2> HIDE DEF marked, f
    <2>2. QED BY <1>4, <2>1 DEF AllFollow
  <1>10. StreamOK(more, st) /\ st.parent = parent /\ st.to = 0
    <2>1. IsHeader(SectionHeader(head))
      BY HeaderFacts
    <2> HIDE DEF head, parent, x
    <2>2. QED BY <1>2, <1>3, <2>1, Begins DEF Element
  <1>11. CASE shared
    <2>1. k # 0 /\ f.stream = ks[k].stream
      <3>1. Top > 0 /\ k \in 1..k
        BY <1>3, <1>11
      <3>2. f.stream = stack[k].stream
        <4>1. Top # 0 /\ f.stream = parent
          <5> HIDE DEF f, parent
          <5>1. QED BY <1>3, <1>9, <1>11
        <4>2. parent = stack[k].stream
          BY <1>3, <4>1
        <4>3. QED BY <4>1, <4>2
      <3> HIDE DEF f, ks
      <3>3. QED BY <1>3, <1>6, <3>1, <3>2
    <2>2. FramesOK(marked, Append(ks, f))
      <3> HIDE DEF f, ks, marked, k
      <3>1. QED BY <1>5, <1>7, <1>9, <2>1, FramesShare
    <2>3. streams' = marked
      <3> HIDE DEF marked, st
      <3>1. QED BY <1>1, <1>11
    <2> HIDE DEF marked, ks, f, more
    <2>4. QED BY <1>1, <1>8, <2>2, <2>3 DEF WalkInv
  <1>12. CASE ~shared
    <2>1. parent = IF Len(ks) = 0 THEN 0 ELSE ks[Len(ks)].stream
      <3>1. CASE k = 0
        <4>1. parent = 0
          BY <1>3, <3>1
        <4> HIDE DEF ks, parent
        <4>2. QED BY <1>5, <3>1, <4>1
      <3>2. CASE k # 0
        <4>1. parent = stack[k].stream /\ k \in 1..k
          BY <1>3, <3>2
        <4> HIDE DEF ks, parent
        <4>2. QED BY <1>5, <1>6, <3>2, <4>1
      <3>3. QED BY <3>1, <3>2
    <2>2. streams' = Append(marked, st) /\ f.stream = Len(marked) + 1
      <3> HIDE DEF marked, st, f, parent
      <3>1. QED BY <1>1, <1>9, <1>12
    <2> HIDE DEF marked, st, f, ks, more, parent
    <2>3. FramesOK(Append(marked, st), Append(ks, f))
      BY <1>7, <1>9, <1>10, <2>1, <2>2, FramesOpen
    <2>4. StreamsOK(Append(marked, st), more)
      <3>1. /\ Len(marked) \in Nat /\ Len(Append(marked, st)) = Len(marked) + 1
            /\ Append(marked, st)[Len(marked) + 1] = st
            /\ \A i \in 1..Len(marked) : Append(marked, st)[i] = marked[i]
        BY <1>7, SequenceFacts DEF FramesOK
      <3>2. \A i \in 1..(Len(marked) + 1) : i \in 1..Len(marked) \/ i = Len(marked) + 1
        BY <3>1
      <3>3. QED BY <1>8, <1>10, <3>1, <3>2 DEF StreamsOK
    <2>5. QED BY <1>1, <2>2, <2>3, <2>4 DEF WalkInv
  <1>13. QED BY <1>11, <1>12

\* The end of a section: its stream ends unless it is that of the section around it,
\* which like those around it hears of the end.
LEMMA StreamsClose ==
  ASSUME WalkInv, CloseSection, NEW i \in 1..Len(streams)
  PROVE  LET own == stack[Top].stream
             open == streams[i].to = 0 /\ (i = own => Top > 1 /\ i = stack[Top - 1].stream)
         IN  /\ StreamOK(page', streams'[i]) /\ streams'[i].parent = streams[i].parent
             /\ streams'[i].to = 0 <=> open
             /\ IsSequence(streams') /\ Len(streams') = Len(streams)
  <1> DEFINE x == [kind |-> "close", n |-> 0]
             more == Append(page, x)
             k == Len(stack)
             own == stack[Top].stream
             shared == Top > 1 /\ own = stack[Top - 1].stream
             ended == IF shared THEN streams ELSE [streams EXCEPT ![own].to = Element]
             s == stack[Top - 1].stream
             mark == Sentence(<<Element, 0>>)
             st == streams[i]
             open == st.to = 0 /\ (i = own => Top > 1 /\ i = s)
             After(j) == IF j \in Listening(s) THEN [ended[j] EXCEPT !.text = Append(@, mark)] ELSE ended[j]
  <1>1. /\ page' = more /\ Top > 0
        /\ streams' = IF Top = 1 THEN ended ELSE [j \in DOMAIN streams |-> After(j)]
    BY DEF CloseSection, Read
  <1>2. x \in Elements /\ x.kind \in Marks
    BY DEF Elements, Marks
  <1>3. /\ k \in Nat /\ Top = k /\ k \in 1..k /\ page \in Seq(Elements) /\ Len(page) \in Nat
        /\ Len(streams) \in Nat /\ DOMAIN streams = 1..Len(streams) /\ StreamOK(page, st)
    BY <1>1, StreamsFacts DEF Top
  <1>4. /\ own \in 1..Len(streams)
        /\ st.to = 0 <=> Inside(stack, k, i)
    BY <1>3 DEF WalkInv, FramesOK
  <1>5. IsSequence(ended) /\ Len(ended) = Len(streams)
    <2>1. CASE shared
      BY <2>1, StreamsFacts
    <2>2. CASE ~shared
      <3>1. ended = [streams EXCEPT ![own] = [streams[own] EXCEPT !.to = Element]]
        BY <2>2
      <3> HIDE DEF own
      <3>2. DOMAIN ended = 1..Len(streams) /\ ended = [j \in 1..Len(streams) |-> ended[j]]
        BY <1>3, <3>1
      <3> HIDE DEF ended
      <3>3. QED BY <1>3, <3>2, MadeSequence
    <2>3. QED BY <2>1, <2>2
  <1>6. IsSequence(streams') /\ Len(streams') = Len(streams)
    <2>1. CASE Top = 1
      <3> HIDE DEF ended, After
      <3>1. QED BY <1>1, <1>5, <2>1
    <2>2. CASE Top # 1
      <3>1. streams' = [j \in 1..Len(streams) |-> After(j)]
        BY <1>1, <1>3, <2>2
      <3> HIDE DEF After
      <3>2. streams' = [j \in 1..Len(streams) |-> streams'[j]]
        BY <3>1
      <3>3. QED BY <1>3, <3>2, MadeSequence
    <2>3. QED BY <2>1, <2>2
  <1>7. streams'[i] = IF Top # 1 THEN After(i) ELSE ended[i]
    <2> HIDE DEF After, ended
    <2>1. QED BY <1>1, <1>3
  <1>8. Inside(stack, k, i) <=> Inside(stack, k - 1, i) \/ i = own
    <2>1. \A n \in 1..k : n \in 1..(k - 1) \/ n = k
      BY <1>3
    <2>2. \A n \in 1..(k - 1) : n \in 1..k
      BY <1>3
    <2>3. QED BY <1>3, <2>1, <2>2 DEF Inside
  <1>9. ASSUME k > 1 PROVE i \in Listening(s) <=> st.active /\ Inside(stack, k - 1, i)
    <2>1. k - 1 \in 1..k
      BY <1>3, <1>9
    <2>2. Listening(stack[k - 1].stream) = {j \in 1..Len(streams) : streams[j].active /\ Inside(stack, k - 1, j)}
      BY <2>1, ListeningFacts DEF WalkInv
    <2>3. QED BY <1>3, <2>2
  <1>10. Inside(stack, k - 1, i) /\ i = own => k > 1 /\ i = s
    <2>1. ASSUME NEW m \in 1..(k - 1), stack[m].stream = i, i = own PROVE k > 1 /\ i = s
      <3>1. FramesOK(streams, stack) /\ Len(stack) # 0 /\ m \in 1..(Len(stack) - 1)
            /\ stack[m].stream = stack[Len(stack)].stream
        BY <1>3, <2>1 DEF WalkInv
      <3>2. Len(stack) > 1 /\ stack[Len(stack)].stream = stack[Len(stack) - 1].stream
        BY <3>1, OwnIsLast
      <3>3. QED BY <1>3, <2>1, <3>2
    <2>2. QED BY <2>1 DEF Inside
  <1>11. Top = 1 \/ (Top # 1 /\ k > 1)
    BY <1>3
  <1>12. CASE i = own /\ ~shared
    <2>1. st.to = 0 /\ ~open /\ ~Inside(stack, k - 1, i)
      BY <1>3, <1>4, <1>8, <1>10, <1>12
    <2>2. ended[i] = [st EXCEPT !.to = Element]
      <3>1. ended = [streams EXCEPT ![own] = [streams[own] EXCEPT !.to = Element]]
        BY <1>12
      <3> HIDE DEF own, ended
      <3>2. QED BY <1>3, <1>12, <3>1
    <2>3. streams'[i] = ended[i]
      <3>1. CASE Top = 1
        BY <1>7, <3>1
      <3>2. CASE Top # 1
        <4>1. i \notin Listening(s)
          BY <1>9, <1>11, <2>1, <3>2
        <4>2. After(i) = ended[i]
          BY <4>1
        <4> HIDE DEF After, ended
        <4>3. QED BY <1>7, <3>2, <4>2
      <3>3. QED BY <3>1, <3>2
    <2>4. StreamOK(more, [st EXCEPT !.to = Len(page) + 1]) /\ [st EXCEPT !.to = Len(page) + 1].parent = st.parent
          /\ [st EXCEPT !.to = Len(page) + 1].to = Len(page) + 1
      <3> HIDE DEF x, st
      <3>1. QED BY <1>2, <1>3, <2>1, Ends
    <2>5. Len(page) + 1 # 0
      BY <1>3
    <2> HIDE DEF more, st, ended, open, own
    <2>6. StreamOK(page', streams'[i]) /\ streams'[i].parent = st.parent /\ (streams'[i].to = 0 <=> open)
      BY <1>1, <2>1, <2>2, <2>3, <2>4, <2>5 DEF Element
    <2>7. QED BY <1>6, <2>6 DEF st, open, own
  <1>13. CASE ~(i = own /\ ~shared)
    <2>1. ended[i] = st
      <3>1. CASE shared
        BY <3>1
      <3>2. CASE ~shared
        <4>1. ended = [streams EXCEPT ![own] = [streams[own] EXCEPT !.to = Element]] /\ i # own
          BY <1>13, <3>2
        <4> HIDE DEF own, ended
        <4>2. QED BY <1>3, <4>1
      <3>3. QED BY <3>1, <3>2
    <2>2. open <=> st.to = 0
      BY <1>13
    <2>3. CASE Top = 1
      <3>1. st.to # 0
        <4>1. ~shared /\ k - 1 = 0
          BY <1>3, <2>3
        <4>2. i # own /\ ~Inside(stack, 0, i)
          BY <1>13, <4>1, 1..0 = {} DEF Inside
        <4>3. QED BY <1>4, <1>8, <4>1, <4>2
      <3>2. Follows(more, st, st)
        <4> HIDE DEF x, st
        <4>1. QED BY <1>2, <1>3, <3>1, Missed
      <3>3. streams'[i] = st
        BY <1>7, <2>1, <2>3
      <3> HIDE DEF more, st, open
      <3>4. StreamOK(page', streams'[i]) /\ streams'[i].parent = st.parent /\ (streams'[i].to = 0 <=> open)
        BY <1>1, <2>2, <3>2, <3>3 DEF Follows
      <3>5. QED BY <1>6, <3>4 DEF st, open
    <2>4. CASE Top # 1
      <3>1. Inside(stack, k - 1, i) <=> st.to = 0
        <4>1. i = own => Inside(stack, k - 1, i)
          <5>1. SUFFICES ASSUME i = own PROVE Inside(stack, k - 1, i)
            OBVIOUS
          <5>2. k > 1 /\ stack[k - 1].stream = i
            BY <1>3, <1>13, <5>1
          <5>3. k - 1 \in 1..(k - 1)
            BY <1>3, <5>2
          <5>4. QED BY <5>2, <5>3 DEF Inside
        <4>2. QED BY <1>4, <1>8, <4>1
      <3>2. i \in Listening(s) <=> st.active /\ st.to = 0
        BY <1>9, <1>11, <2>4, <3>1
      <3>3. streams'[i] = After(i)
        BY <1>7, <2>4
      <3>4. CASE st.active /\ st.to = 0
        <4>1. Reads(st.text, st.codes, Stretch(page, st.from, Span(page, st)))
          <5> HIDE DEF st
          <5>1. QED BY <1>3, <3>4 DEF StreamOK
        <4>2. st.text \in Seq(Toks) /\ IsPiece(<<mark>>, more)
          <5>1. IsPiece(<<mark>>, more)
            <6> HIDE DEF x
            <6>1. QED BY <1>2, <1>3, PieceOfMark DEF Element
          <5>2. QED BY <4>1, <5>1 DEF Reads
        <4>3. mark \in Toks
          <5>1. <<Element, 0>> \in Ids
            BY <1>3 DEF Ids, Element
          <5>2. QED BY <5>1 DEF Sentence, Toks
        <4>4. Append(st.text, mark) = st.text \o <<mark>>
          <5> HIDE DEF st, mark
          <5>1. st.text \in Seq(Toks)
            BY <4>2
          <5>2. QED BY <4>3, <5>1, AppendIsConcat
        <4>5. "text" \in DOMAIN st
          <5> HIDE DEF st
          <5>1. QED BY <1>3 DEF StreamOK, StreamFields
        <4>6. After(i) = [st EXCEPT !.text = Append(st.text, mark)]
          <5>1. After(i) = [ended[i] EXCEPT !.text = Append(@, mark)]
            BY <3>2, <3>4
          <5> HIDE DEF After, ended, st, mark
          <5>2. QED BY <2>1, <4>5, <5>1
        <4>7. Follows(more, st, [st EXCEPT !.text = st.text \o <<mark>>])
          <5> HIDE DEF x, st, mark
          <5>1. QED BY <1>2, <1>3, <3>4, <4>2, Heard
        <4> HIDE DEF more, st, open, After, mark
        <4>8. Follows(more, st, streams'[i])
          BY <3>3, <4>4, <4>6, <4>7
        <4>9. StreamOK(page', streams'[i]) /\ streams'[i].parent = st.parent /\ (streams'[i].to = 0 <=> open)
          BY <1>1, <2>2, <4>8 DEF Follows
        <4>10. QED BY <1>6, <4>9 DEF st, open
      <3>5. CASE ~(st.active /\ st.to = 0)
        <4>1. Follows(more, st, st)
          <5> HIDE DEF x, st
          <5>1. QED BY <1>2, <1>3, <3>5, Missed
        <4>2. After(i) = ended[i]
          BY <3>2, <3>5
        <4>3. streams'[i] = st
          <5> HIDE DEF After, ended, st
          <5>1. QED BY <2>1, <3>3, <4>2
        <4> HIDE DEF more, st, open
        <4>4. StreamOK(page', streams'[i]) /\ streams'[i].parent = st.parent /\ (streams'[i].to = 0 <=> open)
          BY <1>1, <2>2, <4>1, <4>3 DEF Follows
        <4>5. QED BY <1>6, <4>4 DEF st, open
      <3>6. QED BY <3>4, <3>5
    <2>5. QED BY <2>3, <2>4
  <1>14. QED BY <1>12, <1>13

LEMMA CloseKeeps ==
  ASSUME WalkInv, CloseSection
  PROVE  WalkInv'
  <1> DEFINE x == [kind |-> "close", n |-> 0]
             k == Len(stack)
             own == stack[Top].stream
             open(i) == streams[i].to = 0 /\ (i = own => Top > 1 /\ i = stack[Top - 1].stream)
             chunks == PushBlock(stack[Top].builder).siblings
             Frame(n) == IF chunks = <<>> \/ ~stack[n].first THEN stack[n]
                         ELSE [stack[n] EXCEPT !.first = FALSE, !.builder = PushChild(@, chunks[1])]
  <1>1. page' = Append(page, x) /\ Top > 0 /\ stack' = [n \in 1..(Top - 1) |-> Frame(n)]
    BY DEF CloseSection, Read
  <1>2. k \in Nat /\ Top = k /\ k \in 1..k /\ k - 1 \in Nat /\ page \in Seq(Elements) /\ Len(streams) \in Nat
    <2>1. k \in Nat /\ page \in Seq(Elements) /\ Len(streams) \in Nat
      BY StreamsFacts
    <2>2. Top = k /\ Top > 0
      BY <1>1 DEF Top
    <2>3. QED BY <2>1, <2>2
  <1>3. x \in Elements
    BY DEF Elements
  <1>4. own \in 1..Len(streams)
    BY <1>2 DEF WalkInv, FramesOK
  <1>5. ASSUME NEW i \in 1..Len(streams)
        PROVE  /\ StreamOK(page', streams'[i]) /\ streams'[i].parent = streams[i].parent
               /\ streams'[i].to = 0 <=> open(i)
               /\ IsSequence(streams') /\ Len(streams') = Len(streams)
    BY StreamsClose
  <1>6. IsSequence(streams') /\ Len(streams') = Len(streams)
    BY <1>4, <1>5
  <1>7. IsSequence(stack') /\ Len(stack') = k - 1
    <2> HIDE DEF Frame, k
    <2>1. stack' = [n \in 1..(k - 1) |-> stack'[n]]
      BY <1>1, <1>2
    <2>2. QED BY <1>2, <2>1, MadeSequence
  <1>8. ASSUME NEW n \in 1..(k - 1) PROVE "stream" \in DOMAIN stack'[n] /\ stack'[n].stream = stack[n].stream
    <2>1. stack'[n] = Frame(n)
      <3> HIDE DEF Frame, k
      <3>1. QED BY <1>1, <1>2
    <2>2. "stream" \in DOMAIN stack[n]
      <3>1. n \in 1..k
        BY <1>2
      <3>2. QED BY <3>1 DEF WalkInv, FramesOK
    <2>3. CASE chunks = <<>> \/ ~stack[n].first
      BY <2>1, <2>2, <2>3
    <2>4. CASE ~(chunks = <<>> \/ ~stack[n].first)
      <3> DEFINE f == stack[n]
                 c == chunks[1]
      <3>1. stack'[n] = [f EXCEPT !.first = FALSE, !.builder = PushChild(@, c)]
        <4> HIDE DEF chunks
        <4>1. QED BY <2>1, <2>4
      <3>2. "stream" \in DOMAIN f
        BY <2>2
      <3> HIDE DEF f, c
      <3>3. "stream" \in DOMAIN stack'[n] /\ stack'[n].stream = f.stream
        BY <3>1, <3>2
      <3>4. QED BY <3>3 DEF f
    <2>5. QED BY <2>3, <2>4
  <1>9. FramesOK(streams', stack')
    <2>1. FramesOK(streams, stack) /\ Len(stack) # 0
      <3>1. k # 0
        BY <1>2
      <3>2. QED BY <3>1 DEF WalkInv
    <2>2. \A i \in 1..Len(streams) :
            streams'[i].to = 0 <=> /\ streams[i].to = 0
                                   /\ i = stack[Len(stack)].stream => Len(stack) > 1 /\ i = stack[Len(stack) - 1].stream
      BY <1>2, <1>5
    <2> HIDE DEF open, own
    <2>3. QED BY <1>5, <1>6, <1>7, <1>8, <2>1, <2>2, FramesClose
  <1>10. StreamsOK(streams', page')
    <2>1. page' \in Seq(Elements)
      <3> HIDE DEF x
      <3>1. QED BY <1>1, <1>2, <1>3, PageGrows
    <2>2. QED BY <1>5, <1>6, <2>1 DEF StreamsOK
  <1>11. QED BY <1>9, <1>10 DEF WalkInv

LEMMA ForgetKeeps == Forget => WalkInv'
  <1> SUFFICES ASSUME Forget PROVE WalkInv'
    OBVIOUS
  <1>1. streams' = <<>> /\ page' = <<>> /\ stack' = <<>>
    BY DEF Forget
  <1>2. IsSequence(<<>>) /\ Len(<<>>) = 0 /\ 1..0 = {}
    <2>1. <<>> \in Seq({})
      OBVIOUS
    <2>2. QED BY <2>1 DEF IsSequence
  <1>3. FramesOK(<<>>, <<>>)
    BY <1>2 DEF FramesOK
  <1>4. StreamsOK(<<>>, <<>>)
    BY <1>2 DEF StreamsOK
  <1>5. QED BY <1>1, <1>3, <1>4 DEF WalkInv

LEMMA InitWalk == BuildInit => WalkInv
  <1> SUFFICES ASSUME BuildInit PROVE WalkInv
    OBVIOUS
  <1>1. streams = <<>> /\ page = <<>> /\ stack = <<>>
    BY DEF BuildInit
  <1>2. IsSequence(<<>>) /\ Len(<<>>) = 0 /\ 1..0 = {}
    <2>1. <<>> \in Seq({})
      OBVIOUS
    <2>2. QED BY <2>1 DEF IsSequence
  <1>3. FramesOK(<<>>, <<>>)
    BY <1>2 DEF FramesOK
  <1>4. StreamsOK(<<>>, <<>>)
    BY <1>2 DEF StreamsOK
  <1>5. QED BY <1>1, <1>3, <1>4 DEF WalkInv

LEMMA WalkKeeps == ASSUME WalkInv, Walk PROVE WalkInv'
  BY ReadTextKeeps, ReadCodeKeeps, SkipKeeps, OpenKeeps, CloseKeeps DEF Walk

-----------------------------------------------------------------------------
(* The rows that are stored. *)

SectionsOf(ss) == FlattenSeq([i \in DOMAIN ss |-> IF ss[i].active THEN <<ss[i]>> ELSE <<>>])
RowIn(pg, st) ==
  [headers |-> Padded(st.header), body |-> Expand(st.text, st.codes),
   whole |-> Stretch(pg, st.from, st.to - st.from - 1)]
RowOf(ss, pg, n) == RowIn(pg, SectionsOf(ss)[n])
RowOK(row) == row.body = row.whole /\ \E h : IsHeader(h) /\ row.headers = Padded(h)

LEMMA RowIs == \A n : Row(Sections[n]) = RowOf(streams, page, n)
  <1>1. Sections = SectionsOf(streams)
    BY DEF Sections, SectionsOf
  <1>2. \A from, to : Between(from, to) = Stretch(page, from, to - from - 1)
    BY DEF Between, Stretch, PieceIn, Marks
  <1>3. QED BY <1>1, <1>2 DEF Row, RowOf, RowIn

LEMMA SectionParts ==
  ASSUME WalkInv
  PROVE  LET A == {streams[i] : i \in 1..Len(streams)}
             parts == [i \in 1..Len(streams) |-> IF streams[i].active THEN <<streams[i]>> ELSE <<>>]
         IN  /\ Sections = FlattenSeq(parts) /\ SectionsOf(streams) = FlattenSeq(parts)
             /\ Sections \in Seq(A) /\ \A j \in 1..Len(Sections) : \E i \in 1..Len(streams) : parts[i] = <<Sections[j]>>
  <1> DEFINE l == Len(streams)
             A == {streams[i] : i \in 1..l}
             part(i) == IF streams[i].active THEN <<streams[i]>> ELSE <<>>
             parts == [i \in 1..l |-> part(i)]
             flat == FlattenSeq(parts)
  <1>1. l \in Nat /\ DOMAIN streams = 1..l
    BY StreamsFacts
  <1>2. parts \in Seq(Seq(A)) /\ Len(parts) = l /\ \A i \in 1..l : Len(parts[i]) <= 1
    <2>1. ASSUME NEW i \in 1..l PROVE part(i) \in Seq(A) /\ Len(part(i)) <= 1
      <3>1. streams[i] \in A
        OBVIOUS
      <3> HIDE DEF A
      <3>2. QED BY <3>1
    <2> HIDE DEF part, l, A
    <2>2. QED BY <1>1, <2>1
  <1>3. Sections = flat /\ SectionsOf(streams) = flat
    BY <1>1 DEF Sections, SectionsOf
  <1> HIDE DEF A
  <1>4. flat \in Seq(A) /\ \A j \in 1..Len(flat) : \E i \in 1..l : parts[i] = <<flat[j]>>
    <2> HIDE DEF parts, l
    <2>1. QED BY <1>2, FlattenKeeps
  <1>5. QED
    <2> HIDE DEF flat
    <2>1. QED BY <1>3, <1>4 DEF flat, A

LEMMA SectionsLength == WalkInv => Len(Sections) \in Nat
  BY SectionParts

LEMMA RowIsOK ==
  ASSUME WalkInv, stack = <<>>, NEW n \in 1..Len(Sections)
  PROVE  RowOK(Row(Sections[n]))
  <1> DEFINE l == Len(streams)
             part(i) == IF streams[i].active THEN <<streams[i]>> ELSE <<>>
             parts == [i \in 1..l |-> part(i)]
             flat == FlattenSeq(parts)
  <1>1. l \in Nat /\ DOMAIN streams = 1..l
    BY StreamsFacts
  <1>2. Sections = flat /\ SectionsOf(streams) = flat
    BY SectionParts
  <1>3. PICK i \in 1..l : parts[i] = <<flat[n]>>
    <2>1. \A j \in 1..Len(Sections) : \E i \in 1..l : parts[i] = <<Sections[j]>>
      BY SectionParts
    <2> HIDE DEF flat, parts, l
    <2>2. QED BY <1>2, <2>1
  <1> DEFINE st == streams[i]
  <1>4. st.active /\ flat[n] = st
    <2>1. part(i) = <<flat[n]>>
      <3> HIDE DEF flat, part
      <3>1. QED BY <1>3
    <2> HIDE DEF flat
    <2>2. st.active
      BY <2>1
    <2>3. <<st>> = <<flat[n]>>
      BY <2>1, <2>2
    <2> HIDE DEF st
    <2>4. QED BY <2>2, <2>3
  <1>5. StreamOK(page, st) /\ st.to # 0
    <2>1. ~Inside(stack, Len(stack), i)
      BY 1..0 = {} DEF Inside
    <2>2. QED BY <2>1, StreamsFacts DEF WalkInv, FramesOK
  <1>6. Row(Sections[n]) = RowIn(page, st)
    <2> HIDE DEF flat, st
    <2>1. QED BY <1>2, <1>4, RowIs DEF RowOf
  <1> HIDE DEF st
  <1>7. Expand(st.text, st.codes) = Stretch(page, st.from, st.to - st.from - 1)
    <2>1. Reads(st.text, st.codes, Stretch(page, st.from, Span(page, st)))
      BY <1>4, <1>5 DEF StreamOK
    <2>2. Span(page, st) = st.to - st.from - 1
      BY <1>5 DEF Span
    <2>3. QED BY <2>1, <2>2 DEF Reads
  <1>8. IsHeader(st.header)
    BY <1>5 DEF StreamOK
  <1>9. RowIn(page, st).body = RowIn(page, st).whole /\ RowIn(page, st).headers = Padded(st.header)
    BY <1>7 DEF RowIn
  <1>10. QED BY <1>6, <1>8, <1>9 DEF RowOK

-----------------------------------------------------------------------------
(* The builds *)

BuildStates == {"page", "section", "keywords", "built"}
\* What is stored is what the page had, and what can be found is stored.
ManualOK(m) ==
  /\ {"backend", "documents", "lost", "sections", "keywords"} \subseteq DOMAIN m
  /\ m.keywords \subseteq m.sections /\ \A row \in m.sections : RowOK(row)
BuilderOK(k, m, ss, pg, ks) ==
  /\ k.at \in {"section", "keywords"} => ks = <<>> /\ k.n \in Nat /\ k.n > 0
  /\ k.at = "keywords" => RowOf(ss, pg, k.n) \in m.sections
Alone(p) == \A q \in Procs : q # p => client[q].at = "off"
BuildInv ==
  /\ ManualOK(manual)
  /\ \A p \in Procs : client[p].at \in BuildStates =>
       Building /\ Alone(p) /\ BuilderOK(client[p], manual, streams, page, stack)

LEMMA InitBuild == Init => BuildInv
  BY DEF Init, BuildInit, BuildInv, ManualOK, BuildStates, Off

\* A process that does not build goes on.
LEMMA BuildWaits ==
  ASSUME BuildInv, NEW p \in Procs, \A q \in Procs : q # p => client'[q] = client[q],
         client'[p].at \notin BuildStates, client[p].at # "off" \/ ~Building, UNCHANGED buildVars
  PROVE  BuildInv'
  <1>1. manual' = manual
    BY DEF buildVars
  <1>2. ASSUME NEW q \in Procs, client'[q].at \in BuildStates PROVE FALSE
    <2>1. q # p /\ client[q].at \in BuildStates
      BY <1>2
    <2>2. Building /\ client[p].at = "off"
      BY <2>1 DEF BuildInv, Alone
    <2>3. QED BY <2>2
  <1>3. QED BY <1>1, <1>2 DEF BuildInv

LEMMA BuildStays ==
  ASSUME BuildInv, client' = client, UNCHANGED buildVars
  PROVE  BuildInv'
  BY DEF BuildInv, buildVars, Building, Alone

\* The process that builds goes on.
LEMMA BuilderGoes ==
  ASSUME NEW p \in Procs, Alone(p), \A q \in Procs : q # p => client'[q] = client[q],
         ManualOK(manual'), manual'.backend # "none",
         BuilderOK(client'[p], manual', streams', page', stack')
  PROVE  BuildInv'
  <1>1. Alone(p)' /\ Building'
    BY DEF Alone, Building
  <1>2. ASSUME NEW q \in Procs, client'[q].at \in BuildStates PROVE q = p
    <2>1. "off" \notin BuildStates
      BY DEF BuildStates
    <2>2. QED BY <1>2, <2>1 DEF Alone
  <1>3. QED BY <1>1, <1>2 DEF BuildInv

LEMMA BuilderGoesTo ==
  ASSUME Inv, NEW p \in Procs, Alone(p), NEW k, client' = [client EXCEPT ![p] = k],
         ManualOK(manual'), manual'.backend # "none", BuilderOK(k, manual', streams', page', stack')
  PROVE  BuildInv'
  <1>1. client'[p] = k /\ \A q \in Procs : q # p => client'[q] = client[q]
    BY ClientFacts
  <1>2. QED BY <1>1, BuilderGoes

LEMMA BuilderFacts ==
  ASSUME BuildInv, NEW p \in Procs, client[p].at \in BuildStates
  PROVE  /\ Alone(p) /\ ManualOK(manual) /\ manual.backend # "none"
         /\ BuilderOK(client[p], manual, streams, page, stack)
  BY DEF BuildInv, Building

LEMMA StartBuilds == ASSUME Inv, BuildInv, NEW p \in Procs, NEW b \in {"postgres", "chroma"}, StartBuild(p, b)
                     PROVE  BuildInv'
  <1> DEFINE k == [Off EXCEPT !.at = "page"]
  <1>1. client' = [client EXCEPT ![p] = k] /\ Alone(p)
    BY DEF StartBuild, Start, Alone
  <1>2. manual' = [manual EXCEPT !.backend = b, !.documents = {}, !.lost = {}]
    BY DEF StartBuild
  <1>3. ManualOK(manual)
    BY DEF BuildInv
  <1>4. ManualOK(manual') /\ manual'.backend = b
    BY <1>2, <1>3 DEF ManualOK
  <1>5. k.at = "page"
    BY DEF Off
  <1> HIDE DEF k
  <1>6. BuilderOK(k, manual', streams', page', stack')
    BY <1>5 DEF BuilderOK
  <1>7. QED BY <1>1, <1>4, <1>6, BuilderGoesTo

LEMMA EmbedOK == ASSUME ManualOK(manual), NEW chunks, Embed(chunks)
                 PROVE  ManualOK(manual') /\ manual'.backend = manual.backend /\ manual'.sections = manual.sections
  <1>1. PICK failed \in SUBSET ToSet(chunks) :
          manual' = [manual EXCEPT !.documents = manual.documents \cup Documents(ToSet(chunks) \ failed),
                                   !.lost = manual.lost \cup Documents(failed)]
    BY DEF Embed, ManualOK
  <1>2. QED BY <1>1 DEF ManualOK

LEMMA WalkPageBuilds == ASSUME Inv, BuildInv, NEW p \in Procs, WalkPage(p) PROVE BuildInv'
  <1>1. client[p].at = "page" /\ client' = client /\ Walk
    BY DEF WalkPage
  <1>2. Alone(p) /\ ManualOK(manual) /\ manual.backend # "none"
    BY <1>1, BuilderFacts DEF BuildStates
  <1>3. ManualOK(manual') /\ manual'.backend = manual.backend
    <2>1. CASE manual' = manual
      BY <1>2, <2>1
    <2>2. CASE CloseSection
      <3>1. \E chunks : Embed(chunks)
        BY <2>2 DEF CloseSection
      <3>2. QED BY <1>2, <3>1, EmbedOK
    <2>3. QED BY <1>1, <2>1, <2>2 DEF Walk
  <1>4. BuilderOK(client'[p], manual', streams', page', stack')
    BY <1>1 DEF BuilderOK
  <1>5. QED BY <1>1, <1>2, <1>3, <1>4, BuilderGoes

LEMMA EndPageBuilds == ASSUME Inv, BuildInv, NEW p \in Procs, EndPage(p) PROVE BuildInv'
  <1> DEFINE k == [client[p] EXCEPT !.at = "section", !.n = 1]
  <1>1. client[p].at = "page" /\ stack = <<>> /\ client' = [client EXCEPT ![p] = k] /\ UNCHANGED buildVars
    BY ClientFacts DEF EndPage
  <1>2. Alone(p) /\ ManualOK(manual) /\ manual.backend # "none"
    BY <1>1, BuilderFacts DEF BuildStates
  <1>3. k.at = "section" /\ k.n = 1
    BY ClientFacts, OffFacts
  <1>4. manual' = manual /\ stack' = stack
    BY <1>1 DEF buildVars
  <1> HIDE DEF k
  <1>5. BuilderOK(k, manual', streams', page', stack')
    BY <1>1, <1>3, <1>4 DEF BuilderOK
  <1>6. QED BY <1>1, <1>2, <1>4, <1>5, BuilderGoesTo

LEMMA OffBuilds ==
  ASSUME Inv, BuildInv, NEW p \in Procs, client[p].at # "off", client' = [client EXCEPT ![p] = Off], manual' = manual
  PROVE  BuildInv'
  <1>1. client'[p] = Off /\ \A q \in Procs : q # p => client'[q] = client[q]
    BY ClientFacts
  <1>2. ASSUME NEW q \in Procs, client'[q].at \in BuildStates PROVE FALSE
    <2>1. q # p /\ client[q].at \in BuildStates
      BY <1>1, <1>2, OffFacts DEF BuildStates
    <2>2. QED BY <2>1 DEF BuildInv, Alone
  <1>3. QED BY <1>2 DEF BuildInv

LEMMA SectionBuilds == ASSUME Inv, WalkInv, BuildInv, NEW p \in Procs, AddManualSection(p) PROVE BuildInv'
  <1> DEFINE n == client[p].n
             row == Row(Sections[n])
  <1>1. client[p].at = "section" /\ n <= Len(Sections)
    BY DEF AddManualSection
  <1>2. Alone(p) /\ ManualOK(manual) /\ manual.backend # "none" /\ stack = <<>>
        /\ n \in Nat /\ n > 0
    BY <1>1, BuilderFacts DEF BuildStates, BuilderOK
  <1>3. CASE Rejects(row)
    <2>1. client' = [client EXCEPT ![p] = Off] /\ manual' = manual
      BY <1>3 DEF AddManualSection
    <2>2. QED BY <1>1, <2>1, OffBuilds
  <1>4. CASE ~Rejects(row)
    <2>1. /\ manual' = [manual EXCEPT !.sections = manual.sections \cup {row}]
          /\ streams' = streams /\ page' = page /\ stack' = stack
      <3>1. AddSection(row) /\ UNCHANGED <<streams, page, stack, buffer>>
        BY <1>4 DEF AddManualSection
      <3> HIDE DEF row
      <3>2. manual' = [manual EXCEPT !.sections = manual.sections \cup {row}]
        BY <1>2, <3>1 DEF AddSection, ManualOK
      <3>3. QED BY <3>1, <3>2
    <2>2. RowOK(row)
      <3>1. n \in 1..Len(Sections)
        BY <1>1, <1>2, SectionsLength
      <3>2. QED BY <1>2, <3>1, RowIsOK
    <2>3. ManualOK(manual') /\ manual'.backend = manual.backend /\ manual'.sections = manual.sections \cup {row}
      <3> HIDE DEF row
      <3>1. QED BY <1>2, <2>1, <2>2 DEF ManualOK
    <2>4. row = RowOf(streams', page', n)
      BY <2>1, RowIs
    <2>5. PICK k : client' = [client EXCEPT ![p] = k] /\ k.at \in {"section", "keywords"} /\ (k.at = "keywords" => k.n = n)
                  /\ k.n \in {n, n + 1}
      <3>1. CASE manual.backend = "chroma"
        <4>1. client' = [client EXCEPT ![p] = [client[p] EXCEPT !.at = "keywords"]]
          BY <1>4, <3>1, ClientFacts DEF AddManualSection
        <4>2. [client[p] EXCEPT !.at = "keywords"].at = "keywords" /\ [client[p] EXCEPT !.at = "keywords"].n = n
          BY ClientFacts, OffFacts
        <4>3. QED BY <4>1, <4>2
      <3>2. CASE manual.backend # "chroma"
        <4>1. client' = [client EXCEPT ![p] = [client[p] EXCEPT !.n = n + 1]]
          BY <1>4, <3>2, ClientFacts, OffFacts DEF AddManualSection
        <4>2. [client[p] EXCEPT !.n = n + 1].at = "section" /\ [client[p] EXCEPT !.n = n + 1].n = n + 1
          BY <1>1, ClientFacts, OffFacts
        <4>3. QED BY <4>1, <4>2
      <3>3. QED BY <3>1, <3>2
    <2> HIDE DEF row, n
    <2>6. k.n \in Nat /\ k.n > 0
      BY <1>2, <2>5
    <2>7. BuilderOK(k, manual', streams', page', stack')
      BY <1>2, <2>1, <2>3, <2>4, <2>5, <2>6 DEF BuilderOK
    <2>8. QED BY <1>2, <2>3, <2>5, <2>7, BuilderGoesTo
  <1>5. QED BY <1>3, <1>4

LEMMA KeywordsBuild == ASSUME Inv, WalkInv, BuildInv, NEW p \in Procs, AddToKeywords(p) PROVE BuildInv'
  <1> DEFINE n == client[p].n
             row == Row(Sections[n])
             k == [client[p] EXCEPT !.at = "section", !.n = n + 1]
  <1>1. /\ client[p].at = "keywords" /\ AddKeywords(row) /\ stack' = stack
    BY DEF AddToKeywords
  <1>2. Alone(p) /\ ManualOK(manual) /\ manual.backend # "none" /\ stack = <<>>
        /\ n \in Nat /\ n > 0 /\ RowOf(streams, page, n) \in manual.sections
    BY <1>1, BuilderFacts DEF BuildStates, BuilderOK
  <1>3. row \in manual.sections
    BY <1>2, RowIs
  <1>4. ManualOK(manual') /\ manual'.backend = manual.backend
    <2> HIDE DEF row
    <2>1. manual' = [manual EXCEPT !.keywords = manual.keywords \cup {row}]
      BY <1>1, <1>2 DEF AddKeywords, ManualOK
    <2>2. QED BY <1>2, <1>3, <2>1 DEF ManualOK
  <1>5. client' = [client EXCEPT ![p] = k]
    <2>1. client' = [client EXCEPT ![p].at = "section", ![p].n = client[p].n + 1]
      BY ClientFacts, OffFacts DEF AddToKeywords
    <2>2. QED BY <2>1, ClientFacts
  <1>6. k.at = "section" /\ k.n = n + 1 /\ n + 1 > 0 /\ n + 1 \in Nat
    <2>1. n + 1 > 0 /\ n + 1 \in Nat
      BY <1>2
    <2>2. QED BY <2>1, ClientFacts, OffFacts
  <1> HIDE DEF k
  <1>7. BuilderOK(k, manual', streams', page', stack')
    BY <1>1, <1>2, <1>6 DEF BuilderOK
  <1>8. QED BY <1>2, <1>4, <1>5, <1>7, BuilderGoesTo

LEMMA EmbedRestBuilds == ASSUME Inv, BuildInv, NEW p \in Procs, EmbedRest(p) PROVE BuildInv'
  <1> DEFINE k == [client[p] EXCEPT !.at = "built"]
  <1>1. client[p].at = "section" /\ Embed(buffer) /\ client' = [client EXCEPT ![p] = k]
    BY ClientFacts DEF EmbedRest, Goto
  <1>2. Alone(p) /\ ManualOK(manual) /\ manual.backend # "none"
    BY <1>1, BuilderFacts DEF BuildStates
  <1>3. ManualOK(manual') /\ manual'.backend # "none"
    BY <1>1, <1>2, EmbedOK
  <1>4. k.at = "built"
    BY ClientFacts, OffFacts
  <1> HIDE DEF k
  <1>5. BuilderOK(k, manual', streams', page', stack')
    BY <1>4 DEF BuilderOK
  <1>6. QED BY <1>1, <1>2, <1>3, <1>5, BuilderGoesTo

LEMMA NextWalk == WalkInv /\ [Next]_vars => WalkInv'
  <1> SUFFICES ASSUME WalkInv, [Next]_vars PROVE WalkInv'
    OBVIOUS
  <1>1. ASSUME streams' = streams, page' = page, stack' = stack PROVE WalkInv'
    BY <1>1 DEF WalkInv
  <1>2. CASE UNCHANGED vars
    BY <1>1, <1>2 DEF vars, buildVars
  <1>3. ASSUME NEW p \in Procs, WalkPage(p) PROVE WalkInv'
    BY <1>3, WalkKeeps DEF WalkPage
  <1>4. ASSUME NEW p \in Procs, AddManualSection(p) \/ EndBuild(p) \/ Kill(p) PROVE WalkInv'
    <2>1. Forget \/ UNCHANGED <<streams, page, stack, buffer>>
      BY <1>4 DEF AddManualSection, EndBuild, Kill
    <2>2. QED BY <1>1, <2>1, ForgetKeeps
  <1>5. ASSUME NEW p \in Procs,
               \/ \E t \in Threads : StartThread(p, t)
               \/ \E c \in Configs : StartAsking(p, c)
               \/ FindMnemonic(p) \/ ClaimMnemonic(p) \/ PutThread(p)
               \/ OpenSegment(p) \/ SuperStep(p) \/ CloseSegment(p)
               \/ \E q \in Questions : AskQuestion(p, q)
               \/ FirstWrite(p) \/ PutAnswer(p) \/ EndPage(p)
        PROVE  WalkInv'
    <2>1. UNCHANGED buildVars
      BY <1>5 DEF StartThread, StartAsking, FindMnemonic, ClaimMnemonic, PutThread, OpenSegment, SuperStep,
                  CloseSegment, AskQuestion, FirstWrite, PutAnswer, EndPage
    <2>2. QED BY <1>1, <2>1 DEF buildVars
  <1>6. ASSUME NEW p \in Procs,
               (\E b \in {"postgres", "chroma"} : StartBuild(p, b)) \/ AddToKeywords(p) \/ EmbedRest(p)
        PROVE  WalkInv'
    BY <1>1, <1>6 DEF StartBuild, AddToKeywords, EmbedRest
  <1>7. QED BY <1>2, <1>3, <1>4, <1>5, <1>6 DEF Next

\* A step that has nothing to do with the manual.
Aside ==
  /\ UNCHANGED buildVars
  /\ \/ client' = client
     \/ \E p \in Procs : \E k :
          /\ client' = [client EXCEPT ![p] = k] /\ client[p].at \notin BuildStates /\ k.at \notin BuildStates
          /\ client[p].at # "off" \/ ~Building
BuildStep(p) ==
  \/ \E b \in {"postgres", "chroma"} : StartBuild(p, b)
  \/ WalkPage(p) \/ EndPage(p) \/ AddManualSection(p) \/ AddToKeywords(p) \/ EmbedRest(p) \/ EndBuild(p)
  \/ Kill(p)

LEMMA NextAside == Inv /\ [Next]_vars => Aside \/ \E p \in Procs : BuildStep(p)
  <1> SUFFICES ASSUME Inv, [Next]_vars PROVE Aside \/ \E p \in Procs : BuildStep(p)
    OBVIOUS
  <1>1. ASSUME NEW p \in Procs, NEW k, client' = [client EXCEPT ![p] = k], client[p].at \notin BuildStates,
               k.at \notin BuildStates, client[p].at # "off" \/ ~Building, UNCHANGED buildVars
        PROVE  Aside
    BY <1>1 DEF Aside
  <1>2. ASSUME NEW p \in Procs,
               (\E t \in Threads : StartThread(p, t)) \/ (\E c \in Configs : StartAsking(p, c))
        PROVE  Aside
    <2>1. ASSUME NEW first, Start(p, first), first.at \notin BuildStates, ~Building, UNCHANGED buildVars
          PROVE  Aside
      BY <1>1, <2>1 DEF Start, BuildStates
    <2>2. \A t : [Off EXCEPT !.at = "name", !.n = runs + 1, !.tid = t].at \notin BuildStates
      BY DEF Off, BuildStates
    <2>3. \A c : [Off EXCEPT !.at = "asking", !.config = c].at \notin BuildStates
      BY DEF Off, BuildStates
    <2>4. QED BY <1>2, <2>1, <2>2, <2>3 DEF StartThread, StartAsking
  <1>3. ASSUME NEW p \in Procs, NEW at, Goto(p, at), client[p].at \notin BuildStates \cup {"off"},
               at \notin BuildStates, UNCHANGED buildVars
        PROVE  Aside
    <2>1. client' = [client EXCEPT ![p] = [client[p] EXCEPT !.at = at]]
      BY <1>3, ClientFacts DEF Goto
    <2>2. [client[p] EXCEPT !.at = at].at = at
      BY ClientFacts, OffFacts
    <2>3. QED BY <1>1, <1>3, <2>1, <2>2
  <1>4. ASSUME NEW p \in Procs, FindMnemonic(p) \/ PutThread(p) PROVE Aside
    <2>1. /\ UNCHANGED buildVars /\ client[p].at \notin BuildStates \cup {"off"}
          /\ (\E name : Named(p, name)) \/ Goto(p, "claim")
      BY <1>4 DEF FindMnemonic, PutThread, BuildStates
    <2>2. ASSUME NEW name, Named(p, name) PROVE Aside
      <3> DEFINE k == [Off EXCEPT !.at = "named", !.tid = client[p].tid]
      <3>1. client' = [client EXCEPT ![p] = k]
        BY <2>2 DEF Named
      <3>2. k.at = "named" /\ "named" \notin BuildStates
        BY DEF Off, BuildStates
      <3> HIDE DEF k
      <3>3. QED BY <1>1, <2>1, <3>1, <3>2
    <2>3. "claim" \notin BuildStates
      BY DEF BuildStates
    <2>4. QED BY <1>3, <2>1, <2>2, <2>3
  <1>5. ASSUME NEW p \in Procs, ClaimMnemonic(p) PROVE Aside
    <2>1. PICK cand : client' = IF Claimed(cand) THEN [client EXCEPT ![p].at = "thread", ![p].cand = cand]
                                ELSE [client EXCEPT ![p].attempt = @ + 1]
      BY <1>5 DEF ClaimMnemonic
    <2>2. UNCHANGED buildVars /\ client[p].at = "claim" /\ {"thread", "claim"} \cap BuildStates = {}
      BY <1>5 DEF ClaimMnemonic, BuildStates
    <2>3. CASE Claimed(cand)
      <3>1. client' = [client EXCEPT ![p] = [client[p] EXCEPT !.at = "thread", !.cand = cand]]
        BY <2>1, <2>3, ClientFacts
      <3>2. [client[p] EXCEPT !.at = "thread", !.cand = cand].at = "thread"
        BY ClientFacts, OffFacts
      <3>3. QED BY <1>1, <2>2, <3>1, <3>2
    <2>4. CASE ~Claimed(cand)
      <3>1. client' = [client EXCEPT ![p] = [client[p] EXCEPT !.attempt = client[p].attempt + 1]]
        BY <2>1, <2>4, ClientFacts, OffFacts
      <3>2. [client[p] EXCEPT !.attempt = client[p].attempt + 1].at = "claim"
        BY <2>2, ClientFacts, OffFacts
      <3>3. QED BY <1>1, <2>2, <3>1, <3>2
    <2>5. QED BY <2>3, <2>4
  <1>6. ASSUME NEW p \in Procs, OpenSegment(p) PROVE Aside
    <2>1. PICK start : client' = [client EXCEPT ![p].at = "graph", ![p].seg = Len(records) + 1, ![p].start = start,
                                   ![p].tip = IF start = NoCheckpoint THEN Latest(client[p].tid) ELSE start]
      BY <1>6 DEF OpenSegment
    <2> DEFINE tip == IF start = NoCheckpoint THEN Latest(client[p].tid) ELSE start
               seg == Len(records) + 1
               k == [client[p] EXCEPT !.at = "graph", !.seg = seg, !.start = start, !.tip = tip]
    <2>2. UNCHANGED buildVars /\ client[p].at = "named" /\ {"named", "graph"} \cap BuildStates = {}
      BY <1>6 DEF OpenSegment, BuildStates
    <2>3. client' = [client EXCEPT ![p] = k]
      <3>1. client' = [client EXCEPT ![p].at = "graph", ![p].seg = seg, ![p].start = start, ![p].tip = tip]
        BY <2>1
      <3> HIDE DEF seg, tip
      <3>2. QED BY <3>1, ClientFacts
    <2>4. k.at = "graph"
      BY ClientFacts, OffFacts
    <2> HIDE DEF k
    <2>5. QED BY <1>1, <2>2, <2>3, <2>4
  <1>7. ASSUME NEW p \in Procs, SuperStep(p) PROVE Aside
    <2>1. /\ client' = [client EXCEPT ![p] = [client[p] EXCEPT !.tip = New, !.last = New]]
          /\ client[p].at = "graph" /\ UNCHANGED buildVars /\ "graph" \notin BuildStates
      BY <1>7, ClientFacts DEF SuperStep, BuildStates
    <2>2. [client[p] EXCEPT !.tip = New, !.last = New].at = "graph"
      BY <2>1, ClientFacts, OffFacts
    <2>3. QED BY <1>1, <2>1, <2>2
  <1>8. ASSUME NEW p \in Procs, CloseSegment(p) PROVE Aside
    <2>1. client' = [client EXCEPT ![p] = Off] /\ client[p].at = "graph" /\ UNCHANGED buildVars
      BY <1>8 DEF CloseSegment
    <2>2. Off.at \notin BuildStates /\ "graph" \notin BuildStates
      BY OffFacts DEF BuildStates
    <2>3. QED BY <1>1, <2>1, <2>2
  <1>9. ASSUME NEW p \in Procs, (\E q \in Questions : AskQuestion(p, q)) \/ FirstWrite(p) \/ PutAnswer(p)
        PROVE  Aside
    <2>1. /\ UNCHANGED buildVars /\ client[p].at \notin BuildStates \cup {"off"}
          /\ {"asking", "put", "asked"} \cap BuildStates = {}
      BY <1>9 DEF AskQuestion, FirstWrite, PutAnswer, BuildStates
    <2>2. \/ client' = client
          \/ Goto(p, "asking") \/ Goto(p, "put")
          \/ \E q : client' = [client EXCEPT ![p].at = "asked", ![p].q = q]
      BY <1>9 DEF AskQuestion, FirstWrite, PutAnswer
    <2>3. ASSUME NEW q, client' = [client EXCEPT ![p].at = "asked", ![p].q = q] PROVE Aside
      <3>1. client' = [client EXCEPT ![p] = [client[p] EXCEPT !.at = "asked", !.q = q]]
        BY <2>3, ClientFacts
      <3>2. [client[p] EXCEPT !.at = "asked", !.q = q].at = "asked"
        BY ClientFacts, OffFacts
      <3>3. QED BY <1>1, <2>1, <3>1, <3>2
    <2>4. QED BY <1>3, <2>1, <2>2, <2>3 DEF Aside
  <1>10. CASE UNCHANGED vars
    BY <1>10 DEF vars, Aside
  <1>11. QED BY <1>2, <1>4, <1>5, <1>6, <1>7, <1>8, <1>9, <1>10 DEF Next, BuildStep

LEMMA NextBuild == Inv /\ WalkInv /\ BuildInv /\ [Next]_vars => BuildInv'
  <1> SUFFICES ASSUME Inv, WalkInv, BuildInv, [Next]_vars PROVE BuildInv'
    OBVIOUS
  <1>1. CASE Aside
    <2>1. CASE client' = client
      BY <1>1, <2>1, BuildStays DEF Aside
    <2>2. ASSUME NEW p \in Procs, NEW k, client' = [client EXCEPT ![p] = k], k.at \notin BuildStates,
                 client[p].at # "off" \/ ~Building
          PROVE  BuildInv'
      <3>1. client'[p] = k /\ \A q \in Procs : q # p => client'[q] = client[q]
        BY <2>2, ClientFacts
      <3>2. UNCHANGED buildVars
        BY <1>1 DEF Aside
      <3>3. QED BY <2>2, <3>1, <3>2, BuildWaits
    <2>3. QED BY <1>1, <2>1, <2>2 DEF Aside
  <1>2. ASSUME NEW p \in Procs, EndBuild(p) \/ Kill(p) PROVE BuildInv'
    BY <1>2, OffBuilds DEF EndBuild, Kill
  <1>3. ASSUME NEW p \in Procs, BuildStep(p) PROVE BuildInv'
    BY <1>2, <1>3, StartBuilds, WalkPageBuilds, EndPageBuilds, SectionBuilds, KeywordsBuild, EmbedRestBuilds DEF BuildStep
  <1>4. QED BY <1>1, <1>3, NextAside

\* Whoever finds a section of the manual by its keywords gets it by the headers of the hit,
\* with all that the page has between its heading and its end, in order and with every code
\* in its place: whatever the page, however deep its headings, and whatever killed builds
\* have left in the two databases (rag/db.py: add_manual_section, search_manual_keywords,
\* get_manual_section; scripts/text_processors.py: TextStreamer).
THEOREM HitsAlwaysResolve == Spec => []HitsResolve
  <1>1. BuildInv => HitsResolve
    <2> SUFFICES ASSUME BuildInv, NEW row \in Found PROVE row.whole \in GetManualSection(HitHeaders(row))
      BY DEF HitsResolve
    <2>1. row \in manual.sections /\ RowOK(row)
      BY DEF BuildInv, ManualOK, Found
    <2>2. PICK h : IsHeader(h) /\ row.headers = Padded(h)
      BY <2>1 DEF RowOK
    <2>3. HitHeaders(row) = h
      BY <2>2, PaddedIsKept DEF HitHeaders
    <2>4. row.body \in GetManualSection(h)
      BY <2>1, <2>2 DEF GetManualSection
    <2>5. QED BY <2>1, <2>3, <2>4 DEF RowOK
  <1>2. Init => WalkInv
    BY InitWalk DEF Init
  <1>3. Spec => [](WalkInv /\ BuildInv)
    BY <1>2, InitBuild, NextWalk, NextBuild, ClientsInvariant, PTL DEF Spec
  <1>4. QED BY <1>1, <1>3, PTL

-----------------------------------------------------------------------------
(* Folds over the members of a sequence, by a function G on pairs. *)

LEMMA UptoFacts ==
  ASSUME NEW n \in Nat, NEW i \in 1..n
  PROVE  /\ 1..i \in SUBSET (1..n) /\ 1..i # {} /\ Max(1..i) = i
         /\ (1..i) \ {i} = 1..(i - 1) /\ i - 1 \in 0..n
  <1>1. i \in 1..i /\ (\A j \in 1..i : j \in 1..n) /\ 1..i \subseteq 0..n
    OBVIOUS
  <1>2. i \in 1..i /\ \A j \in 1..i : i >= j
    OBVIOUS
  <1>3. Max(1..i) \in 1..i /\ \A j \in 1..i : Max(1..i) >= j
    BY <1>2 DEF Max
  <1>4. Max(1..i) = i
    BY <1>1, <1>3
  <1>5. (1..i) \ {i} = 1..(i - 1)
    OBVIOUS
  <1>6. QED BY <1>1, <1>4, <1>5

\* The recursion of FoldLeft runs over sets of places.
Folds(g, G, base, seq) ==
  g = [s \in SUBSET (1..Len(seq)) |->
         IF s = {} THEN base ELSE G[<<g[s \ {Max(s)}], seq[Max(s)]>>]]

LEMMA FoldExists ==
  ASSUME NEW V, NEW A, NEW base \in V, NEW seq \in Seq(A), NEW G \in [V \X A -> V]
  PROVE  \E g \in [SUBSET (1..Len(seq)) -> V] : Folds(g, G, base, seq)
  <1> DEFINE n == Len(seq)
             D == SUBSET (1..n)
             start == [s \in {{}} |-> base]
             pred == [s \in D |-> s \ {Max(s)}]
             rank == [s \in D |-> IF s = {} THEN 0 ELSE Max(s)]
             H == [p \in D \X V |-> IF p[1] = {} THEN base ELSE G[<<p[2], seq[Max(p[1])]>>]]
  <1>1. n \in Nat /\ DOMAIN seq = 1..n /\ \A i \in 1..n : seq[i] \in A
    OBVIOUS
  <1>2. ASSUME NEW s \in D, s # {}
        PROVE  Max(s) \in s /\ Max(s) \in 1..n /\ \A y \in s : y <= Max(s)
    <2>1. s \subseteq 0..n
      BY <1>1
    <2>2. PICK x \in s : \A y \in s : y <= x
      BY <1>1, <1>2, <2>1, MaxOf
    <2>3. \A y \in s : x >= y
      BY <2>1, <2>2
    <2>4. Max(s) \in s /\ \A y \in s : Max(s) >= y
      BY <2>3 DEF Max
    <2>5. QED BY <2>1, <2>4
  <1>3. PICK g : IsRecursive(g, D, {{}}, start, pred, H, V)
    <2>1. \A s \in D : s \in {{}} => start[s] \in V
      OBVIOUS
    <2>2. Descending(D, {{}}, pred, rank)
      <3>1. ASSUME NEW s \in D PROVE rank[s] \in Nat
        <4>1. CASE s = {}
          BY <4>1
        <4>2. CASE s # {}
          BY <1>1, <1>2, <4>2
        <4>3. QED BY <4>1, <4>2
      <3>2. ASSUME NEW s \in D, s # {} PROVE pred[s] \in D /\ rank[pred[s]] < rank[s]
        <4> DEFINE r == s \ {Max(s)}
        <4>1. pred[s] = r /\ r \in D /\ rank[s] = Max(s) /\ Max(s) \in 1..n
          BY <1>2, <3>2
        <4>2. CASE r = {}
          <5>1. rank[r] = 0
            BY <4>1, <4>2
          <5>2. QED BY <4>1, <5>1
        <4>3. CASE r # {}
          <5>1. Max(r) \in r /\ rank[r] = Max(r)
            BY <1>2, <4>1, <4>3
          <5>2. Max(r) <= Max(s) /\ Max(r) # Max(s) /\ Max(r) \in 1..n
            BY <1>2, <3>2, <4>1, <5>1
          <5>3. QED BY <4>1, <5>1, <5>2
        <4>4. QED BY <4>2, <4>3
      <3> HIDE DEF D, rank, pred
      <3>3. QED BY <3>1, <3>2 DEF Descending
    <2>3. H \in [D \X V -> V]
      <3>1. ASSUME NEW p \in D \X V
            PROVE  (IF p[1] = {} THEN base ELSE G[<<p[2], seq[Max(p[1])]>>]) \in V
        <4>1. p[1] \in D /\ p[2] \in V
          OBVIOUS
        <4>2. CASE p[1] = {}
          BY <4>2
        <4>3. CASE p[1] # {}
          <5>1. Max(p[1]) \in 1..n
            BY <1>2, <4>1, <4>3
          <5>2. <<p[2], seq[Max(p[1])]>> \in V \X A
            BY <1>1, <4>1, <5>1
          <5>3. QED BY <4>3, <5>2
        <4>4. QED BY <4>2, <4>3
      <3>2. QED BY <3>1
    <2> HIDE DEF D, start, pred, rank, H
    <2>4. QED BY <2>1, <2>2, <2>3, Recursion
  <1>4. g \in [D -> V] /\ g = [s \in D |-> g[s]]
    BY <1>3 DEF IsRecursive
  <1>5. ASSUME NEW s \in D
        PROVE  g[s] = IF s = {} THEN base ELSE G[<<g[s \ {Max(s)}], seq[Max(s)]>>]
    <2>1. CASE s = {}
      BY <1>3, <2>1 DEF IsRecursive
    <2>2. CASE s # {}
      <3>1. s \ {Max(s)} \in D /\ pred[s] = s \ {Max(s)}
        OBVIOUS
      <3>2. <<s, g[s \ {Max(s)}]>> \in D \X V
        BY <1>4, <3>1
      <3>3. H[<<s, g[s \ {Max(s)}]>>] = G[<<g[s \ {Max(s)}], seq[Max(s)]>>]
        BY <2>2, <3>2
      <3>4. g[s] = H[<<s, g[pred[s]]>>]
        BY <1>3, <2>2 DEF IsRecursive
      <3>5. QED BY <2>2, <3>1, <3>3, <3>4
    <2>3. QED BY <2>1, <2>2
  <1>6. Folds(g, G, base, seq)
    BY <1>4, <1>5 DEF Folds
  <1>7. QED BY <1>4, <1>6

\* What is made of the first i members.
IsFold(h, G, base, seq, V) ==
  /\ h \in [0..Len(seq) -> V]
  /\ h[0] = base
  /\ \A i \in 1..Len(seq) : h[i] = G[<<h[i - 1], seq[i]>>]

LEMMA FoldsUpward ==
  ASSUME NEW V, NEW A, NEW base \in V, NEW seq \in Seq(A), NEW G \in [V \X A -> V], NEW g,
         Folds(g, G, base, seq), NEW h, h = [i \in 0..Len(seq) |-> g[1..i]]
  PROVE  IsFold(h, G, base, seq, V)
  <1> DEFINE n == Len(seq)
  <1>1. n \in Nat /\ \A i \in 1..n : seq[i] \in A
    OBVIOUS
  <1>2. h[0] = base
    <2>1. 1..0 = {} /\ {} \in SUBSET (1..n) /\ 0 \in 0..n
      BY <1>1
    <2>2. g[{}] = base
      BY <2>1 DEF Folds
    <2>3. QED BY <2>1, <2>2
  <1>3. ASSUME NEW i \in 1..n PROVE h[i] = G[<<h[i - 1], seq[i]>>]
    <2>1. /\ 1..i \in SUBSET (1..n) /\ 1..i # {} /\ Max(1..i) = i
          /\ (1..i) \ {i} = 1..(i - 1) /\ i - 1 \in 0..n
      BY <1>1, UptoFacts
    <2>0. i \in 0..n
      BY <1>1
    <2>2. g[1..i] = G[<<g[(1..i) \ {Max(1..i)}], seq[Max(1..i)]>>]
      BY <2>1 DEF Folds
    <2>3. QED BY <2>0, <2>1, <2>2
  <1>4. h \in [0..n -> V]
    <2> DEFINE T == {m \in Nat : m <= n => h[m] \in V}
    <2>1. 0 \in T
      BY <1>2
    <2>2. ASSUME NEW m \in Nat, m \in T PROVE m + 1 \in T
      <3>1. SUFFICES ASSUME m + 1 <= n PROVE h[m + 1] \in V
        OBVIOUS
      <3>2. m + 1 \in 1..n /\ (m + 1) - 1 = m /\ h[m] \in V
        BY <1>1, <2>2, <3>1
      <3>3. h[m + 1] = G[<<h[m], seq[m + 1]>>] /\ <<h[m], seq[m + 1]>> \in V \X A
        BY <1>1, <1>3, <3>2
      <3>4. QED BY <3>3
    <2>3. Nat \subseteq T
      <3> HIDE DEF T
      <3>1. QED BY <2>1, <2>2, NatClosed
    <2>4. \A i \in 0..n : h[i] \in V
      BY <2>3
    <2>5. h = [i \in 0..n |-> h[i]]
      OBVIOUS
    <2>6. QED BY <2>4, <2>5
  <1>5. QED BY <1>2, <1>3, <1>4 DEF IsFold

\* Folding one more member.
LEMMA FoldOneMore ==
  ASSUME NEW V, NEW A, NEW base, NEW seq \in Seq(A), NEW x \in A, NEW G,
         NEW f, IsFold(f, G, base, seq, V), NEW g, IsFold(g, G, base, Append(seq, x), V)
  PROVE  g[Len(seq) + 1] = G[<<f[Len(seq)], x>>]
  <1> DEFINE n == Len(seq)
             longer == Append(seq, x)
             T == {m \in Nat : m <= n => g[m] = f[m]}
  <1>1. n \in Nat /\ Len(longer) = n + 1 /\ longer[n + 1] = x /\ \A i \in 1..n : longer[i] = seq[i]
    OBVIOUS
  <1> HIDE DEF longer
  <1>2. 0 \in T
    BY DEF IsFold
  <1>3. ASSUME NEW m \in Nat, m \in T PROVE m + 1 \in T
    <2>1. SUFFICES ASSUME m + 1 <= n PROVE g[m + 1] = f[m + 1]
      OBVIOUS
    <2>2. m + 1 \in 1..n /\ m + 1 \in 1..(n + 1) /\ (m + 1) - 1 = m /\ g[m] = f[m]
      BY <1>1, <1>3, <2>1
    <2>3. f[m + 1] = G[<<f[m], seq[m + 1]>>]
      BY <2>2 DEF IsFold
    <2>4. g[m + 1] = G[<<g[m], longer[m + 1]>>]
      BY <1>1, <2>2 DEF IsFold, longer
    <2>5. QED BY <1>1, <2>2, <2>3, <2>4
  <1>4. Nat \subseteq T
    <2> HIDE DEF T
    <2>1. QED BY <1>2, <1>3, NatClosed
  <1>5. n + 1 \in 1..(n + 1) /\ (n + 1) - 1 = n /\ g[n] = f[n]
    BY <1>1, <1>4
  <1>6. g[n + 1] = G[<<g[n], longer[n + 1]>>]
    BY <1>1, <1>5 DEF IsFold, longer
  <1>7. QED BY <1>1, <1>5, <1>6

\* A set with the empty sequence that is closed under Append holds every sequence.
LEMMA SeqClosed ==
  ASSUME NEW A, NEW T, <<>> \in T, \A s \in Seq(A), x \in A : s \in T => Append(s, x) \in T
  PROVE  Seq(A) \subseteq T
  <1> DEFINE U == {n \in Nat : \A s \in Seq(A) : Len(s) = n => s \in T}
  <1>1. 0 \in U
    <2>1. \A s \in Seq(A) : Len(s) = 0 => s = <<>>
      OBVIOUS
    <2>2. QED BY <2>1
  <1>2. ASSUME NEW n \in Nat, n \in U PROVE n + 1 \in U
    <2>1. SUFFICES ASSUME NEW s \in Seq(A), Len(s) = n + 1 PROVE s \in T
      OBVIOUS
    <2> DEFINE r == SubSeq(s, 1, n)
    <2>2. r \in Seq(A) /\ Len(r) = n /\ s[n + 1] \in A /\ s = Append(r, s[n + 1])
      BY <2>1
    <2>3. QED BY <1>2, <2>2
  <1>3. Nat \subseteq U
    <2> HIDE DEF U
    <2>1. QED BY <1>1, <1>2, NatClosed
  <1>4. \A s \in Seq(A) : Len(s) \in Nat
    OBVIOUS
  <1>5. QED BY <1>3, <1>4

LEMMA ConcatAppend ==
  ASSUME NEW A, NEW s \in Seq(A), NEW t \in Seq(A), NEW x \in A
  PROVE  s \o Append(t, x) = Append(s \o t, x) /\ s \o <<>> = s /\ s \o t \in Seq(A) /\ s \o <<x>> = Append(s, x)
  OBVIOUS

LEMMA LastAppend ==
  ASSUME NEW A, NEW s \in Seq(A), NEW x \in A
  PROVE  Append(s, x) \in Seq(A) /\ Append(s, x) # <<>> /\ Last(Append(s, x)) = x
  BY DEF Last

-----------------------------------------------------------------------------
(* What is read of a text. *)

Reading(S) == [p \in Seq(Ids) \X Ids |-> ReadOn(p[1], p[2], S)]

LEMMA ReadOnType ==
  ASSUME NEW seen \in Seq(Ids), NEW id \in Ids, NEW S
  PROVE  ReadOn(seen, id, S) \in Seq(Ids)
  BY DEF ReadOn

LEMMA ReadSteps ==
  ASSUME NEW ids \in Seq(Ids), NEW S
  PROVE  \E h : IsFold(h, Reading(S), <<>>, ids, Seq(Ids)) /\ ReadIn(ids, S) = h[Len(ids)]
  <1> DEFINE n == Len(ids)
             D == SUBSET (1..n)
             V == Seq(Ids)
             G == Reading(S)
  <1>1. n \in Nat /\ DOMAIN ids = 1..n /\ \A i \in 1..n : ids[i] \in Ids
    OBVIOUS
  <1>2. G \in [V \X Ids -> V]
    <2>1. \A p \in V \X Ids : ReadOn(p[1], p[2], S) \in V
      BY ReadOnType
    <2>2. QED BY <2>1 DEF Reading
  <1>3. PICK g \in [D -> V] : Folds(g, G, <<>>, ids)
    <2>1. <<>> \in V
      OBVIOUS
    <2> HIDE DEF V, G
    <2>2. QED BY <1>2, <2>1, FoldExists
  <1> DEFINE Recurs(f) == f = [s \in D |-> IF s = {} THEN <<>> ELSE ReadOn(f[s \ {Max(s)}], ids[Max(s)], S)]
  <1>4. Recurs(g)
    <2>1. ASSUME NEW s \in D, s # {}
          PROVE  g[s] = ReadOn(g[s \ {Max(s)}], ids[Max(s)], S)
      <3>1. s \ {Max(s)} \in D
        OBVIOUS
      <3>2. g[s] = G[<<g[s \ {Max(s)}], ids[Max(s)]>>]
        BY <1>3, <2>1 DEF Folds
      <3>3. Max(s) \in 1..n
        <4>1. s \subseteq 0..n
          BY <1>1
        <4>2. PICK x \in s : \A y \in s : y <= x
          BY <1>1, <2>1, <4>1, MaxOf
        <4>3. \A y \in s : x >= y
          BY <4>1, <4>2
        <4>4. Max(s) \in s
          BY <4>3 DEF Max
        <4>5. QED BY <4>4
      <3>4. <<g[s \ {Max(s)}], ids[Max(s)]>> \in V \X Ids
        BY <1>1, <1>3, <3>1, <3>3
      <3>5. QED BY <3>2, <3>4 DEF Reading
    <2>2. g[{}] = <<>>
      <3>1. {} \in D
        OBVIOUS
      <3>2. QED BY <1>3, <3>1 DEF Folds
    <2>3. g = [s \in D |-> g[s]]
      BY <1>3
    <2>4. QED BY <2>1, <2>2, <2>3
  <1> DEFINE iter == CHOOSE f : Recurs(f)
  <1>5. Recurs(iter)
    <2> HIDE DEF Recurs
    <2>1. QED BY <1>4
  <1>6. ReadIn(ids, S) = iter[1..n]
    BY <1>1 DEF ReadIn, FoldLeft, MapThenFoldSet
  <1> HIDE DEF iter
  \* The fold of the definition and this one agree.
  <1> DEFINE T == {m \in Nat : m <= n => iter[1..m] = g[1..m]}
  <1>7. 0 \in T
    <2>1. 1..0 = {} /\ {} \in D
      OBVIOUS
    <2>2. iter[{}] = <<>> /\ g[{}] = <<>>
      BY <1>4, <1>5, <2>1
    <2>3. QED BY <2>1, <2>2
  <1>8. ASSUME NEW m \in Nat, m \in T PROVE m + 1 \in T
    <2>1. SUFFICES ASSUME m + 1 <= n PROVE iter[1..(m + 1)] = g[1..(m + 1)]
      OBVIOUS
    <2> DEFINE u == 1..(m + 1)
    <2>2. u \in D /\ u # {} /\ Max(u) = m + 1 /\ u \ {m + 1} = 1..m
      <3>1. m + 1 \in 1..n /\ (m + 1) - 1 = m
        BY <1>1, <2>1
      <3>2. QED BY <1>1, <3>1, UptoFacts
    <2>3. iter[1..m] = g[1..m]
      BY <1>1, <1>8, <2>1
    <2> HIDE DEF u
    <2>4. iter[u] = ReadOn(iter[u \ {Max(u)}], ids[Max(u)], S) /\ g[u] = ReadOn(g[u \ {Max(u)}], ids[Max(u)], S)
      BY <1>4, <1>5, <2>2
    <2>5. QED BY <2>2, <2>3, <2>4 DEF u
  <1>9. Nat \subseteq T
    <2> HIDE DEF T
    <2>1. QED BY <1>7, <1>8, NatClosed
  <1> DEFINE h == [i \in 0..Len(ids) |-> g[1..i]]
  <1>10. IsFold(h, G, <<>>, ids, V)
    <2>1. <<>> \in V
      OBVIOUS
    <2>2. h = [i \in 0..Len(ids) |-> g[1..i]]
      OBVIOUS
    <2> HIDE DEF V, G, D, n, h
    <2>3. QED BY <1>2, <1>3, <2>1, <2>2, FoldsUpward
  <1>11. ReadIn(ids, S) = h[Len(ids)]
    <2>1. n \in 0..Len(ids) /\ iter[1..n] = g[1..n]
      BY <1>1, <1>9
    <2>2. QED BY <1>6, <2>1
  <1>12. QED
    <2> HIDE DEF h
    <2>1. QED BY <1>10, <1>11

LEMMA ReadInNone == \A S : ReadIn(<<>>, S) = <<>>
  <1>1. ASSUME NEW S PROVE ReadIn(<<>>, S) = <<>>
    <2>1. <<>> \in Seq(Ids) /\ Len(<<>>) = 0
      OBVIOUS
    <2>2. PICK h : IsFold(h, Reading(S), <<>>, <<>>, Seq(Ids)) /\ ReadIn(<<>>, S) = h[Len(<<>>)]
      BY <2>1, ReadSteps
    <2>3. QED BY <2>1, <2>2 DEF IsFold
  <1>2. QED BY <1>1

LEMMA ReadInMore ==
  ASSUME NEW ids \in Seq(Ids), NEW id \in Ids, NEW S
  PROVE  ReadIn(ids, S) \in Seq(Ids) /\ ReadIn(Append(ids, id), S) = ReadOn(ReadIn(ids, S), id, S)
  <1> DEFINE longer == Append(ids, id)
             n == Len(ids)
  <1>1. longer \in Seq(Ids) /\ Len(longer) = n + 1 /\ n \in Nat
    OBVIOUS
  <1>2. PICK f : IsFold(f, Reading(S), <<>>, ids, Seq(Ids)) /\ ReadIn(ids, S) = f[n]
    BY ReadSteps
  <1>3. PICK g : IsFold(g, Reading(S), <<>>, longer, Seq(Ids)) /\ ReadIn(longer, S) = g[n + 1]
    <2> HIDE DEF longer
    <2>1. QED BY <1>1, ReadSteps
  <1>4. g[n + 1] = Reading(S)[<<f[n], id>>]
    BY <1>2, <1>3, FoldOneMore
  <1>5. f[n] \in Seq(Ids)
    <2>1. n \in 0..n
      BY <1>1
    <2>2. QED BY <1>2, <2>1 DEF IsFold
  <1>6. Reading(S)[<<f[n], id>>] = ReadOn(f[n], id, S)
    BY <1>5 DEF Reading
  <1>7. QED BY <1>2, <1>3, <1>4, <1>5, <1>6

\* Texts of which everyone reads the same.
SameRead(x, y) == x \in Seq(Ids) /\ y \in Seq(Ids) /\ \A S : ReadIn(x, S) = ReadIn(y, S)

LEMMA SameMore ==
  ASSUME NEW x, NEW y, SameRead(x, y), NEW id \in Ids
  PROVE  SameRead(Append(x, id), Append(y, id))
  <1>1. Append(x, id) \in Seq(Ids) /\ Append(y, id) \in Seq(Ids)
    BY DEF SameRead
  <1>2. \A S : ReadIn(Append(x, id), S) = ReadIn(Append(y, id), S)
    BY ReadInMore DEF SameRead
  <1>3. QED BY <1>1, <1>2 DEF SameRead

LEMMA SameConcat ==
  ASSUME NEW x, NEW y, SameRead(x, y), NEW z \in Seq(Ids)
  PROVE  SameRead(x \o z, y \o z)
  <1> DEFINE T == {r \in Seq(Ids) : SameRead(x \o r, y \o r)}
  <1>1. x \in Seq(Ids) /\ y \in Seq(Ids)
    BY DEF SameRead
  <1>2. <<>> \in T
    <2>1. x \o <<>> = x /\ y \o <<>> = y /\ <<>> \in Seq(Ids)
      BY <1>1
    <2>2. QED BY <2>1
  <1>3. ASSUME NEW r \in Seq(Ids), NEW id \in Ids, r \in T PROVE Append(r, id) \in T
    <2>1. x \o Append(r, id) = Append(x \o r, id) /\ y \o Append(r, id) = Append(y \o r, id)
      BY <1>1, ConcatAppend
    <2>2. SameRead(Append(x \o r, id), Append(y \o r, id))
      BY <1>3, SameMore
    <2>3. Append(r, id) \in Seq(Ids)
      OBVIOUS
    <2>4. QED BY <2>1, <2>2, <2>3
  <1>4. Seq(Ids) \subseteq T
    <2> HIDE DEF T
    <2>1. QED BY <1>2, <1>3, SeqClosed
  <1>5. QED BY <1>4

\* Who has just read a place does not read it again.
LEMMA SameTwice ==
  ASSUME NEW x \in Seq(Ids), NEW id \in Ids
  PROVE  SameRead(Append(Append(x, id), id), Append(x, id))
  <1> DEFINE y == Append(x, id)
  <1>1. y \in Seq(Ids) /\ Append(y, id) \in Seq(Ids)
    OBVIOUS
  <1>2. ASSUME NEW S PROVE ReadIn(Append(y, id), S) = ReadIn(y, S)
    <2> DEFINE r == ReadIn(x, S)
               q == ReadOn(r, id, S)
    <2>1. r \in Seq(Ids) /\ ReadIn(y, S) = q
      BY ReadInMore
    <2>2. ReadIn(Append(y, id), S) = ReadOn(q, id, S)
      <3>1. ReadIn(Append(y, id), S) = ReadOn(ReadIn(y, S), id, S)
        <4> HIDE DEF y
        <4>1. QED BY <1>1, ReadInMore
      <3>2. QED BY <2>1, <3>1
    <2> HIDE DEF r
    <2>3. id \notin S \/ (q # <<>> /\ Last(q) = id)
      <3>1. CASE id \notin S
        BY <3>1
      <3>2. CASE id \in S /\ r # <<>> /\ Last(r) = id
        <4>1. q = r
          BY <3>2 DEF ReadOn
        <4>2. QED BY <3>2, <4>1
      <3>3. CASE id \in S /\ ~(r # <<>> /\ Last(r) = id)
        <4>1. q = Append(r, id)
          BY <3>3 DEF ReadOn
        <4>2. QED BY <2>1, <4>1, LastAppend
      <3>4. QED BY <3>1, <3>2, <3>3
    <2> HIDE DEF q
    <2>4. ReadOn(q, id, S) = q
      BY <2>3 DEF ReadOn
    <2>5. QED BY <2>1, <2>2, <2>4
  <1>3. QED BY <1>1, <1>2 DEF SameRead

LEMMA SameLast ==
  ASSUME NEW x \in Seq(Ids), x # <<>>
  PROVE  Last(x) \in Ids /\ SameRead(Append(x, Last(x)), x)
  <1> DEFINE n == Len(x)
             front == SubSeq(x, 1, n - 1)
  <1>1. n \in Nat /\ n # 0 /\ Last(x) = x[n] /\ x[n] \in Ids
    BY DEF Last
  <1>2. front \in Seq(Ids) /\ x = Append(front, x[n])
    BY <1>1
  <1>3. SameRead(Append(Append(front, x[n]), x[n]), Append(front, x[n]))
    BY <1>1, <1>2, SameTwice
  <1> HIDE DEF front
  <1>4. QED BY <1>1, <1>2, <1>3

LEMMA SameRefl == ASSUME NEW x \in Seq(Ids) PROVE SameRead(x, x)
  BY DEF SameRead

LEMMA SameTrans == ASSUME NEW x, NEW y, NEW z, SameRead(x, y), SameRead(y, z) PROVE SameRead(x, z)
  BY DEF SameRead

\* Everyone finds what there is.
LEMMA ReadFinds ==
  ASSUME NEW x \in Seq(Ids), NEW id \in Ids
  PROVE  (id \in ToSet(x)) <=> (ReadIn(x, {id}) # <<>>)
  <1> DEFINE T == {r \in Seq(Ids) : (id \in ToSet(r)) <=> (ReadIn(r, {id}) # <<>>)}
  <1>1. <<>> \in T
    BY ReadInNone DEF ToSet
  <1>2. ASSUME NEW r \in Seq(Ids), NEW d \in Ids, r \in T PROVE Append(r, d) \in T
    <2>1. ToSet(Append(r, d)) = ToSet(r) \cup {d}
      BY ToSetAppend
    <2>2. ReadIn(r, {id}) \in Seq(Ids) /\ ReadIn(Append(r, d), {id}) = ReadOn(ReadIn(r, {id}), d, {id})
      BY ReadInMore
    <2>3. CASE d = id
      <3>1. ReadOn(ReadIn(r, {id}), d, {id}) # <<>>
        <4> DEFINE q == ReadIn(r, {id})
        <4>1. Append(q, d) # <<>>
          BY <2>2, LastAppend
        <4> HIDE DEF q
        <4>2. ReadOn(q, d, {id}) # <<>>
          BY <2>3, <4>1 DEF ReadOn
        <4>3. QED BY <4>2 DEF q
      <3>2. QED BY <2>1, <2>2, <2>3, <3>1
    <2>4. CASE d # id
      <3>1. ReadOn(ReadIn(r, {id}), d, {id}) = ReadIn(r, {id})
        BY <2>4 DEF ReadOn
      <3>2. QED BY <1>2, <2>1, <2>2, <2>4, <3>1
    <2>5. QED BY <2>3, <2>4
  <1>3. Seq(Ids) \subseteq T
    <2> HIDE DEF T
    <2>1. QED BY <1>1, <1>2, SeqClosed
  <1>4. QED BY <1>3

LEMMA SameSet ==
  ASSUME NEW x, NEW y, SameRead(x, y)
  PROVE  ToSet(x) = ToSet(y)
  <1>1. ToSet(x) \subseteq Ids /\ ToSet(y) \subseteq Ids
    BY ToSetFacts DEF SameRead
  <1>2. \A id \in Ids : id \in ToSet(x) <=> id \in ToSet(y)
    BY ReadFinds DEF SameRead
  <1>3. QED BY <1>1, <1>2

\* What a text does not have makes no difference to what is read of it.
LEMMA ReadAgrees ==
  ASSUME NEW x \in Seq(Ids), NEW S, NEW R, ToSet(x) \cap S = ToSet(x) \cap R
  PROVE  ReadIn(x, S) = ReadIn(x, R)
  <1> DEFINE T == {r \in Seq(Ids) : ToSet(r) \cap S = ToSet(r) \cap R => ReadIn(r, S) = ReadIn(r, R)}
  <1>1. <<>> \in T
    BY ReadInNone
  <1>2. ASSUME NEW r \in Seq(Ids), NEW d \in Ids, r \in T PROVE Append(r, d) \in T
    <2>1. SUFFICES ASSUME ToSet(Append(r, d)) \cap S = ToSet(Append(r, d)) \cap R
                   PROVE  ReadIn(Append(r, d), S) = ReadIn(Append(r, d), R)
      OBVIOUS
    <2>2. ToSet(Append(r, d)) = ToSet(r) \cup {d}
      BY ToSetAppend
    <2>3. ReadIn(r, S) = ReadIn(r, R) /\ (d \in S <=> d \in R)
      BY <1>2, <2>1, <2>2
    <2>4. ReadOn(ReadIn(r, S), d, S) = ReadOn(ReadIn(r, S), d, R)
      BY <2>3 DEF ReadOn
    <2>5. ReadIn(Append(r, d), S) = ReadOn(ReadIn(r, S), d, S) /\ ReadIn(Append(r, d), R) = ReadOn(ReadIn(r, R), d, R)
      BY ReadInMore
    <2>6. QED BY <2>3, <2>4, <2>5
  <1>3. Seq(Ids) \subseteq T
    <2> HIDE DEF T
    <2>1. QED BY <1>1, <1>2, SeqClosed
  <1>4. QED BY <1>3

LEMMA ReadForeign ==
  ASSUME NEW x \in Seq(Ids), NEW id \in Ids, NEW S, id \notin S
  PROVE  ReadIn(Append(x, id), S) = ReadIn(x, S)
  BY ReadInMore DEF ReadOn

Distinct(s) == \A i, j \in 1..Len(s) : s[i] = s[j] => i = j

\* New places are read after the old ones.
LEMMA ReadNew ==
  ASSUME NEW x \in Seq(Ids), NEW own \in Seq(Ids), ReadIn(x, ToSet(own)) = own,
         NEW z \in Seq(Ids), Distinct(z), ToSet(z) \cap (ToSet(x) \cup ToSet(own)) = {}
  PROVE  ReadIn(x \o z, ToSet(own \o z)) = own \o z
  <1> DEFINE S == ToSet(own) \cup ToSet(z)
             T == {r \in Seq(Ids) : (Distinct(r) /\ ToSet(r) \subseteq ToSet(z)) => ReadIn(x \o r, S) = own \o r}
  <1>1. ToSet(own \o z) = S
    <2> DEFINE U == {r \in Seq(Ids) : ToSet(own \o r) = ToSet(own) \cup ToSet(r)}
    <2>1. <<>> \in U
      <3>1. own \o <<>> = own /\ ToSet(<<>>) = {}
        BY ConcatAppend DEF ToSet
      <3>2. QED BY <3>1
    <2>2. ASSUME NEW r \in Seq(Ids), NEW d \in Ids, r \in U PROVE Append(r, d) \in U
      <3>1. own \o Append(r, d) = Append(own \o r, d) /\ own \o r \in Seq(Ids)
        BY ConcatAppend
      <3>2. ToSet(Append(r, d)) = ToSet(r) \cup {d} /\ ToSet(Append(own \o r, d)) = ToSet(own \o r) \cup {d}
        BY <3>1, ToSetAppend
      <3>3. Append(r, d) \in Seq(Ids) /\ ToSet(own \o r) = ToSet(own) \cup ToSet(r)
        BY <2>2
      <3>4. QED BY <3>1, <3>2, <3>3
    <2>3. Seq(Ids) \subseteq U
      <3> HIDE DEF U
      <3>1. QED BY <2>1, <2>2, SeqClosed
    <2>4. QED BY <2>3
  <1>2. <<>> \in T
    <2>1. x \o <<>> = x /\ own \o <<>> = own
      OBVIOUS
    <2>2. ToSet(x) \cap S = ToSet(x) \cap ToSet(own)
      OBVIOUS
    <2>3. ReadIn(x, S) = own
      BY <2>2, ReadAgrees
    <2>4. <<>> \in Seq(Ids)
      OBVIOUS
    <2>5. QED BY <2>1, <2>3, <2>4
  <1>3. ASSUME NEW r \in Seq(Ids), NEW d \in Ids, r \in T PROVE Append(r, d) \in T
    <2>0. Append(r, d) \in Seq(Ids)
      OBVIOUS
    <2>1. SUFFICES ASSUME Distinct(Append(r, d)), ToSet(Append(r, d)) \subseteq ToSet(z)
                   PROVE  ReadIn(x \o Append(r, d), S) = own \o Append(r, d)
      BY <2>0
    <2>2. ToSet(Append(r, d)) = ToSet(r) \cup {d}
      BY ToSetAppend
    <2>3. Distinct(r) /\ \A i \in 1..Len(r) : r[i] # d
      <3>1. /\ Len(Append(r, d)) = Len(r) + 1 /\ Len(r) \in Nat /\ Append(r, d)[Len(r) + 1] = d
            /\ \A i \in 1..Len(r) : Append(r, d)[i] = r[i] /\ i \in 1..(Len(r) + 1) /\ i # Len(r) + 1
            /\ Len(r) + 1 \in 1..(Len(r) + 1)
        OBVIOUS
      <3>2. QED BY <2>1, <3>1 DEF Distinct
    <2>4. ReadIn(x \o r, S) = own \o r
      BY <1>3, <2>1, <2>2, <2>3
    <2> DEFINE q == own \o r
    <2>5. own \o r = q /\ q \in Seq(Ids) /\ x \o r \in Seq(Ids) /\ own \o Append(r, d) = Append(q, d) /\ x \o Append(r, d) = Append(x \o r, d)
      <3>1. own \o r \in Seq(Ids) /\ own \o Append(r, d) = Append(own \o r, d)
        BY ConcatAppend
      <3>2. x \o r \in Seq(Ids) /\ x \o Append(r, d) = Append(x \o r, d)
        BY ConcatAppend
      <3>3. QED BY <3>1, <3>2
    <2>6. d \in S /\ d \notin ToSet(own)
      BY <2>1, <2>2
    <2>7. q = <<>> \/ Last(q) # d
      <3>1. SUFFICES ASSUME q # <<>> PROVE Last(q) # d
        OBVIOUS
      <3>2. Len(q) = Len(own) + Len(r) /\ Len(own) \in Nat /\ Len(r) \in Nat /\ Len(q) # 0 /\ Last(q) = q[Len(q)]
        BY <3>1 DEF Last
      <3>3. CASE Len(r) = 0
        <4>1. Last(q) = own[Len(own)] /\ Len(own) \in 1..Len(own)
          BY <3>2, <3>3
        <4>2. own[Len(own)] \in ToSet(own)
          BY <4>1, ToSetFacts
        <4>3. QED BY <2>6, <4>1, <4>2
      <3>4. CASE Len(r) # 0
        <4>1. Last(q) = r[Len(r)] /\ Len(r) \in 1..Len(r)
          BY <3>2, <3>4
        <4>2. QED BY <2>3, <4>1
      <3>5. QED BY <3>3, <3>4
    <2>8. ReadIn(Append(x \o r, d), S) = ReadOn(q, d, S)
      <3>1. ReadIn(Append(x \o r, d), S) = ReadOn(ReadIn(x \o r, S), d, S)
        <4> DEFINE u == x \o r
        <4>1. u \in Seq(Ids)
          BY <2>5
        <4> HIDE DEF u, S
        <4>2. ReadIn(Append(u, d), S) = ReadOn(ReadIn(u, S), d, S)
          BY <4>1, ReadInMore
        <4>3. QED BY <4>2 DEF u
      <3>2. QED BY <2>4, <3>1
    <2> HIDE DEF q
    <2>9. ReadOn(q, d, S) = Append(q, d)
      BY <2>6, <2>7 DEF ReadOn
    <2>10. QED BY <2>5, <2>8, <2>9 DEF q
  <1>4. Seq(Ids) \subseteq T
    <2> HIDE DEF T
    <2>1. QED BY <1>2, <1>3, SeqClosed
  <1>5. QED BY <1>1, <1>4

-----------------------------------------------------------------------------
(* A builder and its chunks. *)

BlocksOf(h) == [headers : {h}, part : Nat, text : Seq(Toks), codes : Seq(Ids)]
Builders(h) == [headers : {h}, text : Seq(Toks), codes : Seq(Ids), siblings : Seq(BlocksOf(h))]

\* The tags of a text name the codes that belong in their places.
TokCoded(t, codes) == t.ref # 0 => t.ref \in 1..Len(codes) /\ codes[t.ref] = t.id
Coded(text, codes) == \A i \in 1..Len(text) : TokCoded(text[i], codes)
BlockOK(c) == c.text \in Seq(Toks) /\ c.text # <<>> /\ c.codes \in Seq(Ids) /\ Coded(c.text, c.codes)
ChunksOK(b) == \A i \in 1..Len(b.siblings) : BlockOK(b.siblings[i])
Sound(b) == ChunksOK(b) /\ Coded(b.text, b.codes)

LEMMA PlacesFacts ==
  ASSUME NEW s \in Seq(Toks)
  PROVE  /\ Places(s) \in Seq(Ids) /\ Len(Places(s)) = Len(s) /\ \A i \in 1..Len(s) : Places(s)[i] = s[i].id
         /\ Places(<<>>) = <<>>
  <1>1. \A i \in 1..Len(s) : s[i] \in Toks /\ s[i].id \in Ids
    <2>1. \A t \in Toks : t.id \in Ids
      BY DEF Toks
    <2>2. QED BY <2>1
  <1>2. Places(s) = [i \in 1..Len(s) |-> s[i].id] /\ Len(s) \in Nat
    BY DEF Places
  <1>3. Places(<<>>) = <<>>
    BY DEF Places
  <1>4. QED BY <1>1, <1>2, <1>3

LEMMA PlacesAppend ==
  ASSUME NEW s \in Seq(Toks), NEW t \in Toks
  PROVE  t.id \in Ids /\ Places(Append(s, t)) = Append(Places(s), t.id)
  <1> DEFINE u == Append(s, t)
             p == Append(Places(s), t.id)
  <1>1. t.id \in Ids
    BY DEF Toks
  <1>2. u \in Seq(Toks) /\ Len(u) = Len(s) + 1 /\ u[Len(s) + 1] = t /\ \A i \in 1..Len(s) : u[i] = s[i]
    OBVIOUS
  <1>3. Places(s) \in Seq(Ids) /\ Len(Places(s)) = Len(s) /\ \A i \in 1..Len(s) : Places(s)[i] = s[i].id
    BY PlacesFacts
  <1>4. /\ p \in Seq(Ids) /\ Len(p) = Len(s) + 1 /\ p[Len(s) + 1] = t.id
        /\ \A i \in 1..Len(s) : p[i] = Places(s)[i]
    BY <1>1, <1>3
  <1> HIDE DEF u, p
  <1>5. Places(u) \in Seq(Ids) /\ Len(Places(u)) = Len(u) /\ \A i \in 1..Len(u) : Places(u)[i] = u[i].id
    BY <1>2, PlacesFacts
  <1>6. \A i \in 1..(Len(s) + 1) : i \in 1..Len(s) \/ i = Len(s) + 1
    OBVIOUS
  <1>7. \A i \in 1..Len(p) : Places(u)[i] = p[i]
    BY <1>2, <1>3, <1>4, <1>5, <1>6
  <1>8. Places(u) = p
    BY <1>2, <1>4, <1>5, <1>7, SeqEqual
  <1>9. QED BY <1>1, <1>8 DEF u, p

LEMMA PlacesConcat ==
  ASSUME NEW s \in Seq(Toks), NEW u \in Seq(Toks)
  PROVE  Places(s \o u) = Places(s) \o Places(u)
  <1> DEFINE T == {r \in Seq(Toks) : Places(s \o r) = Places(s) \o Places(r)}
  <1>1. <<>> \in T
    <2>1. s \o <<>> = s /\ Places(s) \o <<>> = Places(s) /\ Places(<<>>) = <<>> /\ <<>> \in Seq(Toks)
      BY PlacesFacts
    <2>2. QED BY <2>1
  <1>2. ASSUME NEW r \in Seq(Toks), NEW t \in Toks, r \in T PROVE Append(r, t) \in T
    <2>1. s \o Append(r, t) = Append(s \o r, t) /\ s \o r \in Seq(Toks) /\ Append(r, t) \in Seq(Toks)
      BY ConcatAppend
    <2>2. Places(Append(s \o r, t)) = Append(Places(s \o r), t.id)
      BY <2>1, PlacesAppend
    <2>3. Places(Append(r, t)) = Append(Places(r), t.id) /\ t.id \in Ids
      BY PlacesAppend
    <2>4. Places(s) \in Seq(Ids) /\ Places(r) \in Seq(Ids)
      BY PlacesFacts
    <2>5. Places(s) \o Append(Places(r), t.id) = Append(Places(s) \o Places(r), t.id)
      BY <2>3, <2>4, ConcatAppend
    <2>6. Places(s \o r) = Places(s) \o Places(r)
      BY <1>2
    <2>7. QED BY <2>1, <2>2, <2>3, <2>5, <2>6
  <1>3. Seq(Toks) \subseteq T
    <2> HIDE DEF T
    <2>1. QED BY <1>1, <1>2, SeqClosed
  <1>4. QED BY <1>3

\* What is in the closed chunks.
Closed(b) == [i \in DOMAIN b.siblings |-> Places(b.siblings[i].text)]

LEMMA BuilderFields ==
  ASSUME NEW h, NEW b \in Builders(h)
  PROVE  /\ b.headers = h /\ b.text \in Seq(Toks) /\ b.codes \in Seq(Ids) /\ b.siblings \in Seq(BlocksOf(h))
         /\ \A i \in 1..Len(b.siblings) : b.siblings[i].text \in Seq(Toks)
  <1>1. b.headers = h /\ b.text \in Seq(Toks) /\ b.codes \in Seq(Ids) /\ b.siblings \in Seq(BlocksOf(h))
    BY DEF Builders
  <1>2. \A c \in BlocksOf(h) : c.text \in Seq(Toks)
    BY DEF BlocksOf
  <1>3. QED BY <1>1, <1>2

LEMMA WrittenType ==
  ASSUME NEW h, NEW b \in Builders(h)
  PROVE  /\ Closed(b) \in Seq(Seq(Ids)) /\ Len(Closed(b)) = Len(b.siblings)
         /\ FlattenSeq(Closed(b)) \in Seq(Ids) /\ Places(b.text) \in Seq(Ids)
         /\ Written(b) = FlattenSeq(Closed(b)) \o Places(b.text) /\ Written(b) \in Seq(Ids)
  <1>1. /\ b.text \in Seq(Toks) /\ b.siblings \in Seq(BlocksOf(h))
        /\ \A i \in 1..Len(b.siblings) : b.siblings[i].text \in Seq(Toks)
    BY BuilderFields
  <1>2. Closed(b) = [i \in 1..Len(b.siblings) |-> Places(b.siblings[i].text)] /\ Len(b.siblings) \in Nat
    BY <1>1 DEF Closed
  <1>3. \A i \in 1..Len(b.siblings) : Places(b.siblings[i].text) \in Seq(Ids)
    BY <1>1, PlacesFacts
  <1>4. Closed(b) \in Seq(Seq(Ids)) /\ Len(Closed(b)) = Len(b.siblings)
    BY <1>2, <1>3
  <1>5. FlattenSeq(Closed(b)) \in Seq(Ids)
    BY <1>4, FlattenType
  <1>6. Places(b.text) \in Seq(Ids)
    BY <1>1, PlacesFacts
  <1>7. Written(b) = FlattenSeq(Closed(b)) \o Places(b.text)
    BY DEF Written, Closed
  <1>8. FlattenSeq(Closed(b)) \o Places(b.text) \in Seq(Ids)
    BY <1>5, <1>6, ConcatAppend
  <1>9. QED BY <1>4, <1>5, <1>6, <1>7, <1>8

\* More text.
LEMMA WrittenMore ==
  ASSUME NEW h, NEW b \in Builders(h), NEW c \in Builders(h), NEW u \in Seq(Toks),
         c.siblings = b.siblings, c.text = b.text \o u
  PROVE  Written(c) = Written(b) \o Places(u)
  <1>1. Closed(c) = Closed(b)
    BY DEF Closed
  <1>2. Written(b) = FlattenSeq(Closed(b)) \o Places(b.text) /\ Written(c) = FlattenSeq(Closed(b)) \o Places(c.text)
    BY <1>1, WrittenType
  <1>3. FlattenSeq(Closed(b)) \in Seq(Ids) /\ Places(b.text) \in Seq(Ids) /\ Places(u) \in Seq(Ids)
    BY WrittenType, PlacesFacts
  <1>4. Places(c.text) = Places(b.text) \o Places(u)
    BY BuilderFields, PlacesConcat
  <1>5. \A x, y, z \in Seq(Ids) : x \o (y \o z) = (x \o y) \o z
    OBVIOUS
  <1>6. QED BY <1>2, <1>3, <1>4, <1>5

LEMMA WrittenOne ==
  ASSUME NEW h, NEW b \in Builders(h), NEW c \in Builders(h), NEW t \in Toks,
         c.siblings = b.siblings, c.text = Append(b.text, t)
  PROVE  t.id \in Ids /\ Written(c) = Append(Written(b), t.id)
  <1>1. <<t>> \in Seq(Toks) /\ b.text \in Seq(Toks) /\ Append(b.text, t) = b.text \o <<t>>
    BY BuilderFields
  <1>2. Written(c) = Written(b) \o Places(<<t>>)
    BY <1>1, WrittenMore
  <1>3. t.id \in Ids /\ Places(<<t>>) = <<t.id>>
    BY DEF Toks, Places
  <1>4. Written(b) \in Seq(Ids)
    BY WrittenType
  <1>5. Written(b) \o <<t.id>> = Append(Written(b), t.id)
    BY <1>3, <1>4, ConcatAppend
  <1>6. QED BY <1>2, <1>3, <1>5

LEMMA PushFacts ==
  ASSUME NEW h, NEW b \in Builders(h)
  PROVE  /\ PushBlock(b) \in Builders(h) /\ PushBlock(b).text = <<>>
         /\ Written(PushBlock(b)) = Written(b) /\ (Sound(b) => Sound(PushBlock(b)))
  <1> DEFINE c == [headers |-> b.headers, part |-> Len(b.siblings), text |-> b.text, codes |-> b.codes]
             d == [headers |-> b.headers, text |-> <<>>, codes |-> <<>>, siblings |-> Append(b.siblings, c)]
  <1>1. /\ b.headers = h /\ b.text \in Seq(Toks) /\ b.codes \in Seq(Ids) /\ b.siblings \in Seq(BlocksOf(h))
        /\ Len(b.siblings) \in Nat
    BY BuilderFields
  <1>2. CASE b.text = <<>>
    BY <1>2 DEF PushBlock
  <1>3. CASE b.text # <<>>
    <2>1. PushBlock(b) = d
      BY <1>3 DEF PushBlock, Builders
    <2>2. c \in BlocksOf(h)
      BY <1>1 DEF BlocksOf
    <2>3. d \in Builders(h)
      <3>1. Append(b.siblings, c) \in Seq(BlocksOf(h))
        <4> HIDE DEF c
        <4>1. QED BY <1>1, <2>2
      <3>2. QED BY <1>1, <3>1 DEF Builders
    <2>4. /\ Len(d.siblings) = Len(b.siblings) + 1 /\ d.siblings[Len(b.siblings) + 1] = c
          /\ \A i \in 1..Len(b.siblings) : d.siblings[i] = b.siblings[i]
      <3>1. d.siblings = Append(b.siblings, c)
        OBVIOUS
      <3> HIDE DEF c, d
      <3>2. QED BY <1>1, <2>2, <3>1
    <2>5. Closed(d) = Append(Closed(b), Places(b.text))
      <3> DEFINE p == Append(Closed(b), Places(b.text))
      <3>1. Closed(b) \in Seq(Seq(Ids)) /\ Len(Closed(b)) = Len(b.siblings) /\ Places(b.text) \in Seq(Ids)
        BY WrittenType
      <3>2. /\ p \in Seq(Seq(Ids)) /\ Len(p) = Len(b.siblings) + 1 /\ p[Len(b.siblings) + 1] = Places(b.text)
            /\ \A i \in 1..Len(b.siblings) : p[i] = Closed(b)[i]
        BY <3>1
      <3> HIDE DEF p
      <3>3. Closed(d) \in Seq(Seq(Ids)) /\ Len(Closed(d)) = Len(d.siblings)
        <4> HIDE DEF d
        <4>1. QED BY <2>3, WrittenType
      <3>4. \A i \in 1..Len(d.siblings) : Closed(d)[i] = Places(d.siblings[i].text)
        <4>1. DOMAIN d.siblings = 1..Len(d.siblings)
          <5> HIDE DEF d
          <5>1. QED BY <2>3, BuilderFields
        <4> HIDE DEF d
        <4>2. QED BY <4>1 DEF Closed
      <3>5. \A i \in 1..Len(b.siblings) : Closed(b)[i] = Places(b.siblings[i].text)
        BY <1>1 DEF Closed
      <3>6. c.text = b.text
        OBVIOUS
      <3> HIDE DEF c, d
      <3>7. \A i \in 1..(Len(b.siblings) + 1) : i \in 1..Len(b.siblings) \/ i = Len(b.siblings) + 1
        BY <1>1
      <3>8. \A i \in 1..Len(p) : Closed(d)[i] = p[i]
        BY <2>4, <3>2, <3>4, <3>5, <3>6, <3>7
      <3>9. Closed(d) = p
        BY <2>4, <3>2, <3>3, <3>8, SeqEqual
      <3>10. QED BY <3>9 DEF p
    <2>6. Written(d) = Written(b)
      <3>1. d.text = <<>>
        OBVIOUS
      <3> HIDE DEF d
      <3>2. Written(d) = FlattenSeq(Closed(d)) \o Places(<<>>) /\ Written(b) = FlattenSeq(Closed(b)) \o Places(b.text)
        BY <2>3, <3>1, WrittenType
      <3>3. FlattenSeq(Closed(d)) = FlattenSeq(Closed(b)) \o Places(b.text)
        BY <2>5, WrittenType, FlattenAppend
      <3>4. Places(<<>>) = <<>> /\ Written(b) \in Seq(Ids) /\ Written(b) \o <<>> = Written(b)
        BY <1>1, WrittenType, PlacesFacts
      <3>5. QED BY <3>2, <3>3, <3>4
    <2>7. ASSUME Sound(b) PROVE Sound(d)
      <3>1. BlockOK(c)
        BY <1>1, <1>3, <2>7 DEF BlockOK, Sound
      <3>2. d.text = <<>> /\ Len(d.text) = 0
        OBVIOUS
      <3> HIDE DEF c, d
      <3>3. \A i \in 1..(Len(b.siblings) + 1) : i \in 1..Len(b.siblings) \/ i = Len(b.siblings) + 1
        BY <1>1
      <3>4. ChunksOK(d)
        BY <2>4, <2>7, <3>1, <3>3 DEF Sound, ChunksOK
      <3>5. Coded(d.text, d.codes)
        BY <3>2 DEF Coded
      <3>6. QED BY <3>4, <3>5 DEF Sound
    <2>8. d.text = <<>>
      OBVIOUS
    <2> HIDE DEF d
    <2>9. QED BY <2>1, <2>3, <2>6, <2>7, <2>8
  <1>4. QED BY <1>2, <1>3

-----------------------------------------------------------------------------
(* What the operations of a builder do to its text. *)

LEMMA CodedMore ==
  ASSUME NEW text \in Seq(Toks), NEW codes \in Seq(Ids), NEW t \in Toks, NEW more \in Seq(Ids),
         Coded(text, codes), TokCoded(t, codes \o more)
  PROVE  Coded(Append(text, t), codes \o more)
  <1> DEFINE u == Append(text, t)
             cs == codes \o more
  <1>1. Len(u) = Len(text) + 1 /\ u[Len(text) + 1] = t /\ Len(text) \in Nat /\ \A i \in 1..Len(text) : u[i] = text[i]
    OBVIOUS
  <1>2. Len(codes) \in Nat /\ Len(cs) = Len(codes) + Len(more) /\ Len(more) \in Nat /\ \A j \in 1..Len(codes) : cs[j] = codes[j]
    OBVIOUS
  <1> HIDE DEF u, cs
  <1>3. ASSUME NEW i \in 1..Len(u) PROVE TokCoded(u[i], cs)
    <2>1. CASE i = Len(text) + 1
      BY <1>1, <2>1 DEF cs
    <2>2. CASE i # Len(text) + 1
      <3>1. i \in 1..Len(text) /\ u[i] = text[i]
        BY <1>1, <2>2
      <3>2. TokCoded(text[i], codes)
        BY <3>1 DEF Coded
      <3>3. QED BY <1>2, <3>1, <3>2 DEF TokCoded
    <2>3. QED BY <2>1, <2>2
  <1>4. Coded(u, cs)
    BY <1>3 DEF Coded
  <1>5. QED BY <1>4 DEF u, cs

LEMMA CodedText ==
  ASSUME NEW text \in Seq(Toks), NEW codes \in Seq(Ids), NEW txt \in Seq(Toks),
         Coded(text, codes), \A i \in 1..Len(txt) : txt[i].ref = 0
  PROVE  Coded(text \o txt, codes)
  <1> DEFINE u == text \o txt
  <1>1. /\ Len(u) = Len(text) + Len(txt) /\ Len(text) \in Nat /\ Len(txt) \in Nat
        /\ \A i \in 1..Len(text) : u[i] = text[i]
        /\ \A i \in (Len(text) + 1)..Len(u) : u[i] = txt[i - Len(text)]
    OBVIOUS
  <1> HIDE DEF u
  <1>2. ASSUME NEW i \in 1..Len(u) PROVE TokCoded(u[i], codes)
    <2>1. CASE i <= Len(text)
      <3>1. i \in 1..Len(text)
        BY <2>1
      <3>2. QED BY <1>1, <3>1 DEF Coded
    <2>2. CASE i > Len(text)
      <3>1. i \in (Len(text) + 1)..Len(u) /\ i - Len(text) \in 1..Len(txt)
        BY <1>1, <2>2
      <3>2. QED BY <1>1, <3>1 DEF TokCoded
    <2>3. QED BY <1>1, <2>1, <2>2
  <1>3. QED BY <1>2 DEF Coded, u

\* A code of its own.
LEMMA CodeAdded ==
  ASSUME NEW h, NEW b \in Builders(h), Sound(b), NEW code \in Ids, NEW c \in Builders(h),
         c.text = Append(b.text, Tag(code, Len(b.codes) + 1)), c.codes = Append(b.codes, code), c.siblings = b.siblings
  PROVE  Sound(c) /\ Written(c) = Append(Written(b), code)
  <1> DEFINE t == Tag(code, Len(b.codes) + 1)
  <1>1. b.text \in Seq(Toks) /\ b.codes \in Seq(Ids) /\ Len(b.codes) \in Nat
    BY BuilderFields
  <1>2. t \in Toks /\ t.id = code /\ t.ref = Len(b.codes) + 1
    BY <1>1 DEF Tag, Toks
  <1>3. c.text = Append(b.text, t)
    OBVIOUS
  <1> HIDE DEF t
  <1>4. Written(c) = Append(Written(b), code)
    BY <1>2, <1>3, WrittenOne
  <1>5. TokCoded(t, b.codes \o <<code>>)
    BY <1>1, <1>2 DEF TokCoded
  <1>6. Coded(Append(b.text, t), b.codes \o <<code>>)
    <2>1. <<code>> \in Seq(Ids)
      OBVIOUS
    <2>2. QED BY <1>1, <1>2, <1>5, <2>1, CodedMore DEF Sound
  <1>7. b.codes \o <<code>> = Append(b.codes, code)
    BY <1>1
  <1>8. Sound(c)
    <2>1. ChunksOK(c)
      BY DEF Sound, ChunksOK
    <2>2. QED BY <1>3, <1>6, <1>7, <2>1 DEF Sound
  <1>9. QED BY <1>4, <1>8

LEMMA CodeFits ==
  ASSUME NEW h, NEW b \in Builders(h), NEW code \in Ids
  PROVE  /\ AddCode(b, code) \in Builders(h) /\ AddCode(b, code).siblings = b.siblings
         /\ AddCode(b, code).text = Append(b.text, Tag(code, Len(b.codes) + 1))
         /\ AddCode(b, code).codes = Append(b.codes, code)
         /\ Len(AddCode(b, code).text) = Len(b.text) + 1 /\ AddCode(b, code).text # <<>>
  <1> DEFINE t == Tag(code, Len(b.codes) + 1)
             c == AddCode(b, code)
  <1>1. b.text \in Seq(Toks) /\ b.codes \in Seq(Ids) /\ Len(b.codes) \in Nat
    BY BuilderFields
  <1>2. t \in Toks
    BY <1>1 DEF Tag, Toks
  <1>3. c = [b EXCEPT !.text = Append(b.text, t), !.codes = Append(b.codes, code)]
    BY DEF AddCode
  <1> HIDE DEF t, c
  <1>4. /\ Append(b.text, t) \in Seq(Toks) /\ Append(b.codes, code) \in Seq(Ids)
        /\ Len(Append(b.text, t)) = Len(b.text) + 1 /\ Append(b.text, t) # <<>>
    BY <1>1, <1>2
  <1>5. /\ c \in Builders(h) /\ c.text = Append(b.text, t) /\ c.codes = Append(b.codes, code)
        /\ c.siblings = b.siblings
    BY <1>3, <1>4 DEF Builders
  <1>6. QED BY <1>4, <1>5 DEF c, t

LEMMA CodeGoesIn ==
  ASSUME NEW h, NEW b \in Builders(h), Sound(b), NEW code \in Ids
  PROVE  Sound(AddCode(b, code)) /\ Written(AddCode(b, code)) = Append(Written(b), code)
  BY CodeFits, CodeAdded

\* A sentence or tag of another chunk.
LEMMA FixedUp ==
  ASSUME NEW h, NEW b \in Builders(h), Sound(b), NEW t \in Toks, NEW codes \in Seq(Ids), TokCoded(t, codes)
  PROVE  LET c == FixupCodeRefs(b, t, codes)
         IN  /\ c \in Builders(h) /\ Sound(c) /\ Written(c) = Append(Written(b), t.id) /\ c.siblings = b.siblings
             /\ Len(c.text) = Len(b.text) + 1 /\ c.text # <<>>
  <1> DEFINE c == FixupCodeRefs(b, t, codes)
  <1>0. t.id \in Ids
    BY DEF Toks
  <1>1. b.text \in Seq(Toks) /\ b.codes \in Seq(Ids) /\ Len(b.codes) \in Nat /\ t.id \in Ids
    BY <1>0, BuilderFields
  <1>2. CASE t.ref = 0
    <2>1. c = [b EXCEPT !.text = Append(@, t)]
      BY <1>2 DEF FixupCodeRefs
    <2>2. Append(b.text, t) \in Seq(Toks) /\ Len(Append(b.text, t)) = Len(b.text) + 1 /\ Append(b.text, t) # <<>>
      BY <1>1
    <2>3. c \in Builders(h) /\ c.text = Append(b.text, t) /\ c.codes = b.codes /\ c.siblings = b.siblings
      BY <2>1, <2>2 DEF Builders
    <2> HIDE DEF c
    <2>4. Written(c) = Append(Written(b), t.id)
      BY <2>3, WrittenOne
    <2>5. Coded(Append(b.text, t), b.codes)
      <3>1. <<>> \in Seq(Ids) /\ b.codes \o <<>> = b.codes /\ TokCoded(t, b.codes)
        BY <1>1, <1>2 DEF TokCoded
      <3>2. QED BY <1>1, <3>1, CodedMore DEF Sound
    <2>6. Sound(c)
      <3>1. ChunksOK(c)
        BY <2>3 DEF Sound, ChunksOK
      <3>2. QED BY <2>3, <2>5, <3>1 DEF Sound
    <2>7. QED BY <2>2, <2>3, <2>4, <2>6 DEF c
  <1>3. CASE t.ref # 0
    <2>1. codes[t.ref] = t.id
      BY <1>3 DEF TokCoded
    <2>2. c = AddCode(b, t.id)
      BY <1>3, <2>1 DEF FixupCodeRefs, AddCode
    <2> DEFINE d == AddCode(b, t.id)
    <2>3. d \in Builders(h) /\ d.siblings = b.siblings /\ Len(d.text) = Len(b.text) + 1 /\ d.text # <<>>
      BY <1>1, CodeFits
    <2>4. Sound(d) /\ Written(d) = Append(Written(b), t.id)
      BY <1>1, CodeGoesIn
    <2> HIDE DEF c, d
    <2>5. c = d
      BY <2>2 DEF d
    <2>6. QED BY <2>3, <2>4, <2>5 DEF c
  <1>4. QED BY <1>2, <1>3

\* Text that is put into the chunk as it is.
LEMMA TextAdded ==
  ASSUME NEW h, NEW b \in Builders(h), Sound(b), NEW txt \in Seq(Toks), \A i \in 1..Len(txt) : txt[i].ref = 0,
         NEW c, c = [b EXCEPT !.text = b.text \o txt]
  PROVE  c \in Builders(h) /\ Sound(c) /\ Written(c) = Written(b) \o Places(txt)
  <1>1. b.text \in Seq(Toks) /\ b.codes \in Seq(Ids)
    BY BuilderFields
  <1>2. b.text \o txt \in Seq(Toks)
    BY <1>1
  <1>3. c \in Builders(h) /\ c.text = b.text \o txt /\ c.codes = b.codes /\ c.siblings = b.siblings
    BY <1>2 DEF Builders
  <1>4. Written(c) = Written(b) \o Places(txt)
    BY <1>3, WrittenMore
  <1>5. Coded(b.text \o txt, b.codes)
    BY <1>1, CodedText DEF Sound
  <1>6. ChunksOK(c)
    BY <1>3 DEF Sound, ChunksOK
  <1>7. QED BY <1>3, <1>4, <1>5, <1>6 DEF Sound

LEMMA AddSentenceType ==
  ASSUME NEW h, NEW b \in Builders(h), NEW t \in Toks, NEW r
  PROVE  AddSentence(b, t, r) \in Builders(h)
  <1> DEFINE c == [b EXCEPT !.text = Append(@, t)]
             e == PushBlock(c)
  <1>1. Append(b.text, t) \in Seq(Toks)
    BY BuilderFields
  <1>2. c \in Builders(h)
    BY <1>1 DEF Builders
  <1>3. e \in Builders(h)
    <2> HIDE DEF c
    <2>1. QED BY <1>2, PushFacts
  <1>4. (IF r THEN <<t>> ELSE <<>>) \in Seq(Toks)
    OBVIOUS
  <1>5. AddSentence(b, t, r) = c \/ AddSentence(b, t, r) = [e EXCEPT !.text = IF r THEN <<t>> ELSE <<>>]
    BY DEF AddSentence
  <1> HIDE DEF c, e
  <1>6. [e EXCEPT !.text = IF r THEN <<t>> ELSE <<>>] \in Builders(h)
    BY <1>3, <1>4 DEF Builders
  <1>7. QED BY <1>2, <1>5, <1>6

LEMMA SentenceAdded ==
  ASSUME NEW h, NEW b \in Builders(h), NEW t \in Toks, NEW r \in BOOLEAN,
         ChunksOK(b), Coded(Append(b.text, t), b.codes), r => t.ref = 0
  PROVE  /\ AddSentence(b, t, r) \in Builders(h) /\ Sound(AddSentence(b, t, r))
         /\ SameRead(Written(AddSentence(b, t, r)), Append(Written(b), t.id))
  <1> DEFINE c == [b EXCEPT !.text = Append(@, t)]
             e == PushBlock(c)
             w == Append(Written(b), t.id)
  <1>1. Append(b.text, t) \in Seq(Toks)
    BY BuilderFields
  <1>2. c \in Builders(h) /\ c.text = Append(b.text, t) /\ c.codes = b.codes /\ c.siblings = b.siblings
    BY <1>1 DEF Builders
  <1>3. AddSentence(b, t, r) = IF Len(c.text) <= MaxLength THEN c ELSE [e EXCEPT !.text = IF r THEN <<t>> ELSE <<>>]
    BY DEF AddSentence
  <1> HIDE DEF c
  <1>4. Sound(c)
    <2>1. ChunksOK(c)
      BY <1>2 DEF ChunksOK
    <2>2. QED BY <1>2, <2>1 DEF Sound
  <1>5. t.id \in Ids /\ Written(c) = w
    BY <1>2, WrittenOne
  <1>6. w \in Seq(Ids)
    BY <1>5, WrittenType
  <1>7. e \in Builders(h) /\ e.text = <<>> /\ Written(e) = w /\ Sound(e)
    BY <1>2, <1>4, <1>5, PushFacts
  <1> HIDE DEF e, w
  <1>8. CASE Len(c.text) <= MaxLength
    <2>1. SameRead(Written(c), w)
      BY <1>5, <1>6, SameRefl
    <2>2. QED BY <1>2, <1>3, <1>4, <1>8, <2>1 DEF w
  <1>9. CASE ~(Len(c.text) <= MaxLength) /\ ~r
    <2>1. [e EXCEPT !.text = <<>>] = e
      BY <1>7 DEF Builders
    <2>2. AddSentence(b, t, r) = e
      BY <1>3, <1>9, <2>1
    <2>3. SameRead(Written(e), w)
      BY <1>6, <1>7, SameRefl
    <2>4. QED BY <1>7, <2>2, <2>3 DEF w
  <1>10. CASE ~(Len(c.text) <= MaxLength) /\ r
    <2> DEFINE f == [e EXCEPT !.text = <<t>>]
    <2>1. AddSentence(b, t, r) = f
      BY <1>3, <1>10
    <2>2. <<t>> \in Seq(Toks) /\ Append(e.text, t) = <<t>>
      BY <1>7
    <2>3. f \in Builders(h) /\ f.text = <<t>> /\ f.codes = e.codes /\ f.siblings = e.siblings
      BY <1>7, <2>2 DEF Builders
    <2> HIDE DEF f
    <2>4. Written(f) = Append(w, t.id)
      BY <1>7, <2>2, <2>3, WrittenOne
    <2>5. SameRead(Written(f), w)
      <3>1. SameRead(Append(Append(Written(b), t.id), t.id), Append(Written(b), t.id))
        BY <1>5, WrittenType, SameTwice
      <3>2. QED BY <2>4, <3>1 DEF w
    <2>6. Sound(f)
      <3>1. ChunksOK(f)
        BY <1>7, <2>3 DEF Sound, ChunksOK
      <3>2. Coded(f.text, f.codes)
        <4>1. Len(f.text) = 1 /\ f.text[1] = t /\ t.ref = 0
          BY <1>10, <2>3
        <4>2. QED BY <4>1 DEF Coded, TokCoded
      <3>3. QED BY <3>1, <3>2 DEF Sound
    <2>7. QED BY <2>1, <2>3, <2>5, <2>6 DEF w
  <1>11. QED BY <1>8, <1>9, <1>10

\* Sentences one after the other.
Adding(h, r) == [p \in Builders(h) \X Toks |-> AddSentence(p[1], p[2], r)]

LEMMA SentenceSteps ==
  ASSUME NEW h, NEW b \in Builders(h), NEW txt \in Seq(Toks), NEW r
  PROVE  \E f : IsFold(f, Adding(h, r), b, txt, Builders(h)) /\ AddSentences(b, txt, r) = f[Len(txt)]
  <1> DEFINE n == Len(txt)
             D == SUBSET (1..n)
             V == Builders(h)
             G == Adding(h, r)
  <1>1. n \in Nat /\ DOMAIN txt = 1..n /\ \A i \in 1..n : txt[i] \in Toks
    OBVIOUS
  <1>2. G \in [V \X Toks -> V]
    <2>1. \A p \in V \X Toks : AddSentence(p[1], p[2], r) \in V
      BY AddSentenceType
    <2>2. QED BY <2>1 DEF Adding
  <1>3. PICK g \in [D -> V] : Folds(g, G, b, txt)
    <2> HIDE DEF V, G
    <2>1. b \in V
      BY DEF V
    <2>2. QED BY <1>2, <2>1, FoldExists
  <1> DEFINE Recurs(f) == f = [s \in D |-> IF s = {} THEN b ELSE AddSentence(f[s \ {Max(s)}], txt[Max(s)], r)]
  <1>4. Recurs(g)
    <2>1. ASSUME NEW s \in D, s # {}
          PROVE  g[s] = AddSentence(g[s \ {Max(s)}], txt[Max(s)], r)
      <3>1. s \ {Max(s)} \in D
        OBVIOUS
      <3>2. g[s] = G[<<g[s \ {Max(s)}], txt[Max(s)]>>]
        BY <1>3, <2>1 DEF Folds
      <3>3. Max(s) \in 1..n
        <4>1. s \subseteq 0..n
          BY <1>1
        <4>2. PICK x \in s : \A y \in s : y <= x
          BY <1>1, <2>1, <4>1, MaxOf
        <4>3. \A y \in s : x >= y
          BY <4>1, <4>2
        <4>4. Max(s) \in s
          BY <4>3 DEF Max
        <4>5. QED BY <4>4
      <3>4. <<g[s \ {Max(s)}], txt[Max(s)]>> \in V \X Toks
        BY <1>1, <1>3, <3>1, <3>3
      <3>5. QED BY <3>2, <3>4 DEF Adding
    <2>2. g[{}] = b
      <3>1. {} \in D
        OBVIOUS
      <3>2. QED BY <1>3, <3>1 DEF Folds
    <2>3. g = [s \in D |-> g[s]]
      BY <1>3
    <2>4. QED BY <2>1, <2>2, <2>3
  <1> DEFINE iter == CHOOSE f : Recurs(f)
  <1>5. Recurs(iter)
    <2> HIDE DEF Recurs
    <2>1. QED BY <1>4
  <1>6. AddSentences(b, txt, r) = iter[1..n]
    BY <1>1 DEF AddSentences, FoldLeft, MapThenFoldSet
  <1> HIDE DEF iter
  <1> DEFINE T == {m \in Nat : m <= n => iter[1..m] = g[1..m]}
  <1>7. 0 \in T
    <2>1. 1..0 = {} /\ {} \in D
      OBVIOUS
    <2>2. iter[{}] = b /\ g[{}] = b
      BY <1>4, <1>5, <2>1
    <2>3. QED BY <2>1, <2>2
  <1>8. ASSUME NEW m \in Nat, m \in T PROVE m + 1 \in T
    <2>1. SUFFICES ASSUME m + 1 <= n PROVE iter[1..(m + 1)] = g[1..(m + 1)]
      OBVIOUS
    <2> DEFINE u == 1..(m + 1)
    <2>2. u \in D /\ u # {} /\ Max(u) = m + 1 /\ u \ {m + 1} = 1..m
      <3>1. m + 1 \in 1..n /\ (m + 1) - 1 = m
        BY <1>1, <2>1
      <3>2. QED BY <1>1, <3>1, UptoFacts
    <2>3. iter[1..m] = g[1..m]
      BY <1>1, <1>8, <2>1
    <2> HIDE DEF u
    <2>4. /\ iter[u] = AddSentence(iter[u \ {Max(u)}], txt[Max(u)], r)
          /\ g[u] = AddSentence(g[u \ {Max(u)}], txt[Max(u)], r)
      BY <1>4, <1>5, <2>2
    <2>5. QED BY <2>2, <2>3, <2>4 DEF u
  <1>9. Nat \subseteq T
    <2> HIDE DEF T
    <2>1. QED BY <1>7, <1>8, NatClosed
  <1> DEFINE f == [i \in 0..Len(txt) |-> g[1..i]]
  <1>10. IsFold(f, G, b, txt, V)
    <2>1. f = [i \in 0..Len(txt) |-> g[1..i]]
      OBVIOUS
    <2> HIDE DEF V, G, D, n, f
    <2>2. b \in V
      BY DEF V
    <2>3. QED BY <1>2, <1>3, <2>1, <2>2, FoldsUpward
  <1>11. AddSentences(b, txt, r) = f[Len(txt)]
    <2>1. n \in 0..Len(txt) /\ iter[1..n] = g[1..n]
      BY <1>1, <1>9
    <2>2. QED BY <1>6, <2>1
  <1>12. QED
    <2> HIDE DEF f
    <2>1. QED BY <1>10, <1>11

LEMMA SentencesNone ==
  ASSUME NEW h, NEW b \in Builders(h), NEW r
  PROVE  AddSentences(b, <<>>, r) = b
  <1>1. <<>> \in Seq(Toks) /\ Len(<<>>) = 0
    OBVIOUS
  <1>2. PICK f : IsFold(f, Adding(h, r), b, <<>>, Builders(h)) /\ AddSentences(b, <<>>, r) = f[Len(<<>>)]
    BY <1>1, SentenceSteps
  <1>3. QED BY <1>1, <1>2 DEF IsFold

LEMMA SentencesMore ==
  ASSUME NEW h, NEW b \in Builders(h), NEW txt \in Seq(Toks), NEW t \in Toks, NEW r
  PROVE  /\ AddSentences(b, txt, r) \in Builders(h)
         /\ AddSentences(b, Append(txt, t), r) = AddSentence(AddSentences(b, txt, r), t, r)
  <1> DEFINE longer == Append(txt, t)
             n == Len(txt)
  <1>1. longer \in Seq(Toks) /\ Len(longer) = n + 1 /\ n \in Nat
    OBVIOUS
  <1>2. PICK f : IsFold(f, Adding(h, r), b, txt, Builders(h)) /\ AddSentences(b, txt, r) = f[n]
    BY SentenceSteps
  <1>3. PICK g : IsFold(g, Adding(h, r), b, longer, Builders(h)) /\ AddSentences(b, longer, r) = g[n + 1]
    <2> HIDE DEF longer
    <2>1. QED BY <1>1, SentenceSteps
  <1>4. g[n + 1] = Adding(h, r)[<<f[n], t>>]
    BY <1>2, <1>3, FoldOneMore
  <1>5. f[n] \in Builders(h)
    <2>1. n \in 0..n
      BY <1>1
    <2>2. QED BY <1>2, <2>1 DEF IsFold
  <1>6. Adding(h, r)[<<f[n], t>>] = AddSentence(f[n], t, r)
    BY <1>5 DEF Adding
  <1>7. QED BY <1>2, <1>3, <1>4, <1>5, <1>6

LEMMA SentencesAfter ==
  ASSUME NEW h, NEW b \in Builders(h), NEW txt \in Seq(Toks), NEW t \in Toks, NEW r
  PROVE  AddSentences(b, <<t>> \o txt, r) = AddSentences(AddSentence(b, t, r), txt, r)
  <1> DEFINE c == AddSentence(b, t, r)
             T == {s \in Seq(Toks) : AddSentences(b, <<t>> \o s, r) = AddSentences(c, s, r)}
  <1>1. c \in Builders(h)
    BY AddSentenceType
  <1>2. <<>> \in T
    <2>1. <<t>> \o <<>> = Append(<<>>, t) /\ <<>> \in Seq(Toks)
      OBVIOUS
    <2>2. AddSentences(b, Append(<<>>, t), r) = AddSentence(AddSentences(b, <<>>, r), t, r)
      BY <2>1, SentencesMore
    <2>3. AddSentences(b, <<>>, r) = b /\ AddSentences(c, <<>>, r) = c
      <3> HIDE DEF c
      <3>1. QED BY <1>1, SentencesNone
    <2>4. QED BY <2>1, <2>2, <2>3
  <1>3. ASSUME NEW s \in Seq(Toks), NEW x \in Toks, s \in T PROVE Append(s, x) \in T
    <2>1. <<t>> \in Seq(Toks) /\ Append(s, x) \in Seq(Toks)
      OBVIOUS
    <2>2. <<t>> \o Append(s, x) = Append(<<t>> \o s, x) /\ <<t>> \o s \in Seq(Toks)
      BY <2>1, ConcatAppend
    <2>3. AddSentences(b, Append(<<t>> \o s, x), r) = AddSentence(AddSentences(b, <<t>> \o s, r), x, r)
      <3> DEFINE u == <<t>> \o s
      <3>1. u \in Seq(Toks)
        BY <2>2
      <3> HIDE DEF u
      <3>2. AddSentences(b, Append(u, x), r) = AddSentence(AddSentences(b, u, r), x, r)
        BY <3>1, SentencesMore
      <3>3. QED BY <3>2 DEF u
    <2>4. AddSentences(b, <<t>> \o s, r) = AddSentences(c, s, r)
      BY <1>3
    <2>5. AddSentences(c, Append(s, x), r) = AddSentence(AddSentences(c, s, r), x, r)
      <3> HIDE DEF c
      <3>1. QED BY <1>1, SentencesMore
    <2> HIDE DEF c
    <2>6. AddSentences(b, <<t>> \o Append(s, x), r) = AddSentences(c, Append(s, x), r)
      BY <2>2, <2>3, <2>4, <2>5
    <2>7. QED BY <2>1, <2>6
  <1>4. Seq(Toks) \subseteq T
    <2> HIDE DEF T
    <2>1. QED BY <1>2, <1>3, SeqClosed
  <1>5. QED BY <1>4

LEMMA SentencesAdded ==
  ASSUME NEW h, NEW b \in Builders(h), Sound(b), NEW txt \in Seq(Toks), \A i \in 1..Len(txt) : txt[i].ref = 0,
         NEW r \in BOOLEAN
  PROVE  /\ AddSentences(b, txt, r) \in Builders(h) /\ Sound(AddSentences(b, txt, r))
         /\ SameRead(Written(AddSentences(b, txt, r)), Written(b) \o Places(txt))
  <1> DEFINE Added(s) == /\ AddSentences(b, s, r) \in Builders(h) /\ Sound(AddSentences(b, s, r))
                         /\ SameRead(Written(AddSentences(b, s, r)), Written(b) \o Places(s))
             T == {s \in Seq(Toks) : (\A i \in 1..Len(s) : s[i].ref = 0) => Added(s)}
  <1>1. <<>> \in T
    <2>1. Places(<<>>) = <<>> /\ <<>> \in Seq(Toks) /\ Written(b) \in Seq(Ids) /\ Written(b) \o <<>> = Written(b)
      BY PlacesFacts, WrittenType, ConcatAppend
    <2>2. AddSentences(b, <<>>, r) = b
      BY SentencesNone
    <2>3. SameRead(Written(b), Written(b))
      BY <2>1, SameRefl
    <2>4. Added(<<>>)
      BY <2>1, <2>2, <2>3
    <2> HIDE DEF Added
    <2>5. QED BY <2>1, <2>4
  <1>2. ASSUME NEW s \in Seq(Toks), NEW t \in Toks, s \in T PROVE Append(s, t) \in T
    <2>1. Append(s, t) \in Seq(Toks)
      OBVIOUS
    <2>2. SUFFICES ASSUME \A i \in 1..Len(Append(s, t)) : Append(s, t)[i].ref = 0 PROVE Added(Append(s, t))
      BY <2>1
    <2>3. t.ref = 0 /\ \A i \in 1..Len(s) : s[i].ref = 0
      <3>1. /\ Len(Append(s, t)) = Len(s) + 1 /\ Len(s) \in Nat /\ Append(s, t)[Len(s) + 1] = t
            /\ \A i \in 1..Len(s) : Append(s, t)[i] = s[i] /\ i \in 1..(Len(s) + 1)
            /\ Len(s) + 1 \in 1..(Len(s) + 1)
        OBVIOUS
      <3>2. QED BY <2>2, <3>1
    <2> DEFINE c == AddSentences(b, s, r)
               d == AddSentence(c, t, r)
    <2>4. c \in Builders(h) /\ Sound(c) /\ SameRead(Written(c), Written(b) \o Places(s))
      BY <1>2, <2>3
    <2>5. AddSentences(b, Append(s, t), r) = d
      BY SentencesMore
    <2> HIDE DEF c
    <2>6. Coded(Append(c.text, t), c.codes)
      <3>1. c.text \in Seq(Toks) /\ c.codes \in Seq(Ids) /\ <<>> \in Seq(Ids) /\ c.codes \o <<>> = c.codes
        BY <2>4, BuilderFields
      <3>2. TokCoded(t, c.codes)
        BY <2>3 DEF TokCoded
      <3>3. QED BY <2>4, <3>1, <3>2, CodedMore DEF Sound
    <2>7. d \in Builders(h) /\ Sound(d) /\ SameRead(Written(d), Append(Written(c), t.id))
      BY <2>3, <2>4, <2>6, SentenceAdded DEF Sound
    <2> HIDE DEF d
    <2>8. t.id \in Ids /\ Places(Append(s, t)) = Append(Places(s), t.id) /\ Places(s) \in Seq(Ids)
      BY PlacesAppend, PlacesFacts
    <2>9. SameRead(Append(Written(c), t.id), Append(Written(b) \o Places(s), t.id))
      BY <2>4, <2>8, SameMore
    <2>10. Written(b) \o Places(Append(s, t)) = Append(Written(b) \o Places(s), t.id)
      BY <2>8, WrittenType, ConcatAppend
    <2>11. SameRead(Written(d), Written(b) \o Places(Append(s, t)))
      BY <2>7, <2>9, <2>10, SameTrans
    <2>12. QED BY <2>5, <2>7, <2>11
  <1>3. Seq(Toks) \subseteq T
    <2> HIDE DEF T
    <2>1. QED BY <1>1, <1>2, SeqClosed
  <1>4. QED BY <1>3

-----------------------------------------------------------------------------
(* Paragraphs. *)

LEMMA OneLong ==
  ASSUME NEW A, NEW x \in Seq(A), x # <<>>, Len(x) <= 1
  PROVE  Len(x) = 1 /\ x[1] \in A /\ x = <<x[1]>>
  <1>1. Len(x) = 1
    <2>1. Len(x) # 0 /\ Len(x) \in Nat
      BY EmptySeq
    <2>2. QED BY <2>1
  <1>2. x[1] \in A /\ x = <<x[1]>>
    BY <1>1
  <1>3. QED BY <1>1, <1>2

\* The text that a new chunk begins with.
LEMMA Cut ==
  ASSUME NEW h, NEW c \in Builders(h), Sound(c), NEW txt \in Seq(Toks), \A i \in 1..Len(txt) : txt[i].ref = 0,
         NEW c0 \in Builders(h), c0.siblings = c.siblings, c0.text = <<>>, c0.codes = c.codes,
         Len(c.text) <= 1
  PROVE  LET d == AddSentences(c0, c.text \o txt, FALSE)
         IN  d \in Builders(h) /\ Sound(d) /\ SameRead(Written(d), Written(c) \o Places(txt))
  <1>1. c.text \in Seq(Toks) /\ Len(c.text) \in Nat /\ c.codes \in Seq(Ids)
    BY BuilderFields
  <1>2. Coded(<<>>, c0.codes)
    BY DEF Coded
  <1>3. Sound(c0)
    BY <1>2 DEF Sound, ChunksOK
  <1>4. CASE c.text = <<>>
    <2>1. Written(c) = Written(c0)
      BY <1>4 DEF Written
    <2>2. c.text \o txt = txt
      BY <1>4
    <2>3. QED BY <1>3, <2>1, <2>2, SentencesAdded
  <1>5. CASE c.text # <<>>
    <2>1. PICK u \in Toks : c.text = <<u>>
      <3>1. c.text[1] \in Toks /\ c.text = <<c.text[1]>>
        BY <1>1, <1>5, OneLong
      <3>2. QED BY <3>1
    <2>2. Append(c0.text, u) = c.text /\ FALSE \in BOOLEAN
      BY <2>1
    <2> DEFINE e == AddSentence(c0, u, FALSE)
    <2>3. /\ e \in Builders(h) /\ Sound(e) /\ SameRead(Written(e), Append(Written(c0), u.id))
      <3>1. Coded(Append(c0.text, u), c0.codes) /\ ChunksOK(c0)
        BY <2>2, <1>3 DEF Sound
      <3>2. QED BY <2>2, <3>1, SentenceAdded
    <2>4. u.id \in Ids /\ Written(c) = Append(Written(c0), u.id)
      <3>1. c.siblings = c0.siblings /\ c.text = Append(c0.text, u)
        BY <2>2
      <3>2. QED BY <3>1, WrittenOne
    <2>5. AddSentences(c0, c.text \o txt, FALSE) = AddSentences(e, txt, FALSE)
      <3>1. AddSentences(c0, <<u>> \o txt, FALSE) = AddSentences(e, txt, FALSE)
        BY SentencesAfter
      <3>2. QED BY <2>1, <3>1, Zenon
    <2> HIDE DEF e
    <2> DEFINE d == AddSentences(e, txt, FALSE)
    <2>6. d \in Builders(h) /\ Sound(d) /\ SameRead(Written(d), Written(e) \o Places(txt))
      BY <2>3, <2>2, SentencesAdded
    <2>7. SameRead(Written(e) \o Places(txt), Written(c) \o Places(txt))
      BY <2>3, <2>4, PlacesFacts, SameConcat
    <2> HIDE DEF d
    <2>8. SameRead(Written(d), Written(c) \o Places(txt))
      BY <2>6, <2>7, SameTrans
    <2>9. QED BY <2>5, <2>6, <2>8 DEF d
  <1>6. QED BY <1>4, <1>5

\* After what a new chunk begins with, its text.
Fill(c, txt, u) ==
  LET whole == [c EXCEPT !.text = c.text \o txt]
  IN  IF Len(txt) < MaxLength THEN whole
      ELSE IF u THEN PushBlock(whole)
      ELSE AddSentences([c EXCEPT !.text = <<>>], whole.text, FALSE)

LEMMA Filled ==
  ASSUME NEW h, NEW c \in Builders(h), Sound(c), NEW txt \in Seq(Toks), \A i \in 1..Len(txt) : txt[i].ref = 0,
         Len(c.text) <= 1, NEW u
  PROVE  /\ Fill(c, txt, u) \in Builders(h) /\ Sound(Fill(c, txt, u))
         /\ SameRead(Written(Fill(c, txt, u)), Written(c) \o Places(txt))
  <1> DEFINE w == Written(c) \o Places(txt)
             whole == [c EXCEPT !.text = c.text \o txt]
             c0 == [c EXCEPT !.text = <<>>]
             d == Fill(c, txt, u)
  <1>0. d = IF Len(txt) < MaxLength THEN whole
            ELSE IF u THEN PushBlock(whole)
            ELSE AddSentences(c0, whole.text, FALSE)
    BY DEF Fill
  <1> HIDE DEF d
  <1>1. whole \in Builders(h) /\ Sound(whole) /\ Written(whole) = w
    <2>1. whole = [c EXCEPT !.text = c.text \o txt]
      OBVIOUS
    <2> HIDE DEF whole
    <2>2. QED BY <2>1, TextAdded
  <1>2. w \in Seq(Ids)
    BY PlacesFacts, WrittenType, ConcatAppend
  <1>3. whole.text = c.text \o txt
    BY DEF Builders
  <1>4. c0 \in Builders(h) /\ c0.siblings = c.siblings /\ c0.text = <<>> /\ c0.codes = c.codes
    <2>1. <<>> \in Seq(Toks)
      OBVIOUS
    <2>2. QED BY <2>1 DEF Builders
  <1> HIDE DEF c0, whole
  <1>5. /\ AddSentences(c0, c.text \o txt, FALSE) \in Builders(h) /\ Sound(AddSentences(c0, c.text \o txt, FALSE))
        /\ SameRead(Written(AddSentences(c0, c.text \o txt, FALSE)), Written(c) \o Places(txt))
    BY <1>4, Cut
  <1>6. CASE Len(txt) < MaxLength
    <2>1. d = whole
      BY <1>0, <1>6
    <2>2. SameRead(w, w)
      BY <1>2, SameRefl
    <2>3. QED BY <1>1, <2>1, <2>2 DEF d
  <1>7. CASE ~(Len(txt) < MaxLength) /\ u
    <2>1. d = PushBlock(whole)
      BY <1>0, <1>7
    <2>2. d \in Builders(h) /\ Written(d) = w /\ Sound(d)
      BY <1>1, <2>1, PushFacts
    <2>3. SameRead(w, w)
      BY <1>2, SameRefl
    <2>4. QED BY <2>2, <2>3 DEF d
  <1>8. CASE ~(Len(txt) < MaxLength) /\ ~u
    <2>1. d = AddSentences(c0, c.text \o txt, FALSE)
      BY <1>0, <1>3, <1>8
    <2>2. QED BY <1>5, <2>1 DEF d
  <1>9. QED BY <1>6, <1>7, <1>8 DEF d

LEMMA NewChunkIs ==
  ASSUME NEW b, NEW txt, NEW u, NEW context, NEW codes,
         NEW c, c = IF context = <<>> THEN b ELSE FixupCodeRefs(b, context[1], codes)
  PROVE  InitNewChunk(b, txt, u, context, codes) = Fill(c, txt, u)
  BY DEF InitNewChunk, Fill

LEMMA NewChunk ==
  ASSUME NEW h, NEW b \in Builders(h), Sound(b), b.text = <<>>, NEW txt \in Seq(Toks),
         \A i \in 1..Len(txt) : txt[i].ref = 0, NEW u, NEW codes \in Seq(Ids)
  PROVE  LET d == InitNewChunk(b, txt, u, <<>>, codes)
         IN  d \in Builders(h) /\ Sound(d) /\ SameRead(Written(d), Written(b) \o Places(txt))
  <1>1. InitNewChunk(b, txt, u, <<>>, codes) = Fill(b, txt, u)
    BY NewChunkIs
  <1>2. Len(b.text) <= 1
    OBVIOUS
  <1>3. QED BY <1>1, <1>2, Filled

\* With the last sentence of the chunk before.
LEMMA NewChunkAfter ==
  ASSUME NEW h, NEW b \in Builders(h), Sound(b), b.text = <<>>, NEW txt \in Seq(Toks),
         \A i \in 1..Len(txt) : txt[i].ref = 0, NEW u, NEW codes \in Seq(Ids),
         NEW t \in Toks, TokCoded(t, codes)
  PROVE  LET d == InitNewChunk(b, txt, u, <<t>>, codes)
         IN  d \in Builders(h) /\ Sound(d) /\ SameRead(Written(d), Append(Written(b), t.id) \o Places(txt))
  <1> DEFINE c == FixupCodeRefs(b, t, codes)
  <1>1. c \in Builders(h) /\ Sound(c) /\ Written(c) = Append(Written(b), t.id) /\ Len(c.text) = Len(b.text) + 1
    BY FixedUp
  <1>2. <<t>> # <<>> /\ <<t>>[1] = t
    OBVIOUS
  <1>3. InitNewChunk(b, txt, u, <<t>>, codes) = Fill(c, txt, u)
    BY <1>2, NewChunkIs
  <1>4. Len(c.text) <= 1
    BY <1>1
  <1> HIDE DEF c
  <1>5. /\ Fill(c, txt, u) \in Builders(h) /\ Sound(Fill(c, txt, u))
        /\ SameRead(Written(Fill(c, txt, u)), Written(c) \o Places(txt))
    BY <1>1, <1>4, Filled
  <1>6. QED BY <1>1, <1>3, <1>5

\* The last place of a builder's text.
LEMMA LastWritten ==
  ASSUME NEW h, NEW b \in Builders(h), b.text # <<>>
  PROVE  /\ Last(b.text) \in Toks /\ Last(b.text).id \in Ids /\ Written(b) # <<>> /\ Last(Written(b)) = Last(b.text).id
         /\ Last(b.text) = b.text[Len(b.text)] /\ Len(b.text) \in 1..Len(b.text)
  <1> DEFINE n == Len(b.text)
             x == FlattenSeq(Closed(b))
             y == Places(b.text)
  <1>1. b.text \in Seq(Toks) /\ n \in Nat /\ n > 0
    BY BuilderFields
  <1>2. b.text[n] \in Toks /\ n \in 1..n
    BY <1>1
  <1>3. Last(b.text) = b.text[n]
    BY DEF Last
  <1>4. y \in Seq(Ids) /\ Len(y) = n /\ y[n] = b.text[n].id
    BY <1>1, <1>2, PlacesFacts
  <1>5. x \in Seq(Ids) /\ Written(b) = x \o y
    BY WrittenType
  <1> HIDE DEF x, y
  <1>6. x \o y # <<>> /\ Last(x \o y) = y[n]
    BY <1>1, <1>4, <1>5 DEF Last
  <1>7. b.text[n].id \in Ids
    BY <1>2 DEF Toks
  <1>8. QED BY <1>2, <1>3, <1>4, <1>5, <1>6, <1>7

LEMMA TextGoesIn ==
  ASSUME NEW h, NEW b \in Builders(h), Sound(b), NEW txt \in Seq(Toks), \A i \in 1..Len(txt) : txt[i].ref = 0,
         NEW s, NEW u
  PROVE  LET d == AppendText(b, txt, s, u)
         IN  d \in Builders(h) /\ Sound(d) /\ SameRead(Written(d), Written(b) \o Places(txt))
  <1> DEFINE d == AppendText(b, txt, s, u)
             w == Written(b) \o Places(txt)
             c == [b EXCEPT !.text = b.text \o txt]
             e == PushBlock(b)
  <1>1. w \in Seq(Ids) /\ Places(txt) \in Seq(Ids) /\ Written(b) \in Seq(Ids)
    BY PlacesFacts, WrittenType, ConcatAppend
  <1>2. SameRead(w, w)
    BY <1>1, SameRefl
  <1>3. b.text \in Seq(Toks) /\ b.codes \in Seq(Ids)
    BY BuilderFields
  <1>4. e \in Builders(h) /\ e.text = <<>> /\ Written(e) = Written(b) /\ Sound(e)
    BY PushFacts
  <1>5. CASE Len(txt) + Len(b.text) < MaxLength
    <2>1. d = c
      BY <1>5 DEF AppendText
    <2>2. c \in Builders(h) /\ Sound(c) /\ Written(c) = w
      BY TextAdded
    <2> HIDE DEF d, c
    <2>3. d \in Builders(h) /\ Sound(d) /\ SameRead(Written(d), w)
      BY <1>2, <2>1, <2>2
    <2>4. QED BY <2>3 DEF d
  <1>6. CASE ~(Len(txt) + Len(b.text) < MaxLength) /\ ~s
    <2>1. d = AddSentences(b, txt, TRUE)
      BY <1>6 DEF AppendText
    <2>2. TRUE \in BOOLEAN
      OBVIOUS
    <2>3. AddSentences(b, txt, TRUE) \in Builders(h) /\ Sound(AddSentences(b, txt, TRUE)) /\ SameRead(Written(AddSentences(b, txt, TRUE)), w)
      BY <2>2, SentencesAdded
    <2>4. QED BY <2>1, <2>3
  <1>7. CASE ~(Len(txt) + Len(b.text) < MaxLength) /\ s /\ b.text = <<>>
    <2>1. d = InitNewChunk(e, txt, u, <<>>, b.codes)
      BY <1>7 DEF AppendText
    <2> HIDE DEF d, e
    <2>2. d \in Builders(h) /\ Sound(d) /\ SameRead(Written(d), w)
      BY <1>3, <1>4, <2>1, NewChunk
    <2>3. QED BY <2>2 DEF d
  <1>8. CASE ~(Len(txt) + Len(b.text) < MaxLength) /\ s /\ b.text # <<>>
    <2> DEFINE t == Last(b.text)
    <2>1. d = InitNewChunk(e, txt, u, <<t>>, b.codes)
      BY <1>8 DEF AppendText
    <2>2. /\ t \in Toks /\ t.id \in Ids /\ Written(b) # <<>> /\ Last(Written(b)) = t.id
          /\ t = b.text[Len(b.text)] /\ Len(b.text) \in 1..Len(b.text)
      BY <1>8, LastWritten
    <2>3. TokCoded(t, b.codes)
      BY <2>2 DEF Sound, Coded
    <2> HIDE DEF d, e, t
    <2>4. d \in Builders(h) /\ Sound(d) /\ SameRead(Written(d), Append(Written(b), t.id) \o Places(txt))
      BY <1>3, <1>4, <2>1, <2>2, <2>3, NewChunkAfter
    <2>5. SameRead(Append(Written(b), t.id), Written(b))
      BY <1>1, <2>2, SameLast
    <2>6. SameRead(Append(Written(b), t.id) \o Places(txt), w)
      BY <1>1, <2>5, SameConcat
    <2> HIDE DEF w
    <2>7. SameRead(Written(d), w)
      BY <2>4, <2>6, SameTrans
    <2>8. d \in Builders(h) /\ Sound(d) /\ SameRead(Written(d), w)
      BY <2>4, <2>7
    <2>9. QED BY <2>8 DEF d, w
  <1>9. QED BY <1>5, <1>6, <1>7, <1>8

\* The first sentence of a chunk of a child.
LEMMA ChildGoesIn ==
  ASSUME NEW h, NEW b \in Builders(h), Sound(b), NEW chunk, BlockOK(chunk)
  PROVE  LET d == PushChild(b, chunk)
         IN  /\ d \in Builders(h) /\ Sound(d) /\ chunk.text[1].id \in Ids
             /\ Written(d) = Written(b) \/ Written(d) = Append(Written(b), chunk.text[1].id)
  <1> DEFINE t == chunk.text[1]
             c == FixupCodeRefs(b, t, chunk.codes)
             d == PushChild(b, chunk)
  <1>1. t \in Toks /\ 1 \in 1..Len(chunk.text) /\ chunk.codes \in Seq(Ids)
    BY DEF BlockOK
  <1>2. t.id \in Ids
    BY <1>1 DEF Toks
  <1>3. TokCoded(t, chunk.codes)
    BY <1>1 DEF BlockOK, Coded
  <1>4. CASE b.text = <<>>
    <2>1. d = b
      BY <1>4 DEF PushChild
    <2>2. QED BY <1>2, <2>1
  <1>5. CASE b.text # <<>>
    <2>1. d = PushBlock(c)
      BY <1>5 DEF PushChild
    <2> HIDE DEF d, t
    <2>2. c \in Builders(h) /\ Sound(c) /\ Written(c) = Append(Written(b), t.id)
      BY <1>1, <1>3, FixedUp
    <2> HIDE DEF c
    <2>3. d \in Builders(h) /\ Written(d) = Append(Written(b), t.id) /\ Sound(d)
      BY <2>1, <2>2, PushFacts
    <2>4. QED BY <1>2, <2>3 DEF d, t
  <1>6. QED BY <1>4, <1>5

-----------------------------------------------------------------------------
(* What is open on a page, and what belongs to it. *)

KindUpto(pg, kind, e) == {i \in 1..e : pg[i].kind = kind}
CountIn(pg, kind, e) == Cardinality(KindUpto(pg, kind, e))
DepthIn(pg, e) == CountIn(pg, "open", e) - CountIn(pg, "close", e)
BegunIn(pg, n) == {e \in DOMAIN pg : pg[e].kind = "open" /\ DepthIn(pg, e) = n}
OpenedIn(pg, n) == CHOOSE e \in BegunIn(pg, n) : \A f \in BegunIn(pg, n) : f <= e
OwnPiece(pg, n, e) == IF DepthIn(pg, e) = n THEN [i \in 1..pg[e].n |-> <<e, i>>] ELSE <<>>
OwnFrom(pg, n, from, d) == FlattenSeq([k \in 1..d |-> OwnPiece(pg, n, from + k)])
OwnIn(pg, n) == OwnFrom(pg, n, OpenedIn(pg, n), Len(pg) - OpenedIn(pg, n))

LEMMA PageIs == /\ \A e : DepthAt(e) = DepthIn(page, e)
                /\ \A n : Opened(n) = OpenedIn(page, n)
                /\ \A n : Own(n) = OwnIn(page, n)
  <1>1. \A e : DepthAt(e) = DepthIn(page, e)
    BY DEF DepthAt, DepthIn, CountIn, KindUpto
  <1>2. \A n : Opened(n) = OpenedIn(page, n)
    BY <1>1 DEF Opened, OpenedIn, BegunIn
  <1>3. \A n : Own(n) = OwnIn(page, n)
    BY <1>1, <1>2 DEF Own, OwnIn, OwnFrom, OwnPiece
  <1>4. QED BY <1>1, <1>2, <1>3

LEMMA CountFacts ==
  ASSUME NEW pg, NEW kind, NEW e \in Nat
  PROVE  /\ CountIn(pg, kind, e) \in Nat
         /\ pg[e + 1].kind = kind => CountIn(pg, kind, e + 1) = CountIn(pg, kind, e) + 1
         /\ pg[e + 1].kind # kind => CountIn(pg, kind, e + 1) = CountIn(pg, kind, e)
         /\ CountIn(pg, kind, 0) = 0
  <1> DEFINE S == KindUpto(pg, kind, e)
             T == KindUpto(pg, kind, e + 1)
  <1>1. IsFiniteSet(1..e)
    BY FS_Interval
  <1>2. S \subseteq 1..e
    BY DEF KindUpto
  <1>3. IsFiniteSet(S)
    <2> HIDE DEF S
    <2>1. QED BY <1>1, <1>2, FS_Subset
  <1>4. Cardinality(S) \in Nat
    <2> HIDE DEF S
    <2>1. QED BY <1>3, FS_CardinalityType
  <1>5. e + 1 \notin S
    BY <1>2
  <1>6. 1..(e + 1) = (1..e) \cup {e + 1}
    OBVIOUS
  <1>7. CASE pg[e + 1].kind = kind
    <2>1. T = S \cup {e + 1}
      BY <1>6, <1>7 DEF KindUpto
    <2>2. Cardinality(S \cup {e + 1}) = Cardinality(S) + 1
      <3> HIDE DEF S
      <3>1. QED BY <1>3, <1>5, FS_AddElement
    <2>3. Cardinality(T) = Cardinality(S) + 1
      <3> HIDE DEF S, T
      <3>1. QED BY <2>1, <2>2
    <2>4. CountIn(pg, kind, 0) = 0
      BY 1..0 = {}, FS_EmptySet DEF CountIn, KindUpto
    <2>5. QED BY <1>4, <1>7, <2>3, <2>4 DEF CountIn
  <1>8. CASE pg[e + 1].kind # kind
    <2>1. T = S
      BY <1>6, <1>8 DEF KindUpto
    <2>2. CountIn(pg, kind, 0) = 0
      BY 1..0 = {}, FS_EmptySet DEF CountIn, KindUpto
    <2>3. Cardinality(T) = Cardinality(S)
      <3> HIDE DEF S, T
      <3>1. QED BY <2>1
    <2>4. QED BY <1>4, <1>8, <2>2, <2>3 DEF CountIn
  <1>9. QED BY <1>7, <1>8

LEMMA DepthFacts ==
  ASSUME NEW pg \in Seq(Elements), NEW x \in Elements
  PROVE  /\ \A e \in 0..Len(pg) : DepthIn(pg, e) \in Int /\ DepthIn(Append(pg, x), e) = DepthIn(pg, e)
         /\ x.kind = "open" => DepthIn(Append(pg, x), Len(pg) + 1) = DepthIn(pg, Len(pg)) + 1
         /\ x.kind = "close" => DepthIn(Append(pg, x), Len(pg) + 1) = DepthIn(pg, Len(pg)) - 1
         /\ x.kind \notin {"open", "close"} => DepthIn(Append(pg, x), Len(pg) + 1) = DepthIn(pg, Len(pg))
  <1> DEFINE more == Append(pg, x)
             l == Len(pg)
  <1>1. l \in Nat /\ more[l + 1] = x /\ \A i \in 1..l : more[i] = pg[i]
    OBVIOUS
  <1>2. ASSUME NEW e \in 0..l PROVE DepthIn(pg, e) \in Int /\ DepthIn(more, e) = DepthIn(pg, e)
    <2>1. e \in Nat
      BY <1>1
    <2>2. \A i \in 1..e : more[i] = pg[i]
      BY <1>1
    <2> HIDE DEF more
    <2>3. \A kind : KindUpto(more, kind, e) = KindUpto(pg, kind, e)
      BY <2>2 DEF KindUpto
    <2>4. CountIn(pg, "open", e) \in Nat /\ CountIn(pg, "close", e) \in Nat
      BY <2>1, CountFacts
    <2>5. DepthIn(pg, e) \in Int
      BY <2>4 DEF DepthIn
    <2>6. DepthIn(more, e) = DepthIn(pg, e)
      BY <2>3 DEF DepthIn, CountIn
    <2>7. QED BY <2>5, <2>6
  <1> HIDE DEF more
  <1> DEFINE o == CountIn(more, "open", l)
             c == CountIn(more, "close", l)
             o2 == CountIn(more, "open", l + 1)
             c2 == CountIn(more, "close", l + 1)
  <1>3. /\ o \in Nat /\ c \in Nat
        /\ (x.kind = "open" => o2 = o + 1) /\ (x.kind # "open" => o2 = o)
        /\ (x.kind = "close" => c2 = c + 1) /\ (x.kind # "close" => c2 = c)
    BY <1>1, CountFacts
  <1>4. DepthIn(pg, l) = o - c
    <2>1. l \in 0..l
      BY <1>1
    <2>2. DepthIn(more, l) = o - c
      BY DEF DepthIn
    <2>3. QED BY <1>2, <2>1, <2>2
  <1>5. DepthIn(more, l + 1) = o2 - c2
    BY DEF DepthIn
  <1> HIDE DEF o, c, o2, c2
  <1>6. CASE x.kind = "open"
    BY <1>2, <1>3, <1>4, <1>5, <1>6 DEF more
  <1>7. CASE x.kind = "close"
    BY <1>2, <1>3, <1>4, <1>5, <1>7 DEF more
  <1>8. CASE x.kind \notin {"open", "close"}
    BY <1>2, <1>3, <1>4, <1>5, <1>8 DEF more
  <1>9. QED BY <1>6, <1>7, <1>8

\* Where the open sections began.
LEMMA BegunGrows ==
  ASSUME NEW pg \in Seq(Elements), NEW x \in Elements, NEW n
  PROVE  BegunIn(Append(pg, x), n) =
           BegunIn(pg, n) \cup IF x.kind = "open" /\ DepthIn(pg, Len(pg)) + 1 = n THEN {Len(pg) + 1} ELSE {}
  <1> DEFINE more == Append(pg, x)
             l == Len(pg)
  <1>1. l \in Nat /\ more[l + 1] = x /\ (\A i \in 1..l : more[i] = pg[i]) /\ DOMAIN more = 1..(l + 1) /\ DOMAIN pg = 1..l
    OBVIOUS
  <1>2. /\ \A e \in 1..l : DepthIn(more, e) = DepthIn(pg, e)
        /\ x.kind = "open" => DepthIn(more, l + 1) = DepthIn(pg, l) + 1
    <2>1. \A e \in 1..l : e \in 0..l
      BY <1>1
    <2>2. QED BY <2>1, DepthFacts
  <1>3. 1..(l + 1) = (1..l) \cup {l + 1}
    BY <1>1
  <1> HIDE DEF more, l
  <1>4. BegunIn(more, n) = BegunIn(pg, n) \cup IF x.kind = "open" /\ DepthIn(pg, l) + 1 = n THEN {l + 1} ELSE {}
    BY <1>1, <1>2, <1>3 DEF BegunIn
  <1>5. QED BY <1>4 DEF more, l

LEMMA OpenedStays ==
  ASSUME NEW pg \in Seq(Elements), NEW x \in Elements, NEW n, x.kind = "open" => DepthIn(pg, Len(pg)) + 1 # n
  PROVE  OpenedIn(Append(pg, x), n) = OpenedIn(pg, n)
  <1>1. BegunIn(Append(pg, x), n) = BegunIn(pg, n)
    <2>1. ~(x.kind = "open" /\ DepthIn(pg, Len(pg)) + 1 = n)
      OBVIOUS
    <2>2. BegunIn(Append(pg, x), n) = BegunIn(pg, n) \cup {}
      BY <2>1, BegunGrows
    <2>3. QED BY <2>2
  <1>2. QED BY <1>1 DEF OpenedIn

LEMMA OpenedNow ==
  ASSUME NEW pg \in Seq(Elements), NEW x \in Elements, x.kind = "open"
  PROVE  OpenedIn(Append(pg, x), DepthIn(pg, Len(pg)) + 1) = Len(pg) + 1
  <1> DEFINE l == Len(pg)
             n == DepthIn(pg, l) + 1
             B == BegunIn(Append(pg, x), n)
  <1>1. B = BegunIn(pg, n) \cup {l + 1}
    BY BegunGrows
  <1>2. l \in Nat /\ BegunIn(pg, n) \subseteq 1..l
    BY DEF BegunIn
  <1> HIDE DEF B
  <1>3. l + 1 \in B /\ \A f \in B : f <= l + 1 /\ f \in Nat
    BY <1>1, <1>2
  <1>4. \A e \in B : (\A f \in B : f <= e) => e = l + 1
    BY <1>3
  <1>5. (CHOOSE e \in B : \A f \in B : f <= e) = l + 1
    BY <1>3, <1>4
  <1>6. QED BY <1>5 DEF B, OpenedIn

\* What a section has of its own.
LEMMA OwnPieceType ==
  ASSUME NEW pg \in Seq(Elements), NEW n, NEW e \in 1..Len(pg)
  PROVE  OwnPiece(pg, n, e) \in Seq(Ids)
  <1>1. pg[e].n \in Nat /\ e \in Nat
    <2>1. pg[e] \in Elements
      OBVIOUS
    <2>2. QED BY <2>1 DEF Elements
  <1> DEFINE k == pg[e].n
  <1>2. \A i \in 1..k : <<e, i>> \in Ids
    BY <1>1 DEF Ids
  <1>3. [i \in 1..k |-> <<e, i>>] \in Seq(Ids)
    <2> HIDE DEF k
    <2>1. QED BY <1>1, <1>2 DEF k
  <1>4. <<>> \in Seq(Ids)
    OBVIOUS
  <1>5. QED BY <1>3, <1>4 DEF OwnPiece

LEMMA OwnNone ==
  ASSUME NEW pg, NEW n, NEW from
  PROVE  OwnFrom(pg, n, from, 0) = <<>>
  <1> DEFINE parts == [k \in 1..0 |-> OwnPiece(pg, n, from + k)]
  <1>1. parts = <<>>
    BY 1..0 = {}
  <1>2. <<>> \in Seq(Seq(Ids)) /\ Len(<<>>) = 0
    OBVIOUS
  <1>3. FlattenSeq(<<>>) = <<>>
    <2>1. PICK f : f[0] = <<>> /\ FlattenSeq(<<>>) = f[Len(<<>>)]
      BY <1>2, FlattenSteps
    <2>2. QED BY <1>2, <2>1
  <1>4. QED BY <1>1, <1>3, Zenon DEF OwnFrom

LEMMA OwnMore ==
  ASSUME NEW pg \in Seq(Elements), NEW n, NEW from \in Nat, NEW d \in Nat, from + d = Len(pg), NEW x \in Elements
  PROVE  OwnFrom(Append(pg, x), n, from, d + 1) = OwnFrom(pg, n, from, d) \o OwnPiece(Append(pg, x), n, Len(pg) + 1)
  <1> DEFINE more == Append(pg, x)
             part(k) == OwnPiece(pg, n, from + k)
             parts == [k \in 1..d |-> part(k)]
             last == OwnPiece(more, n, Len(pg) + 1)
             part2(k) == OwnPiece(more, n, from + k)
             parts2 == [k \in 1..(d + 1) |-> part2(k)]
  <1>1. more \in Seq(Elements) /\ Len(pg) + 1 \in 1..Len(more)
    OBVIOUS
  <1>2. last \in Seq(Ids)
    BY <1>1, OwnPieceType
  <1>3. ASSUME NEW k \in 1..d PROVE part(k) \in Seq(Ids) /\ part2(k) = part(k)
    <2> DEFINE e == from + k
    <2>1. e \in 1..Len(pg) /\ e \in 0..Len(pg)
      OBVIOUS
    <2>2. more[e] = pg[e]
      BY <2>1
    <2>3. DepthIn(more, e) = DepthIn(pg, e)
      <3> HIDE DEF e
      <3>1. QED BY <2>1, DepthFacts
    <2> HIDE DEF e, more
    <2>4. OwnPiece(pg, n, e) \in Seq(Ids) /\ OwnPiece(more, n, e) = OwnPiece(pg, n, e)
      BY <2>1, <2>2, <2>3, OwnPieceType DEF OwnPiece
    <2>5. QED BY <2>4 DEF e
  <1>4. part2(d + 1) = last
    <2>1. from + (d + 1) = Len(pg) + 1
      OBVIOUS
    <2>2. QED BY <2>1, Zenon
  <1> HIDE DEF part, part2, last
  <1>5. parts \in Seq(Seq(Ids)) /\ Len(parts) = d /\ \A k \in 1..d : parts[k] = part(k)
    BY <1>3
  <1>6. parts2 = Append(parts, last)
    <2> DEFINE both == Append(parts, last)
    <2>1. both \in Seq(Seq(Ids)) /\ Len(both) = d + 1 /\ both[d + 1] = last /\ \A k \in 1..d : both[k] = parts[k]
      <3> HIDE DEF parts
      <3>1. QED BY <1>2, <1>5
    <2>2. parts2 \in Seq(Seq(Ids)) /\ Len(parts2) = d + 1 /\ \A k \in 1..(d + 1) : parts2[k] = part2(k)
      <3>1. \A k \in 1..(d + 1) : k \in 1..d \/ k = d + 1
        OBVIOUS
      <3>2. \A k \in 1..(d + 1) : part2(k) \in Seq(Ids)
        BY <1>2, <1>3, <1>4, <3>1
      <3>3. QED BY <3>2
    <2>3. \A k \in 1..(d + 1) : both[k] = parts2[k]
      <3>1. \A k \in 1..(d + 1) : k \in 1..d \/ k = d + 1
        OBVIOUS
      <3>2. d + 1 \in 1..(d + 1)
        OBVIOUS
      <3> HIDE DEF both, parts, parts2
      <3>3. QED BY <1>3, <1>4, <1>5, <2>1, <2>2, <3>1, <3>2
    <2> HIDE DEF both, parts, parts2
    <2>4. both = parts2
      BY <2>1, <2>2, <2>3
    <2>5. QED BY <2>4 DEF both
  <1>7. FlattenSeq(Append(parts, last)) = FlattenSeq(parts) \o last
    <2> HIDE DEF parts
    <2>1. QED BY <1>2, <1>5, FlattenAppend
  <1>8. QED BY <1>6, <1>7, Zenon DEF OwnFrom, part, part2, last

LEMMA OwnGrows ==
  ASSUME NEW pg \in Seq(Elements), NEW x \in Elements, NEW n, OpenedIn(pg, n) \in 1..Len(pg),
         x.kind = "open" => DepthIn(pg, Len(pg)) + 1 # n
  PROVE  /\ OpenedIn(Append(pg, x), n) = OpenedIn(pg, n)
         /\ OwnIn(Append(pg, x), n) = OwnIn(pg, n) \o OwnPiece(Append(pg, x), n, Len(pg) + 1)
  <1> DEFINE o == OpenedIn(pg, n)
             d == Len(pg) - o
  <1>1. OpenedIn(Append(pg, x), n) = o
    BY OpenedStays
  <1>2. o \in Nat /\ d \in Nat /\ o + d = Len(pg) /\ Len(Append(pg, x)) - o = d + 1
    <2>1. Len(pg) \in Nat /\ Len(Append(pg, x)) = Len(pg) + 1
      OBVIOUS
    <2> HIDE DEF o
    <2>2. o \in 1..Len(pg)
      BY DEF o
    <2>3. QED BY <2>1, <2>2
  <1>3. OwnFrom(Append(pg, x), n, o, d + 1) = OwnFrom(pg, n, o, d) \o OwnPiece(Append(pg, x), n, Len(pg) + 1)
    <2> HIDE DEF o, d
    <2>1. QED BY <1>2, OwnMore
  <1>4. OwnIn(pg, n) = OwnFrom(pg, n, o, d)
    BY DEF OwnIn
  <1>5. OwnIn(Append(pg, x), n) = OwnFrom(Append(pg, x), n, o, d + 1)
    <2> HIDE DEF o, d
    <2>1. QED BY <1>1, <1>2 DEF OwnIn
  <1>6. QED BY <1>1, <1>3, <1>4, <1>5

LEMMA OwnBegins ==
  ASSUME NEW pg \in Seq(Elements), NEW x \in Elements, x.kind = "open"
  PROVE  OwnIn(Append(pg, x), DepthIn(pg, Len(pg)) + 1) = <<>>
  <1> DEFINE n == DepthIn(pg, Len(pg)) + 1
  <1>1. OpenedIn(Append(pg, x), n) = Len(pg) + 1
    BY OpenedNow
  <1>2. Len(Append(pg, x)) - (Len(pg) + 1) = 0
    OBVIOUS
  <1>3. QED BY <1>1, <1>2, OwnNone DEF OwnIn

-----------------------------------------------------------------------------
(* The builders of the open sections. *)

\* The n-th builder: what is written is of its section or of sections in it, and whoever
\* looks for what belongs to its section reads that.
FrameOK(pg, k, n) ==
  LET b == k.builder
      own == OwnIn(pg, n)
  IN  /\ {"builder", "first"} \subseteq DOMAIN k
      /\ b \in Builders(b.headers) /\ Sound(b)
      /\ OpenedIn(pg, n) \in 1..Len(pg)
      /\ own \in Seq(Ids) /\ ReadIn(Written(b), ToSet(own)) = own
      /\ \A id \in ToSet(Written(b)) : id[1] \in 1..Len(pg) /\ DepthIn(pg, id[1]) >= n
      /\ \A id \in ToSet(own) : id[1] \in 1..Len(pg) /\ DepthIn(pg, id[1]) = n

LEMMA ToSetConcat ==
  ASSUME NEW A, NEW s \in Seq(A), NEW t \in Seq(A)
  PROVE  ToSet(s \o t) = ToSet(s) \cup ToSet(t) /\ s \o t \in Seq(A)
  <1> DEFINE T == {r \in Seq(A) : ToSet(s \o r) = ToSet(s) \cup ToSet(r)}
  <1>1. <<>> \in T
    <2>1. s \o <<>> = s /\ <<>> \in Seq(A)
      OBVIOUS
    <2>2. ToSet(<<>>) = {}
      BY DEF ToSet
    <2>3. QED BY <2>1, <2>2
  <1>2. ASSUME NEW r \in Seq(A), NEW x \in A, r \in T PROVE Append(r, x) \in T
    <2>1. s \o Append(r, x) = Append(s \o r, x) /\ s \o r \in Seq(A) /\ Append(r, x) \in Seq(A)
      BY ConcatAppend
    <2>2. ToSet(Append(s \o r, x)) = ToSet(s \o r) \cup {x} /\ ToSet(Append(r, x)) = ToSet(r) \cup {x}
      BY <2>1, ToSetAppend
    <2>3. QED BY <1>2, <2>1, <2>2
  <1>3. Seq(A) \subseteq T
    <2> HIDE DEF T
    <2>1. QED BY <1>1, <1>2, SeqClosed
  <1>4. QED BY <1>3

\* The places of an element.
PlacesOf(e, n) == [i \in 1..n |-> <<e, i>>]

LEMMA PlacesOfFacts ==
  ASSUME NEW e \in Nat, NEW n \in Nat
  PROVE  /\ PlacesOf(e, n) \in Seq(Ids) /\ Distinct(PlacesOf(e, n))
         /\ ToSet(PlacesOf(e, n)) = {<<e, i>> : i \in 1..n}
         /\ \A id \in ToSet(PlacesOf(e, n)) : id[1] = e
         /\ n = 0 => PlacesOf(e, n) = <<>>
  <1> DEFINE z == PlacesOf(e, n)
  <1>1. \A i \in 1..n : <<e, i>> \in Ids
    BY DEF Ids
  <1>2. z \in Seq(Ids) /\ Len(z) = n /\ DOMAIN z = 1..n /\ \A i \in 1..n : z[i] = <<e, i>>
    BY <1>1 DEF PlacesOf
  <1> HIDE DEF z
  <1>3. Distinct(z)
    <2>1. ASSUME NEW i \in 1..n, NEW j \in 1..n, z[i] = z[j] PROVE i = j
      <3>1. <<e, i>> = <<e, j>>
        BY <1>2, <2>1
      <3>2. QED BY <3>1
    <2>2. QED BY <1>2, <2>1 DEF Distinct
  <1>4. ToSet(z) = {<<e, i>> : i \in 1..n}
    BY <1>2 DEF ToSet
  <1>5. \A id \in ToSet(z) : id[1] = e
    BY <1>4
  <1>6. n = 0 => z = <<>>
    BY <1>2
  <1>7. QED BY <1>2, <1>3, <1>4, <1>5, <1>6 DEF z

LEMMA OwnPieceIs ==
  ASSUME NEW pg \in Seq(Elements), NEW x \in Elements, NEW n
  PROVE  /\ DepthIn(Append(pg, x), Len(pg) + 1) = n => OwnPiece(Append(pg, x), n, Len(pg) + 1) = PlacesOf(Len(pg) + 1, x.n)
         /\ DepthIn(Append(pg, x), Len(pg) + 1) # n \/ x.n = 0 => OwnPiece(Append(pg, x), n, Len(pg) + 1) = <<>>
  <1> DEFINE more == Append(pg, x)
             e == Len(pg) + 1
  <1>1. more[e] = x /\ e \in Nat
    BY PageGrows
  <1>2. x.n \in Nat /\ (x.n = 0 => PlacesOf(e, x.n) = <<>>)
    <2>1. x.n \in Nat
      BY DEF Elements
    <2> HIDE DEF e
    <2>2. QED BY <1>1, <2>1, PlacesOfFacts
  <1> HIDE DEF more, e
  <1>3. /\ DepthIn(more, e) = n => OwnPiece(more, n, e) = PlacesOf(e, x.n)
        /\ DepthIn(more, e) # n => OwnPiece(more, n, e) = <<>>
    BY <1>1 DEF OwnPiece, PlacesOf
  <1>4. QED BY <1>2, <1>3 DEF more, e

\* What was there stays as deep as it was.
LEMMA DeepStays ==
  ASSUME NEW pg \in Seq(Elements), NEW x \in Elements, NEW e \in 1..Len(pg)
  PROVE  e \in 1..Len(Append(pg, x)) /\ DepthIn(Append(pg, x), e) = DepthIn(pg, e) /\ DepthIn(pg, e) \in Int
         /\ e # Len(pg) + 1
  <1>1. e \in 0..Len(pg) /\ e \in 1..Len(Append(pg, x)) /\ e # Len(pg) + 1
    OBVIOUS
  <1>2. QED BY <1>1, DepthFacts

\* The innermost section, after an element in it.
LEMMA FrameReads ==
  ASSUME NEW pg \in Seq(Elements), NEW x \in Elements, x.kind \notin {"open", "close"},
         NEW n, n = DepthIn(pg, Len(pg)), NEW k, FrameOK(pg, k, n),
         NEW k2, {"builder", "first"} \subseteq DOMAIN k2, k2.builder \in Builders(k2.builder.headers),
         Sound(k2.builder),
         SameRead(Written(k2.builder), Written(k.builder) \o PlacesOf(Len(pg) + 1, x.n))
  PROVE  /\ FrameOK(Append(pg, x), k2, n)
         /\ ToSet(Written(k2.builder)) = ToSet(Written(k.builder)) \cup {<<Len(pg) + 1, i>> : i \in 1..x.n}
  <1> DEFINE more == Append(pg, x)
             e == Len(pg) + 1
             z == PlacesOf(e, x.n)
             w == Written(k.builder)
             w2 == Written(k2.builder)
             own == OwnIn(pg, n)
             own2 == OwnIn(more, n)
  <1>1. e \in Nat /\ x.n \in Nat /\ e \in 1..Len(more) /\ Len(pg) \in 0..Len(pg)
    BY PageGrows DEF Elements
  <1>2. z \in Seq(Ids) /\ Distinct(z) /\ ToSet(z) = {<<e, i>> : i \in 1..x.n} /\ \A id \in ToSet(z) : id[1] = e
    <2> HIDE DEF e
    <2>1. QED BY <1>1, PlacesOfFacts
  <1>3. DepthIn(more, e) = n /\ n \in Int
    BY <1>1, DepthFacts
  <1>4. OpenedIn(more, n) = OpenedIn(pg, n) /\ own2 = own \o z /\ OpenedIn(pg, n) \in 1..Len(pg)
    <2>1. OpenedIn(pg, n) \in 1..Len(pg)
      BY DEF FrameOK
    <2>2. OpenedIn(more, n) = OpenedIn(pg, n) /\ own2 = own \o OwnPiece(more, n, e)
      BY <2>1, OwnGrows
    <2>3. OwnPiece(more, n, e) = z
      BY <1>3, OwnPieceIs
    <2>4. QED BY <2>1, <2>2, <2>3
  <1>5. w \in Seq(Ids) /\ own \in Seq(Ids) /\ ReadIn(w, ToSet(own)) = own
    BY WrittenType DEF FrameOK
  <1>6. \A id \in ToSet(w) \cup ToSet(own) : id[1] \in 1..Len(pg)
    BY DEF FrameOK
  <1>7. ToSet(z) \cap (ToSet(w) \cup ToSet(own)) = {}
    BY <1>2, <1>6, DeepStays
  <1>8. SameRead(w2, w \o z)
    OBVIOUS
  <1>9. OpenedIn(more, n) \in 1..Len(more)
    BY <1>4, DeepStays
  <1>10. \A id \in ToSet(w) : id[1] \in 1..Len(more) /\ DepthIn(more, id[1]) >= n
    BY DeepStays DEF FrameOK
  <1>11. \A id \in ToSet(own) : id[1] \in 1..Len(more) /\ DepthIn(more, id[1]) = n
    BY DeepStays DEF FrameOK
  <1> HIDE DEF z, w, w2, own, own2, e, more
  <1>12. ReadIn(w \o z, ToSet(own \o z)) = own \o z
    BY <1>2, <1>5, <1>7, ReadNew
  <1>13. own2 \in Seq(Ids) /\ ReadIn(w2, ToSet(own2)) = own2
    <2>1. own \o z \in Seq(Ids)
      BY <1>2, <1>5, ToSetConcat
    <2>2. ReadIn(w2, ToSet(own2)) = ReadIn(w \o z, ToSet(own2))
      BY <1>8 DEF SameRead
    <2>3. QED BY <1>4, <1>12, <2>1, <2>2
  <1>14. ToSet(w2) = ToSet(w) \cup ToSet(z) /\ ToSet(own2) = ToSet(own) \cup ToSet(z)
    BY <1>2, <1>4, <1>5, <1>8, SameSet, ToSetConcat
  <1>15. \A id \in ToSet(w2) : id[1] \in 1..Len(more) /\ DepthIn(more, id[1]) >= n
    <2>1. DepthIn(more, e) >= n
      BY <1>3
    <2>2. QED BY <1>1, <1>2, <1>10, <1>14, <2>1
  <1>16. \A id \in ToSet(own2) : id[1] \in 1..Len(more) /\ DepthIn(more, id[1]) = n
    BY <1>1, <1>2, <1>3, <1>11, <1>14
  <1>17. FrameOK(more, k2, n)
    BY <1>9, <1>13, <1>15, <1>16 DEF FrameOK, w2, own2
  <1>18. QED BY <1>2, <1>14, <1>17 DEF w2, w, more, e

\* A section, after an element that does not belong to it: perhaps it gets a place of
\* a section within.
LEMMA FrameWaits ==
  ASSUME NEW pg \in Seq(Elements), NEW x \in Elements, NEW n, NEW k, FrameOK(pg, k, n),
         x.kind = "open" => DepthIn(pg, Len(pg)) + 1 # n,
         DepthIn(Append(pg, x), Len(pg) + 1) # n \/ x.n = 0,
         NEW k2, {"builder", "first"} \subseteq DOMAIN k2, k2.builder \in Builders(k2.builder.headers),
         Sound(k2.builder), n \in Int, NEW id \in Ids,
         \/ Written(k2.builder) = Written(k.builder)
         \/ /\ Written(k2.builder) = Append(Written(k.builder), id)
            /\ id[1] \in 1..Len(pg) /\ DepthIn(pg, id[1]) > n
  PROVE  FrameOK(Append(pg, x), k2, n) /\ ToSet(Written(k.builder)) \subseteq ToSet(Written(k2.builder))
  <1> DEFINE more == Append(pg, x)
             w == Written(k.builder)
             w2 == Written(k2.builder)
             own == OwnIn(pg, n)
  <1>1. OpenedIn(pg, n) \in 1..Len(pg) /\ own \in Seq(Ids) /\ w \in Seq(Ids) /\ ReadIn(w, ToSet(own)) = own
    BY WrittenType DEF FrameOK
  <1>2. OpenedIn(more, n) = OpenedIn(pg, n) /\ OwnIn(more, n) = own
    <2>1. OwnIn(more, n) = own \o OwnPiece(more, n, Len(pg) + 1) /\ OpenedIn(more, n) = OpenedIn(pg, n)
      BY <1>1, OwnGrows
    <2>2. OwnPiece(more, n, Len(pg) + 1) = <<>>
      BY OwnPieceIs
    <2> HIDE DEF own
    <2>3. QED BY <1>1, <2>1, <2>2
  <1>3. OpenedIn(more, n) \in 1..Len(more)
    BY <1>1, <1>2, DeepStays
  <1>4. \A i \in ToSet(own) : i[1] \in 1..Len(pg) /\ DepthIn(pg, i[1]) = n /\ i[1] \in 1..Len(more) /\ DepthIn(more, i[1]) = n
    BY DeepStays DEF FrameOK
  <1>5. \A i \in ToSet(w) : i[1] \in 1..Len(more) /\ DepthIn(more, i[1]) >= n
    BY DeepStays DEF FrameOK
  <1>6. /\ ReadIn(w2, ToSet(own)) = own /\ ToSet(w) \subseteq ToSet(w2)
        /\ \A i \in ToSet(w2) : i[1] \in 1..Len(more) /\ DepthIn(more, i[1]) >= n
    <2>1. CASE w2 = w
      <3> HIDE DEF w, w2, own, more
      <3>1. QED BY <1>1, <1>5, <2>1
    <2>2. CASE /\ w2 = Append(w, id)
               /\ id[1] \in 1..Len(pg) /\ DepthIn(pg, id[1]) > n
      <3>1. DepthIn(pg, id[1]) \in Int /\ DepthIn(more, id[1]) = DepthIn(pg, id[1]) /\ id[1] \in 1..Len(more)
        BY <2>2, DeepStays
      <3>2. id \notin ToSet(own)
        BY <1>4, <2>2, <3>1
      <3>3. DepthIn(more, id[1]) >= n
        BY <2>2, <3>1
      <3> HIDE DEF w, w2, own, more
      <3>4. ReadIn(w2, ToSet(own)) = own
        BY <1>1, <2>2, <3>2, ReadForeign
      <3>5. ToSet(w2) = ToSet(w) \cup {id}
        BY <1>1, <2>2, ToSetAppend
      <3>6. QED BY <1>5, <3>1, <3>3, <3>4, <3>5
    <2>3. QED BY <2>1, <2>2
  <1> HIDE DEF own, w, w2, more
  <1>7. FrameOK(more, k2, n)
    BY <1>1, <1>2, <1>3, <1>4, <1>6 DEF FrameOK, w2
  <1>8. QED BY <1>6, <1>7 DEF more, w, w2

\* A section that begins.
LEMMA FrameBegins ==
  ASSUME NEW pg \in Seq(Elements), NEW x \in Elements, x.kind = "open", NEW head,
         NEW k, {"builder", "first"} \subseteq DOMAIN k, k.builder = BlockBuilder(head)
  PROVE  FrameOK(Append(pg, x), k, DepthIn(pg, Len(pg)) + 1)
  <1> DEFINE b == BlockBuilder(head)
             n == DepthIn(pg, Len(pg)) + 1
             more == Append(pg, x)
  <1>0. <<>> \in Seq(Toks) /\ <<>> \in Seq(Ids) /\ <<>> \in Seq(BlocksOf(head)) /\ Len(<<>>) = 0
        /\ 1..0 = {}
    OBVIOUS
  <1>1. b \in Builders(head) /\ b.headers = head /\ b.text = <<>> /\ b.siblings = <<>>
    BY <1>0 DEF BlockBuilder, Builders
  <1> HIDE DEF b
  <1>2. Sound(b)
    BY <1>0, <1>1 DEF Sound, ChunksOK, Coded
  <1>3. Written(b) = <<>>
    <2>1. [i \in DOMAIN <<>> |-> Places(<<>>[i].text)] = <<>>
      OBVIOUS
    <2>2. FlattenSeq(<<>>) = <<>>
      <3>1. <<>> \in Seq(Seq(Ids))
        OBVIOUS
      <3>2. PICK f : f[0] = <<>> /\ FlattenSeq(<<>>) = f[Len(<<>>)]
        BY <3>1, FlattenSteps
      <3>3. QED BY <1>0, <3>2
    <2>3. Places(<<>>) = <<>>
      BY <1>0, PlacesFacts
    <2>4. <<>> \o <<>> = <<>>
      OBVIOUS
    <2>5. QED BY <1>1, <2>1, <2>2, <2>3, <2>4 DEF Written
  <1>4. OwnIn(more, n) = <<>>
    BY OwnBegins
  <1>5. OpenedIn(more, n) \in 1..Len(more)
    <2>1. OpenedIn(more, n) = Len(pg) + 1
      BY OpenedNow
    <2>2. QED BY <2>1, PageGrows
  <1>6. ToSet(<<>>) = {} /\ ReadIn(<<>>, {}) = <<>>
    BY ReadInNone DEF ToSet
  <1> HIDE DEF more, n
  <1>7. FrameOK(more, k, n)
    <2>1. k.builder = b
      BY DEF b
    <2>2. QED BY <1>0, <1>1, <1>2, <1>3, <1>4, <1>5, <1>6, <2>1 DEF FrameOK
  <1>8. QED BY <1>7 DEF more, n

-----------------------------------------------------------------------------
(* What is built of a page. *)

\* A place is in a builder of an open section, waits in a chunk, or is stored.
InChunks(chunks, id) == \E j \in 1..Len(chunks) : id \in ToSet(Places(chunks[j].text))
Stored(buf, docs, id) == InChunks(buf, id) \/ \E d \in docs : id \in ToSet(d)
Kept(ks, buf, docs, id) == Stored(buf, docs, id) \/ \E n \in 1..Len(ks) : id \in ToSet(Written(ks[n].builder))
Covered(pg, ks, buf, docs) == \A e \in 1..Len(pg) : \A i \in 1..pg[e].n : Kept(ks, buf, docs, <<e, i>>)
BlocksOK(buf) == IsSequence(buf) /\ \A j \in 1..Len(buf) : BlockOK(buf[j])
PageInv(pg, ks, buf, docs) ==
  /\ DepthIn(pg, Len(pg)) = Len(ks)
  /\ \A n \in 1..Len(ks) : FrameOK(pg, ks[n], n)
  /\ BlocksOK(buf)
  /\ Covered(pg, ks, buf, docs)

LEMMA CoveredMore ==
  ASSUME NEW pg \in Seq(Elements), NEW x \in Elements, NEW ks, NEW buf, NEW docs, Covered(pg, ks, buf, docs),
         NEW ks2, NEW buf2, NEW docs2, \A id : Kept(ks, buf, docs, id) => Kept(ks2, buf2, docs2, id),
         \A i \in 1..x.n : Kept(ks2, buf2, docs2, <<Len(pg) + 1, i>>)
  PROVE  Covered(Append(pg, x), ks2, buf2, docs2)
  <1> DEFINE more == Append(pg, x)
             l == Len(pg)
  <1>1. l \in Nat /\ Len(more) = l + 1 /\ more[l + 1] = x /\ \A e \in 1..l : more[e] = pg[e]
    BY PageGrows
  <1>2. \A e \in 1..(l + 1) : e \in 1..l \/ e = l + 1
    BY <1>1
  <1> HIDE DEF more
  <1>3. ASSUME NEW e \in 1..Len(more), NEW i \in 1..more[e].n PROVE Kept(ks2, buf2, docs2, <<e, i>>)
    <2>1. CASE e \in 1..l
      BY <1>1, <2>1, <1>3 DEF Covered
    <2>2. CASE e = l + 1
      BY <1>1, <2>2, <1>3
    <2>3. QED BY <1>1, <1>2, <2>1, <2>2
  <1>4. QED BY <1>3 DEF Covered, more

LEMMA KeptOn ==
  ASSUME NEW ks, NEW buf, NEW docs, NEW ks2, 1..Len(ks) \subseteq 1..Len(ks2),
         \A n \in 1..Len(ks) : ToSet(Written(ks[n].builder)) \subseteq ToSet(Written(ks2[n].builder))
  PROVE  \A id : Kept(ks, buf, docs, id) => Kept(ks2, buf, docs, id)
  BY DEF Kept

\* A sentence or code within a section.
LEMMA PageReads ==
  ASSUME NEW pg \in Seq(Elements), NEW x \in Elements, x.kind \notin {"open", "close"},
         NEW ks, NEW buf, NEW docs, PageInv(pg, ks, buf, docs), Len(ks) \in Nat, Len(ks) # 0,
         NEW b, b = ks[Len(ks)].builder, NEW b2 \in Builders(b.headers), Sound(b2),
         SameRead(Written(b2), Written(b) \o PlacesOf(Len(pg) + 1, x.n)),
         NEW ks2, Len(ks2) = Len(ks), \A n \in 1..Len(ks) : n # Len(ks) => ks2[n] = ks[n],
         {"builder", "first"} \subseteq DOMAIN ks2[Len(ks)], ks2[Len(ks)].builder = b2
  PROVE  PageInv(Append(pg, x), ks2, buf, docs)
  <1> DEFINE l == Len(ks)
             more == Append(pg, x)
             e == Len(pg) + 1
  <1>1. l \in Nat /\ l \in 1..l /\ Len(more) = e
    BY PageGrows
  <1>2. DepthIn(pg, Len(pg)) = l /\ DepthIn(more, e) = l
    BY DepthFacts DEF PageInv
  <1>3. b2 \in Builders(b2.headers)
    BY DEF Builders
  <1>4. /\ FrameOK(more, ks2[l], l)
        /\ ToSet(Written(b2)) = ToSet(Written(b)) \cup {<<e, i>> : i \in 1..x.n}
    <2> DEFINE k == ks[l]
               k2 == ks2[l]
    <2>1. /\ FrameOK(pg, k, l) /\ {"builder", "first"} \subseteq DOMAIN k2 /\ k2.builder \in Builders(k2.builder.headers)
          /\ Sound(k2.builder) /\ SameRead(Written(k2.builder), Written(k.builder) \o PlacesOf(Len(pg) + 1, x.n))
          /\ k.builder = b /\ k2.builder = b2
      BY <1>1, <1>3 DEF PageInv
    <2> HIDE DEF k, k2, l, more
    <2>2. FrameOK(Append(pg, x), k2, l)
      BY <1>2, <2>1, FrameReads
    <2>3. ToSet(Written(k2.builder)) = ToSet(Written(k.builder)) \cup {<<Len(pg) + 1, i>> : i \in 1..x.n}
      BY <1>2, <2>1, FrameReads
    <2>4. QED BY <2>1, <2>2, <2>3 DEF k2, more
  <1>5. ASSUME NEW n \in 1..l, n # l
        PROVE  FrameOK(more, ks2[n], n) /\ ToSet(Written(ks[n].builder)) \subseteq ToSet(Written(ks2[n].builder))
    <2> DEFINE k == ks[n]
    <2>1. FrameOK(pg, k, n)
      BY DEF PageInv
    <2>2. ks2[n] = k
      BY <1>5
    <2>3. {"builder", "first"} \subseteq DOMAIN k /\ k.builder \in Builders(k.builder.headers) /\ Sound(k.builder)
      BY <2>1 DEF FrameOK
    <2>4. n \in Int /\ x.kind # "open" /\ DepthIn(more, e) # n /\ <<0, 0>> \in Ids
      BY <1>1, <1>2, <1>5 DEF Ids
    <2> HIDE DEF k
    <2>5. FrameOK(more, k, n)
      BY <2>1, <2>3, <2>4, FrameWaits
    <2>6. QED BY <2>2, <2>5 DEF k
  <1>6. \A n \in 1..l : FrameOK(more, ks2[n], n) /\ ToSet(Written(ks[n].builder)) \subseteq ToSet(Written(ks2[n].builder))
    <2>1. ToSet(Written(ks[l].builder)) \subseteq ToSet(Written(ks2[l].builder))
      BY <1>4
    <2>2. QED BY <1>4, <1>5, <2>1
  <1>7. \A id : Kept(ks, buf, docs, id) => Kept(ks2, buf, docs, id)
    BY <1>6, KeptOn
  <1>8. \A i \in 1..x.n : Kept(ks2, buf, docs, <<e, i>>)
    BY <1>1, <1>4 DEF Kept
  <1>9. Covered(more, ks2, buf, docs)
    BY <1>7, <1>8, CoveredMore DEF PageInv
  <1>10. QED BY <1>1, <1>2, <1>6, <1>9 DEF PageInv

\* A heading.
LEMMA PageOpens ==
  ASSUME NEW pg \in Seq(Elements), NEW x \in Elements, x.kind = "open", x.n = 0,
         NEW ks, NEW buf, NEW docs, PageInv(pg, ks, buf, docs), Len(ks) \in Nat, NEW head,
         NEW ks2, Len(ks2) = Len(ks) + 1,
         \A n \in 1..Len(ks) : {"builder", "first"} \subseteq DOMAIN ks2[n] /\ ks2[n].builder = ks[n].builder,
         {"builder", "first"} \subseteq DOMAIN ks2[Len(ks) + 1], ks2[Len(ks) + 1].builder = BlockBuilder(head)
  PROVE  PageInv(Append(pg, x), ks2, buf, docs)
  <1> DEFINE l == Len(ks)
             more == Append(pg, x)
             e == Len(pg) + 1
  <1>1. l \in Nat /\ Len(more) = e
    BY PageGrows
  <1>2. DepthIn(pg, Len(pg)) = l /\ DepthIn(more, e) = l + 1
    BY DepthFacts DEF PageInv
  <1>3. FrameOK(more, ks2[l + 1], l + 1)
    <2> DEFINE k2 == ks2[l + 1]
    <2>1. {"builder", "first"} \subseteq DOMAIN k2 /\ k2.builder = BlockBuilder(head)
      OBVIOUS
    <2> HIDE DEF k2, l
    <2>2. FrameOK(Append(pg, x), k2, DepthIn(pg, Len(pg)) + 1)
      BY <2>1, FrameBegins
    <2>3. QED BY <1>2, <2>2 DEF k2
  <1>4. ASSUME NEW n \in 1..l
        PROVE  FrameOK(more, ks2[n], n) /\ ToSet(Written(ks[n].builder)) \subseteq ToSet(Written(ks2[n].builder))
    <2> DEFINE k == ks[n]
               k2 == ks2[n]
    <2>1. FrameOK(pg, k, n) /\ {"builder", "first"} \subseteq DOMAIN k2 /\ k2.builder = k.builder
      BY DEF PageInv
    <2>2. k2.builder \in Builders(k2.builder.headers) /\ Sound(k2.builder)
      BY <2>1 DEF FrameOK
    <2>3. n \in Int /\ DepthIn(pg, Len(pg)) + 1 # n /\ <<0, 0>> \in Ids
      BY <1>1, <1>2, <1>4 DEF Ids
    <2> HIDE DEF k, k2, l
    <2>4. FrameOK(Append(pg, x), k2, n) /\ ToSet(Written(k.builder)) \subseteq ToSet(Written(k2.builder))
      BY <2>1, <2>2, <2>3, FrameWaits
    <2>5. QED BY <2>4 DEF k, k2
  <1>5. 1..l \subseteq 1..(l + 1) /\ \A n \in 1..(l + 1) : n \in 1..l \/ n = l + 1
    BY <1>1
  <1>6. \A id : Kept(ks, buf, docs, id) => Kept(ks2, buf, docs, id)
    BY <1>4, <1>5, KeptOn
  <1>7. \A i \in 1..x.n : Kept(ks2, buf, docs, <<e, i>>)
    BY 1..0 = {}
  <1>8. Covered(more, ks2, buf, docs)
    BY <1>6, <1>7, CoveredMore DEF PageInv
  <1>9. \A n \in 1..Len(ks2) : FrameOK(more, ks2[n], n)
    BY <1>3, <1>4, <1>5
  <1>10. QED BY <1>1, <1>2, <1>8, <1>9 DEF PageInv

-----------------------------------------------------------------------------
(* Chunks that are inserted. *)

LEMMA ExpandIs ==
  ASSUME NEW c, BlockOK(c)
  PROVE  Expand(c.text, c.codes) = Places(c.text)
  <1>1. \A i \in DOMAIN c.text : c.text[i].ref # 0 => c.codes[c.text[i].ref] = c.text[i].id
    BY DEF BlockOK, Coded, TokCoded
  <1>2. QED BY <1>1 DEF Expand, Places

LEMMA FlattenMembers ==
  ASSUME NEW A, NEW seqs \in Seq(Seq(A)), NEW x
  PROVE  (x \in ToSet(FlattenSeq(seqs))) <=> (\E j \in 1..Len(seqs) : x \in ToSet(seqs[j]))
  <1> DEFINE In(r) == (x \in ToSet(FlattenSeq(r))) <=> (\E j \in 1..Len(r) : x \in ToSet(r[j]))
             T == {r \in Seq(Seq(A)) : In(r)}
  <1>1. <<>> \in T
    <2>1. FlattenSeq(<<>>) = <<>>
      <3>1. <<>> \in Seq(Seq(A)) /\ Len(<<>>) = 0
        OBVIOUS
      <3>2. PICK f : f[0] = <<>> /\ FlattenSeq(<<>>) = f[Len(<<>>)]
        BY <3>1, FlattenSteps
      <3>3. QED BY <3>1, <3>2
    <2>2. ToSet(<<>>) = {} /\ 1..Len(<<>>) = {} /\ <<>> \in Seq(Seq(A))
      BY DEF ToSet
    <2>3. QED BY <2>1, <2>2
  <1>2. ASSUME NEW r \in Seq(Seq(A)), NEW s \in Seq(A), r \in T PROVE Append(r, s) \in T
    <2> DEFINE u == Append(r, s)
    <2>1. /\ u \in Seq(Seq(A)) /\ Len(u) = Len(r) + 1 /\ Len(r) \in Nat /\ u[Len(r) + 1] = s
          /\ \A j \in 1..Len(r) : u[j] = r[j]
      OBVIOUS
    <2>2. FlattenSeq(u) = FlattenSeq(r) \o s
      BY FlattenAppend
    <2>3. ToSet(FlattenSeq(u)) = ToSet(FlattenSeq(r)) \cup ToSet(s)
      <3>1. FlattenSeq(r) \in Seq(A)
        BY FlattenType
      <3> HIDE DEF u
      <3>2. QED BY <2>2, <3>1, ToSetConcat
    <2>4. (x \in ToSet(FlattenSeq(r))) <=> (\E j \in 1..Len(r) : x \in ToSet(r[j]))
      BY <1>2
    <2>5. \A j \in 1..(Len(r) + 1) : j \in 1..Len(r) \/ j = Len(r) + 1
      BY <2>1
    <2>6. 1..Len(r) \subseteq 1..(Len(r) + 1) /\ Len(r) + 1 \in 1..(Len(r) + 1)
      BY <2>1
    <2> HIDE DEF u
    <2>7. In(u)
      BY <2>1, <2>3, <2>4, <2>5, <2>6
    <2>8. QED BY <2>1, <2>7 DEF u
  <1>3. Seq(Seq(A)) \subseteq T
    <2> HIDE DEF T
    <2>1. QED BY <1>1, <1>2, SeqClosed
  <1>4. QED BY <1>3

\* Once its last chunk is closed, all of a builder is in chunks.
LEMMA AllInChunks ==
  ASSUME NEW h, NEW b \in Builders(h), b.text = <<>>, NEW id
  PROVE  (id \in ToSet(Written(b))) <=> InChunks(b.siblings, id)
  <1>1. /\ Closed(b) \in Seq(Seq(Ids)) /\ Len(Closed(b)) = Len(b.siblings) /\ FlattenSeq(Closed(b)) \in Seq(Ids)
        /\ Written(b) = FlattenSeq(Closed(b)) \o Places(b.text)
    BY WrittenType
  <1>2. Places(b.text) = <<>>
    <2>1. <<>> \in Seq(Toks)
      OBVIOUS
    <2>2. QED BY <2>1, PlacesFacts
  <1>3. Written(b) = FlattenSeq(Closed(b))
    BY <1>1, <1>2, ConcatAppend
  <1>4. \A j \in 1..Len(b.siblings) : Closed(b)[j] = Places(b.siblings[j].text)
    <2>1. DOMAIN b.siblings = 1..Len(b.siblings)
      BY BuilderFields
    <2>2. QED BY <2>1 DEF Closed
  <1>5. (id \in ToSet(FlattenSeq(Closed(b)))) <=> (\E j \in 1..Len(Closed(b)) : id \in ToSet(Closed(b)[j]))
    <2>1. Closed(b) \in Seq(Seq(Ids))
      BY <1>1
    <2>2. QED BY <2>1, FlattenMembers
  <1>6. QED BY <1>1, <1>3, <1>4, <1>5 DEF InChunks

DocsOf(chunks) == {Expand(c.text, c.codes) : c \in ToSet(chunks)}

LEMMA Embeds ==
  ASSUME NEW all, BlocksOK(all), NEW m \in 0..Len(all),
         NEW buf, buf = SubSeq(all, m + 1, Len(all)),
         NEW docs, DocsOf(SubSeq(all, 1, m)) \subseteq docs
  PROVE  BlocksOK(buf) /\ \A id : InChunks(all, id) => Stored(buf, docs, id)
  <1> DEFINE l == Len(all)
             front == SubSeq(all, 1, m)
  <1>1. PICK A : all \in Seq(A)
    BY DEF BlocksOK, IsSequence
  <1>2. l \in Nat /\ m \in Nat /\ m <= l /\ \A j \in 1..l : BlockOK(all[j])
    BY <1>1 DEF BlocksOK
  <1>3. buf \in Seq(A) /\ Len(buf) = l - m /\ \A i \in 1..(l - m) : buf[i] = all[m + i]
    BY <1>1, <1>2
  <1>4. front \in Seq(A) /\ Len(front) = m /\ \A i \in 1..m : front[i] = all[i]
    BY <1>1, <1>2
  <1>5. \A i \in 1..(l - m) : m + i \in 1..l
    BY <1>2
  <1>6. BlocksOK(buf)
    BY <1>2, <1>3, <1>5 DEF BlocksOK, IsSequence
  <1> HIDE DEF front, l
  <1>7. ASSUME NEW j \in 1..l, NEW id \in ToSet(Places(all[j].text))
        PROVE  Stored(buf, docs, id)
    <2>1. CASE j \in 1..m
      <3>1. all[j] \in ToSet(front)
        BY <1>4, <2>1, ToSetFacts
      <3>2. Expand(all[j].text, all[j].codes) \in docs
        BY <3>1 DEF front, DocsOf
      <3>3. Expand(all[j].text, all[j].codes) = Places(all[j].text)
        BY <1>2, ExpandIs
      <3>4. QED BY <1>7, <3>2, <3>3 DEF Stored
    <2>2. CASE j \notin 1..m
      <3>1. j - m \in 1..(l - m) /\ m + (j - m) = j
        BY <1>2, <2>2
      <3>2. buf[j - m] = all[j]
        BY <1>3, <3>1
      <3>3. QED BY <1>3, <1>7, <3>1, <3>2 DEF Stored, InChunks
    <2>3. QED BY <2>1, <2>2
  <1>8. QED BY <1>6, <1>7 DEF l, InChunks

LEMMA BatchedFacts ==
  ASSUME NEW chunks, Len(chunks) \in Nat
  PROVE  Batched(chunks) \in 0..Len(chunks)
  <1> DEFINE l == Len(chunks)
             q == l \div BatchSize
  <1>1. BatchSize \in Nat /\ BatchSize > 0 /\ l \in Nat
    BY ManualAssumption
  <1>2. q \in Nat /\ BatchSize * q <= l
    <2> HIDE DEF l
    <2>1. QED BY <1>1
  <1>3. q * BatchSize \in Nat /\ q * BatchSize <= l
    <2> HIDE DEF q, l
    <2>1. q * BatchSize = BatchSize * q /\ q * BatchSize \in Nat
      BY <1>1, <1>2
    <2>2. QED BY <1>2, <2>1
  <1>4. Batched(chunks) = q * BatchSize
    BY DEF Batched
  <1> HIDE DEF q
  <1>5. QED BY <1>1, <1>3, <1>4

LEMMA JoinedBlocks ==
  ASSUME NEW buf, BlocksOK(buf), NEW chunks, BlocksOK(chunks), NEW all, all = buf \o chunks
  PROVE  BlocksOK(all) /\ \A id : InChunks(buf, id) \/ InChunks(chunks, id) => InChunks(all, id)
  <1> DEFINE l == Len(buf)
             m == Len(chunks)
  <1>1. PICK A : buf \in Seq(A)
    BY DEF BlocksOK, IsSequence
  <1>2. PICK B : chunks \in Seq(B)
    BY DEF BlocksOK, IsSequence
  <1> DEFINE C == A \cup B
  <1>3. buf \in Seq(C) /\ chunks \in Seq(C)
    BY <1>1, <1>2
  <1> HIDE DEF C
  <1>4. /\ all \in Seq(C) /\ l \in Nat /\ m \in Nat /\ Len(all) = l + m
        /\ (\A j \in 1..l : all[j] = buf[j]) /\ (\A j \in (l + 1)..(l + m) : all[j] = chunks[j - l])
    BY <1>3
  <1>5. \A j \in 1..m : l + j \in (l + 1)..(l + m) /\ l + j \in 1..(l + m) /\ (l + j) - l = j
    BY <1>4
  <1>6. \A j \in 1..l : j \in 1..(l + m)
    BY <1>4
  <1>7. \A j \in 1..(l + m) : j \in 1..l \/ (j \in (l + 1)..(l + m) /\ j - l \in 1..m)
    BY <1>4
  <1>8. \A j \in 1..Len(all) : BlockOK(all[j])
    <2> HIDE DEF l, m
    <2>1. (\A j \in 1..l : BlockOK(buf[j])) /\ (\A j \in 1..m : BlockOK(chunks[j]))
      BY DEF BlocksOK, l, m
    <2>2. QED BY <1>4, <1>7, <2>1
  <1>9. BlocksOK(all)
    BY <1>4, <1>8 DEF BlocksOK, IsSequence
  <1>10. \A j \in 1..m : all[l + j] = chunks[j] /\ l + j \in 1..Len(all)
    BY <1>4, <1>5
  <1>11. \A j \in 1..l : all[j] = buf[j] /\ j \in 1..Len(all)
    BY <1>4, <1>6
  <1>12. ASSUME NEW id, InChunks(buf, id) PROVE InChunks(all, id)
    BY <1>11, <1>12 DEF InChunks
  <1>13. ASSUME NEW id, InChunks(chunks, id) PROVE InChunks(all, id)
    <2> HIDE DEF l
    <2>1. QED BY <1>10, <1>13 DEF InChunks
  <1>14. QED BY <1>9, <1>12, <1>13

\* The end of a section.
LEMMA PageCloses ==
  ASSUME NEW pg \in Seq(Elements), NEW x \in Elements, x.kind = "close", x.n = 0,
         NEW ks, NEW buf, NEW docs, PageInv(pg, ks, buf, docs), Len(ks) \in Nat, Len(ks) # 0,
         NEW chunks, chunks = PushBlock(ks[Len(ks)].builder).siblings,
         NEW ks2, Len(ks2) = Len(ks) - 1,
         \A n \in 1..(Len(ks) - 1) :
           /\ {"builder", "first"} \subseteq DOMAIN ks2[n]
           /\ \/ ks2[n].builder = ks[n].builder
              \/ chunks # <<>> /\ ks2[n].builder = PushChild(ks[n].builder, chunks[1]),
         NEW all, all = buf \o chunks, NEW m, Len(all) \in Nat => m \in 0..Len(all),
         NEW buf2, buf2 = SubSeq(all, m + 1, Len(all)),
         NEW docs2, docs \subseteq docs2, DocsOf(SubSeq(all, 1, m)) \subseteq docs2
  PROVE  PageInv(Append(pg, x), ks2, buf2, docs2)
  <1> DEFINE l == Len(ks)
             more == Append(pg, x)
             e == Len(pg) + 1
             b == ks[l].builder
             h == b.headers
             B == PushBlock(b)
  <1>1. l \in Nat /\ l \in 1..l /\ Len(more) = e
    BY PageGrows
  <1>2. DepthIn(pg, Len(pg)) = l /\ DepthIn(more, e) = l - 1
    BY DepthFacts DEF PageInv
  <1>3. FrameOK(pg, ks[l], l)
    BY <1>1 DEF PageInv
  <1>4. b \in Builders(h) /\ Sound(b)
    BY <1>3 DEF FrameOK
  <1>5. B \in Builders(h) /\ B.text = <<>> /\ Written(B) = Written(b) /\ Sound(B) /\ chunks = B.siblings
    <2>1. chunks = B.siblings
      OBVIOUS
    <2> HIDE DEF b, h
    <2>2. QED BY <1>4, <2>1, PushFacts
  <1>6. \A id \in ToSet(Written(b)) : id[1] \in 1..Len(pg) /\ DepthIn(pg, id[1]) >= l
    BY <1>3 DEF FrameOK
  <1> HIDE DEF b, h, B
  <1>7. BlocksOK(chunks) /\ chunks \in Seq(BlocksOf(h))
    <2>1. chunks \in Seq(BlocksOf(h))
      BY <1>5, BuilderFields
    <2>2. \A j \in 1..Len(chunks) : BlockOK(chunks[j])
      BY <1>5 DEF Sound, ChunksOK
    <2>3. QED BY <2>1, <2>2 DEF BlocksOK, IsSequence
  <1>8. \A id : (id \in ToSet(Written(b))) <=> InChunks(chunks, id)
    BY <1>5, AllInChunks
  <1>9. BlocksOK(all) /\ \A id : InChunks(buf, id) \/ InChunks(chunks, id) => InChunks(all, id)
    <2>1. BlocksOK(buf)
      BY DEF PageInv
    <2>2. QED BY <1>7, <2>1, JoinedBlocks
  <1>10. BlocksOK(buf2) /\ \A id : InChunks(all, id) => Stored(buf2, docs2, id)
    <2>1. m \in 0..Len(all)
      BY <1>9, SequenceLength DEF BlocksOK
    <2>2. QED BY <1>9, <2>1, Embeds
  <1>11. ASSUME NEW n \in 1..(l - 1)
         PROVE  FrameOK(more, ks2[n], n) /\ ToSet(Written(ks[n].builder)) \subseteq ToSet(Written(ks2[n].builder))
    <2> DEFINE k == ks[n]
               k2 == ks2[n]
    <2>1. n \in 1..l /\ n \in Int /\ n < l /\ l \in Int
      BY <1>1
    <2>2. FrameOK(pg, k, n) /\ {"builder", "first"} \subseteq DOMAIN k2
      BY <2>1 DEF PageInv
    <2>3. k.builder \in Builders(k.builder.headers) /\ Sound(k.builder)
      BY <2>2 DEF FrameOK
    <2>4. k2.builder = k.builder \/ (chunks # <<>> /\ k2.builder = PushChild(k.builder, chunks[1]))
      OBVIOUS
    <2> HIDE DEF k, k2, l, more
    <2>5. x.kind = "open" => DepthIn(pg, Len(pg)) + 1 # n
      OBVIOUS
    <2>6. CASE k2.builder = k.builder
      <3>1. <<0, 0>> \in Ids
        BY DEF Ids
      <3>2. k2.builder \in Builders(k2.builder.headers) /\ Sound(k2.builder) /\ Written(k2.builder) = Written(k.builder)
        BY <2>3, <2>6
      <3>3. FrameOK(Append(pg, x), k2, n) /\ ToSet(Written(k.builder)) \subseteq ToSet(Written(k2.builder))
        BY <2>1, <2>2, <2>5, <3>1, <3>2, FrameWaits
      <3>4. QED BY <3>3 DEF k, k2, more
    <2>7. CASE chunks # <<>> /\ k2.builder = PushChild(k.builder, chunks[1])
      <3> DEFINE chunk == chunks[1]
                 id == chunk.text[1].id
                 hk == k.builder.headers
      <3>1. 1 \in 1..Len(chunks) /\ BlockOK(chunk)
        <4>1. 1 \in 1..Len(chunks)
          BY <1>7, <2>7
        <4>2. QED BY <1>7, <4>1 DEF BlocksOK
      <3>2. id \in ToSet(Places(chunk.text))
        <4>1. 1 \in 1..Len(chunk.text) /\ chunk.text \in Seq(Toks)
          BY <3>1 DEF BlockOK
        <4> HIDE DEF chunk
        <4>2. Places(chunk.text) \in Seq(Ids) /\ Len(Places(chunk.text)) = Len(chunk.text) /\ Places(chunk.text)[1] = id
          BY <4>1, PlacesFacts
        <4>3. QED BY <4>1, <4>2, ToSetFacts
      <3>3. id \in ToSet(Written(b))
        BY <1>8, <3>1, <3>2 DEF InChunks
      <3>4. id[1] \in 1..Len(pg) /\ DepthIn(pg, id[1]) > n
        <4>1. id[1] \in 1..Len(pg) /\ DepthIn(pg, id[1]) >= l
          BY <1>6, <3>3
        <4>2. DepthIn(pg, id[1]) \in Int
          BY <4>1, DeepStays
        <4>3. \A c \in Int : c >= l => c > n
          BY <2>1
        <4>4. QED BY <4>1, <4>2, <4>3
      <3>5. /\ k2.builder \in Builders(hk) /\ Sound(k2.builder) /\ id \in Ids
            /\ Written(k2.builder) = Written(k.builder) \/ Written(k2.builder) = Append(Written(k.builder), id)
        <4> HIDE DEF chunk, hk
        <4>1. k.builder \in Builders(hk) /\ k2.builder = PushChild(k.builder, chunk)
          BY <2>3, <2>7 DEF hk, chunk
        <4>2. QED BY <2>3, <3>1, <4>1, ChildGoesIn
      <3>6. k2.builder \in Builders(k2.builder.headers)
        BY <3>5 DEF Builders
      <3> HIDE DEF id, hk, chunk
      <3>7. FrameOK(Append(pg, x), k2, n) /\ ToSet(Written(k.builder)) \subseteq ToSet(Written(k2.builder))
        BY <2>1, <2>2, <2>5, <3>4, <3>5, <3>6, FrameWaits
      <3>8. QED BY <3>7 DEF k, k2, more
    <2>8. QED BY <2>4, <2>6, <2>7
  <1>12. ASSUME NEW id, Kept(ks, buf, docs, id) PROVE Kept(ks2, buf2, docs2, id)
    <2>1. CASE \E n \in 1..Len(ks) : id \in ToSet(Written(ks[n].builder))
      <3>1. PICK n \in 1..l : id \in ToSet(Written(ks[n].builder))
        BY <2>1
      <3>2. CASE n \in 1..(l - 1)
        BY <1>11, <3>1, <3>2 DEF Kept
      <3>3. CASE n \notin 1..(l - 1)
        <4>1. n = l
          BY <1>1, <3>3
        <4>2. id \in ToSet(Written(b))
          BY <3>1, <4>1 DEF b
        <4>3. InChunks(all, id)
          BY <1>8, <1>9, <4>2
        <4>4. QED BY <1>10, <4>3 DEF Kept
      <3>4. QED BY <3>2, <3>3
    <2>2. CASE InChunks(buf, id)
      BY <1>9, <1>10, <2>2 DEF Kept
    <2>3. CASE \E d \in docs : id \in ToSet(d)
      BY <2>3 DEF Kept, Stored
    <2>4. QED BY <1>12, <2>1, <2>2, <2>3 DEF Kept, Stored
  <1>13. \A i \in 1..x.n : Kept(ks2, buf2, docs2, <<e, i>>)
    BY 1..0 = {}
  <1>14. Covered(more, ks2, buf2, docs2)
    <2>1. Covered(pg, ks, buf, docs)
      BY DEF PageInv
    <2>2. QED BY <1>12, <1>13, <2>1, CoveredMore
  <1>15. DepthIn(more, Len(more)) = Len(ks2) /\ \A n \in 1..Len(ks2) : FrameOK(more, ks2[n], n)
    BY <1>1, <1>2, <1>11
  <1> HIDE DEF more
  <1>16. PageInv(more, ks2, buf2, docs2)
    BY <1>10, <1>14, <1>15 DEF PageInv
  <1>17. QED BY <1>16 DEF more

-----------------------------------------------------------------------------
(* The chunks of a build. *)

\* Of every element of the page that belongs to an open section, its builder has the
\* places, in order; of all that was read, every place is in a builder, in a chunk that
\* waits, or in a document that was inserted or whose insert failed; and what is left
\* of an earlier build is empty.
Tried(m) == m.documents \cup m.lost
ChunkInv ==
  /\ PageInv(page, stack, buffer, Tried(manual))
  /\ \A p \in Procs : client[p].at = "built" => stack = <<>> /\ buffer = <<>>
  /\ page # <<>> => \E p \in Procs : client[p].at \in BuildStates

\* Nothing is read yet.
LEMMA PageBegins ==
  ASSUME NEW buf, BlocksOK(buf), NEW docs
  PROVE  PageInv(<<>>, <<>>, buf, docs)
  <1>1. Len(<<>>) = 0 /\ 1..0 = {} /\ 0 \in Nat
    OBVIOUS
  <1>2. CountIn(<<>>, "open", 0) = 0 /\ CountIn(<<>>, "close", 0) = 0
    BY <1>1, CountFacts
  <1>3. DepthIn(<<>>, 0) = 0
    BY <1>2 DEF DepthIn
  <1>4. QED BY <1>1, <1>3 DEF PageInv, Covered

LEMMA NoBlocks == BlocksOK(<<>>)
  <1>1. <<>> \in Seq({}) /\ Len(<<>>) = 0 /\ 1..0 = {}
    OBVIOUS
  <1>2. QED BY <1>1 DEF BlocksOK, IsSequence

LEMMA Forgotten == ASSUME Forget, NEW docs PROVE PageInv(page', stack', buffer', docs)
  BY NoBlocks, PageBegins DEF Forget

\* The builder of the innermost section is another.
LEMMA HereIs ==
  ASSUME WalkInv, Len(stack) # 0, NEW b, {"builder", "first"} \subseteq DOMAIN stack[Len(stack)],
         NEW ks2, ks2 = [stack EXCEPT ![Len(stack)].builder = b]
  PROVE  /\ Len(ks2) = Len(stack) /\ \A n \in 1..Len(stack) : n # Len(stack) => ks2[n] = stack[n]
         /\ {"builder", "first"} \subseteq DOMAIN ks2[Len(stack)] /\ ks2[Len(stack)].builder = b
  <1> DEFINE k == Len(stack)
             f == [stack[k] EXCEPT !.builder = b]
  <1>1. k \in Nat /\ k \in 1..k /\ DOMAIN stack = 1..k
    BY StreamsFacts
  <1>2. {"builder", "first"} \subseteq DOMAIN f /\ f.builder = b
    OBVIOUS
  <1>3. ks2 = [stack EXCEPT ![k] = f]
    OBVIOUS
  <1>4. Len(ks2) = Len(stack)
    BY HereKeeps
  <1> HIDE DEF f, k
  <1>5. ks2[k] = f /\ \A n \in 1..k : n # k => ks2[n] = stack[n]
    BY <1>1, <1>3
  <1>6. QED BY <1>2, <1>4, <1>5 DEF k

LEMMA ReadChunks ==
  ASSUME WalkInv, NEW docs, PageInv(page, stack, buffer, docs), Len(stack) # 0,
         NEW x \in Elements, x.kind \notin {"open", "close"},
         NEW b2, stack' = [stack EXCEPT ![Len(stack)].builder = b2], page' = Append(page, x), buffer' = buffer,
         LET b == stack[Len(stack)].builder
         IN  (b \in Builders(b.headers) /\ Sound(b))
               => /\ b2 \in Builders(b.headers) /\ Sound(b2)
                  /\ SameRead(Written(b2), Written(b) \o PlacesOf(Len(page) + 1, x.n))
  PROVE  PageInv(page', stack', buffer', docs)
  <1> DEFINE k == stack[Len(stack)]
             b == k.builder
  <1>1. page \in Seq(Elements) /\ Len(stack) \in Nat /\ Len(stack) \in 1..Len(stack)
    BY StreamsFacts
  <1>2. FrameOK(page, k, Len(stack))
    BY <1>1 DEF PageInv
  <1>3. {"builder", "first"} \subseteq DOMAIN k /\ b \in Builders(b.headers) /\ Sound(b)
    BY <1>2 DEF FrameOK
  <1>4. b2 \in Builders(b.headers) /\ Sound(b2) /\ SameRead(Written(b2), Written(b) \o PlacesOf(Len(page) + 1, x.n))
    BY <1>3
  <1>5. /\ Len(stack') = Len(stack) /\ \A n \in 1..Len(stack) : n # Len(stack) => stack'[n] = stack[n]
        /\ {"builder", "first"} \subseteq DOMAIN stack'[Len(stack)] /\ stack'[Len(stack)].builder = b2
    BY <1>3, HereIs
  <1>6. b = stack[Len(stack)].builder
    OBVIOUS
  <1> HIDE DEF b, k
  <1>7. PageInv(Append(page, x), stack', buffer, docs)
    BY <1>1, <1>4, <1>5, <1>6, PageReads
  <1>8. QED BY <1>7

LEMMA ReadTextChunks ==
  ASSUME WalkInv, NEW docs, PageInv(page, stack, buffer, docs),
         NEW n \in Nat, n # 0, NEW s, NEW u, ReadText(n, s, u)
  PROVE  PageInv(page', stack', buffer', docs)
  <1> DEFINE x == [kind |-> "text", n |-> n]
             e == Len(page) + 1
             txt == [i \in 1..n |-> Sentence(<<e, i>>)]
             b == stack[Len(stack)].builder
             b2 == AppendText(b, txt, s, u)
  <1>1. page' = Append(page, x) /\ stack' = [stack EXCEPT ![Len(stack)].builder = b2] /\ buffer' = buffer /\ Top > 0
    BY DEF ReadText, Read, Here, Element, Top
  <1>2. x \in Elements /\ x.kind \notin {"open", "close"} /\ x.n = n
    BY DEF Elements
  <1>3. e \in Nat /\ Len(stack) # 0
    BY <1>1, StreamsFacts DEF Top
  <1>4. txt \in Seq(Toks) /\ Len(txt) = n /\ \A i \in 1..n : txt[i].ref = 0 /\ txt[i].id = <<e, i>>
    <2>1. ASSUME NEW i \in 1..n
          PROVE  Sentence(<<e, i>>) \in Toks /\ Sentence(<<e, i>>).ref = 0 /\ Sentence(<<e, i>>).id = <<e, i>>
      <3>1. <<e, i>> \in Ids
        BY <1>3 DEF Ids
      <3>2. QED BY <3>1 DEF Sentence, Toks
    <2> DEFINE sen(i) == Sentence(<<e, i>>)
    <2>2. \A i \in 1..n : sen(i) \in Toks /\ sen(i).ref = 0 /\ sen(i).id = <<e, i>>
      BY <2>1
    <2>3. txt = [i \in 1..n |-> sen(i)]
      OBVIOUS
    <2> HIDE DEF sen, txt, e
    <2>4. txt \in Seq(Toks)
      BY <2>2, <2>3
    <2>5. Len(txt) = n
      BY <2>3, <2>4
    <2>6. \A i \in 1..n : txt[i] = sen(i)
      BY <2>3
    <2>7. QED BY <2>2, <2>4, <2>5, <2>6
  <1>5. Places(txt) = PlacesOf(e, n)
    <2>1. DOMAIN txt = 1..n
      OBVIOUS
    <2> HIDE DEF txt, e
    <2>2. QED BY <1>4, <2>1 DEF Places, PlacesOf
  <1>6. ASSUME b \in Builders(b.headers), Sound(b)
        PROVE  b2 \in Builders(b.headers) /\ Sound(b2) /\ SameRead(Written(b2), Written(b) \o PlacesOf(e, n))
    <2> DEFINE h == b.headers
    <2>1. \A i \in 1..Len(txt) : txt[i].ref = 0
      BY <1>4
    <2>2. b \in Builders(h)
      BY <1>6
    <2> HIDE DEF txt, e, b, h
    <2>3. b2 \in Builders(h) /\ Sound(b2) /\ SameRead(Written(b2), Written(b) \o Places(txt))
      BY <1>4, <1>6, <2>1, <2>2, TextGoesIn
    <2>4. QED BY <1>5, <2>3 DEF h
  <1> HIDE DEF x, b2
  <1>7. QED BY <1>1, <1>2, <1>3, <1>6, ReadChunks

LEMMA ReadCodeChunks ==
  ASSUME WalkInv, NEW docs, PageInv(page, stack, buffer, docs), ReadCode
  PROVE  PageInv(page', stack', buffer', docs)
  <1> DEFINE x == [kind |-> "code", n |-> 1]
             e == Len(page) + 1
             b == stack[Len(stack)].builder
             b2 == AddCode(b, <<e, 1>>)
  <1>1. page' = Append(page, x) /\ stack' = [stack EXCEPT ![Len(stack)].builder = b2] /\ buffer' = buffer /\ Top > 0
    BY DEF ReadCode, Read, Here, Element, Top
  <1>2. x \in Elements /\ x.kind \notin {"open", "close"} /\ x.n = 1
    BY DEF Elements
  <1>3. e \in Nat /\ Len(stack) # 0 /\ <<e, 1>> \in Ids
    BY <1>1, StreamsFacts DEF Top, Ids
  <1>4. PlacesOf(e, 1) = << <<e, 1>> >>
    <2>1. DOMAIN PlacesOf(e, 1) = 1..1 /\ PlacesOf(e, 1)[1] = <<e, 1>> /\ PlacesOf(e, 1) \in Seq(Ids)
      BY <1>3, PlacesOfFacts DEF PlacesOf
    <2> DEFINE z == PlacesOf(e, 1)
    <2> HIDE DEF e
    <2>2. z \in Seq(Ids) /\ DOMAIN z = 1..1 /\ z[1] = <<e, 1>>
      BY <2>1
    <2> HIDE DEF z
    <2>3. Len(z) = 1
      BY <2>2
    <2>4. z # <<>> /\ Len(z) <= 1
      BY <2>3
    <2>5. z = << z[1] >>
      BY <2>2, <2>4, OneLong
    <2>6. QED BY <2>2, <2>5 DEF z
  <1>5. ASSUME b \in Builders(b.headers), Sound(b)
        PROVE  b2 \in Builders(b.headers) /\ Sound(b2) /\ SameRead(Written(b2), Written(b) \o PlacesOf(e, 1))
    <2> DEFINE h == b.headers
               id == <<e, 1>>
    <2>1. b \in Builders(h) /\ id \in Ids
      BY <1>3, <1>5
    <2> HIDE DEF b, h, id
    <2>2. AddCode(b, id) \in Builders(h) /\ Sound(AddCode(b, id)) /\ Written(AddCode(b, id)) = Append(Written(b), id)
      BY <1>5, <2>1, CodeFits, CodeGoesIn
    <2>3. Written(b) \in Seq(Ids) /\ Written(b) \o <<id>> = Append(Written(b), id) /\ Append(Written(b), id) \in Seq(Ids)
      BY <2>1, WrittenType, ConcatAppend, LastAppend
    <2>4. SameRead(Written(AddCode(b, id)), Written(b) \o <<id>>)
      BY <2>2, <2>3, SameRefl
    <2>5. QED BY <1>4, <2>2, <2>4 DEF h, id
  <1> HIDE DEF x, b2
  <1>6. QED BY <1>1, <1>2, <1>3, <1>5, ReadChunks

LEMMA SkipChunks ==
  ASSUME WalkInv, NEW docs, PageInv(page, stack, buffer, docs), SkipElement
  PROVE  PageInv(page', stack', buffer', docs)
  <1> DEFINE x == [kind |-> "skip", n |-> 0]
             e == Len(page) + 1
             k == stack[Len(stack)]
             b == k.builder
  <1>1. page' = Append(page, x) /\ stack' = stack /\ buffer' = buffer /\ Top > 0
    BY DEF SkipElement, Read
  <1>2. x \in Elements /\ x.kind \notin {"open", "close"} /\ x.n = 0
    BY DEF Elements
  <1>3. /\ e \in Nat /\ Len(stack) \in Nat /\ Len(stack) # 0 /\ Len(stack) \in 1..Len(stack)
        /\ page \in Seq(Elements)
    BY <1>1, StreamsFacts DEF Top
  <1>4. FrameOK(page, k, Len(stack))
    BY <1>3 DEF PageInv
  <1>5. {"builder", "first"} \subseteq DOMAIN k /\ b \in Builders(b.headers) /\ Sound(b)
    BY <1>4 DEF FrameOK
  <1>6. SameRead(Written(b), Written(b) \o PlacesOf(e, x.n))
    <2>1. PlacesOf(e, 0) = <<>>
      BY <1>3, PlacesOfFacts
    <2>2. Written(b) \in Seq(Ids)
      <3> HIDE DEF b
      <3>1. QED BY <1>5, WrittenType
    <2> DEFINE w == Written(b)
    <2> HIDE DEF w, e, b
    <2>3. w \o <<>> = w /\ SameRead(w, w)
      BY <2>2, SameRefl DEF w
    <2>4. QED BY <1>2, <2>1, <2>3 DEF w
  <1> HIDE DEF x
  <1>7. stack[Len(stack)] = k /\ k.builder = b
    OBVIOUS
  <1> HIDE DEF b, k
  <1>8. PageInv(Append(page, x), stack, buffer, docs)
    BY <1>2, <1>3, <1>5, <1>6, <1>7, PageReads
  <1>9. QED BY <1>1, <1>8

LEMMA OpenChunks ==
  ASSUME WalkInv, NEW docs, PageInv(page, stack, buffer, docs),
         NEW level, NEW heading, NEW example, OpenSection(level, heading, example)
  PROVE  PageInv(page', stack', buffer', docs)
  <1> DEFINE x == [kind |-> "open", n |-> 0]
             k == Len(stack)
             head == BlockHeader(level, heading)
             parent == IF Top = 0 THEN 0 ELSE stack[Top].stream
             shared == example /\ Top > 0
             ks == [n \in DOMAIN stack |-> IF n = Top THEN [stack[n] EXCEPT !.first = TRUE] ELSE stack[n]]
             f == [level |-> level, heading |-> heading, builder |-> BlockBuilder(head), first |-> FALSE,
                   stream |-> IF shared THEN parent ELSE Len(streams) + 1]
  <1>1. page' = Append(page, x) /\ stack' = Append(ks, f) /\ buffer' = buffer
    BY DEF OpenSection, Read
  <1>2. x \in Elements /\ x.kind = "open" /\ x.n = 0
    BY DEF Elements
  <1>3. k \in Nat /\ DOMAIN stack = 1..k /\ IsSequence(stack) /\ Top = k /\ page \in Seq(Elements)
    BY StreamsFacts DEF Top
  <1>4. {"builder", "first"} \subseteq DOMAIN f /\ f.builder = BlockBuilder(head)
    OBVIOUS
  <1>5. IsSequence(ks) /\ Len(ks) = k
    <2> DEFINE e(n) == IF n = Top THEN [stack[n] EXCEPT !.first = TRUE] ELSE stack[n]
    <2>1. ks = [n \in 1..k |-> e(n)]
      BY <1>3
    <2> HIDE DEF e, ks
    <2>2. ks = [n \in 1..k |-> ks[n]]
      BY <2>1
    <2> HIDE DEF k
    <2>3. QED BY <1>3, <2>2, MadeSequence
  <1>6. ASSUME NEW n \in 1..k PROVE {"builder", "first"} \subseteq DOMAIN ks[n] /\ ks[n].builder = stack[n].builder
    <2>1. {"builder", "first"} \subseteq DOMAIN stack[n]
      BY DEF PageInv, FrameOK
    <2>2. ks[n] = IF n = Top THEN [stack[n] EXCEPT !.first = TRUE] ELSE stack[n]
      BY <1>3
    <2> HIDE DEF ks
    <2>3. QED BY <2>1, <2>2
  <1> HIDE DEF x, f, ks, head
  <1> DEFINE ks2 == Append(ks, f)
  <1>7. Len(ks2) = k + 1 /\ ks2[k + 1] = f /\ \A n \in 1..k : ks2[n] = ks[n]
    BY <1>3, <1>5 DEF IsSequence
  <1> HIDE DEF ks2
  <1>8. \A n \in 1..k : {"builder", "first"} \subseteq DOMAIN ks2[n] /\ ks2[n].builder = stack[n].builder
    BY <1>6, <1>7
  <1>9. {"builder", "first"} \subseteq DOMAIN ks2[k + 1] /\ ks2[k + 1].builder = BlockBuilder(head)
    BY <1>4, <1>7
  <1> HIDE DEF shared, parent
  <1>10. PageInv(Append(page, x), ks2, buffer, docs)
    BY <1>2, <1>3, <1>7, <1>8, <1>9, PageOpens
  <1>11. QED BY <1>1, <1>10 DEF ks2

\* What is to be inserted is stored, or lost.
LEMMA EmbedStores ==
  ASSUME ManualOK(manual), NEW chunks, Embed(chunks)
  PROVE  Tried(manual') = Tried(manual) \cup DocsOf(chunks)
  <1>1. PICK failed \in SUBSET ToSet(chunks) :
          manual' = [manual EXCEPT !.documents = manual.documents \cup Documents(ToSet(chunks) \ failed),
                                   !.lost = manual.lost \cup Documents(failed)]
    BY DEF Embed, ManualOK
  <1>2. {"documents", "lost"} \subseteq DOMAIN manual
    BY DEF ManualOK
  <1> DEFINE stored == Documents(ToSet(chunks) \ failed)
             gone == Documents(failed)
  <1>3. stored \cup gone = DocsOf(chunks)
    BY DEF Documents, DocsOf
  <1> HIDE DEF stored, gone
  <1>4. manual'.documents = manual.documents \cup stored /\ manual'.lost = manual.lost \cup gone
    BY <1>1, <1>2 DEF stored, gone
  <1>5. QED BY <1>3, <1>4 DEF Tried

LEMMA CloseChunks ==
  ASSUME WalkInv, ManualOK(manual), PageInv(page, stack, buffer, Tried(manual)), CloseSection
  PROVE  PageInv(page', stack', buffer', Tried(manual'))
  <1>1. Top > 0
    BY DEF CloseSection
  <1>2. Len(stack) \in Nat /\ Len(stack) # 0 /\ Top = Len(stack) /\ page \in Seq(Elements)
    BY <1>1, StreamsFacts DEF Top
  <1> DEFINE x == [kind |-> "close", n |-> 0]
             k == Len(stack)
             chunks == PushBlock(stack[Top].builder).siblings
             all == buffer \o chunks
             m == Batched(all)
             ks2 == [n \in 1..(Top - 1) |->
                       IF chunks = <<>> \/ ~stack[n].first THEN stack[n]
                       ELSE [stack[n] EXCEPT !.first = FALSE, !.builder = PushChild(@, chunks[1])]]
  <1>3. /\ page' = Append(page, x) /\ stack' = ks2 /\ buffer' = SubSeq(all, m + 1, Len(all))
        /\ Embed(SubSeq(all, 1, m)) /\ Top > 0
    BY DEF CloseSection, Read
  <1>4. x \in Elements /\ x.kind = "close" /\ x.n = 0
    BY DEF Elements
  <1>5. chunks = PushBlock(stack[k].builder).siblings
    BY <1>2
  <1>6. Len(all) \in Nat => m \in 0..Len(all)
    BY BatchedFacts
  <1>7. Tried(manual') = Tried(manual) \cup DocsOf(SubSeq(all, 1, m))
    BY <1>3, EmbedStores
  <1>8. ASSUME NEW n \in 1..(k - 1)
        PROVE  /\ {"builder", "first"} \subseteq DOMAIN ks2[n]
               /\ \/ ks2[n].builder = stack[n].builder
                  \/ chunks # <<>> /\ ks2[n].builder = PushChild(stack[n].builder, chunks[1])
    <2>1. n \in 1..k /\ n \in 1..(Top - 1)
      BY <1>2
    <2>2. {"builder", "first"} \subseteq DOMAIN stack[n]
      BY <2>1 DEF PageInv, FrameOK
    <2> DEFINE b2 == PushChild(stack[n].builder, chunks[1])
    <2>3. ks2[n] = IF chunks = <<>> \/ ~stack[n].first THEN stack[n]
                   ELSE [stack[n] EXCEPT !.first = FALSE, !.builder = b2]
      BY <2>1
    <2> HIDE DEF b2, chunks, ks2
    <2>4. CASE chunks = <<>> \/ ~stack[n].first
      BY <2>2, <2>3, <2>4
    <2>5. CASE ~(chunks = <<>> \/ ~stack[n].first)
      <3>1. ks2[n] = [stack[n] EXCEPT !.first = FALSE, !.builder = b2] /\ chunks # <<>>
        BY <2>3, <2>5
      <3>2. {"builder", "first"} \subseteq DOMAIN ks2[n] /\ ks2[n].builder = b2
        BY <2>2, <3>1
      <3>3. QED BY <3>1, <3>2 DEF b2
    <2>6. QED BY <2>4, <2>5
  <1>9. Len(ks2) = k - 1
    <2> DEFINE e(n) == IF chunks = <<>> \/ ~stack[n].first THEN stack[n]
                       ELSE [stack[n] EXCEPT !.first = FALSE, !.builder = PushChild(@, chunks[1])]
    <2>1. ks2 = [n \in 1..(k - 1) |-> e(n)] /\ k - 1 \in Nat
      BY <1>2
    <2> HIDE DEF e, ks2, k
    <2>2. ks2 = [n \in 1..(k - 1) |-> ks2[n]]
      BY <2>1
    <2>3. QED BY <2>1, <2>2, MadeSequence
  <1> HIDE DEF x, m, ks2
  <1> DEFINE buf2 == SubSeq(all, m + 1, Len(all))
             docs2 == Tried(manual')
  <1>10. buf2 = SubSeq(all, m + 1, Len(all)) /\ Tried(manual) \subseteq docs2 /\ DocsOf(SubSeq(all, 1, m)) \subseteq docs2
    BY <1>7
  <1>11. all = buffer \o chunks
    OBVIOUS
  <1> HIDE DEF chunks, all, buf2, docs2
  <1>12. \A n \in 1..(k - 1) :
           /\ {"builder", "first"} \subseteq DOMAIN ks2[n]
           /\ \/ ks2[n].builder = stack[n].builder
              \/ chunks # <<>> /\ ks2[n].builder = PushChild(stack[n].builder, chunks[1])
    BY <1>8
  <1>13. (Len(all) \in Nat => m \in 0..Len(all)) /\ Len(ks2) = Len(stack) - 1
         /\ chunks = PushBlock(stack[Len(stack)].builder).siblings
    BY <1>5, <1>6, <1>9
  <1>14. PageInv(Append(page, x), ks2, buf2, docs2)
    BY <1>12, <1>13, <1>4, <1>2, <1>5, <1>6, <1>8, <1>9, <1>10, <1>11, PageCloses
  <1>15. QED BY <1>3, <1>14 DEF buf2, docs2

LEMMA WalkChunks ==
  ASSUME WalkInv, ManualOK(manual), PageInv(page, stack, buffer, Tried(manual)), Walk
  PROVE  PageInv(page', stack', buffer', Tried(manual'))
  <1> DEFINE docs == Tried(manual)
  <1>1. CASE CloseSection
    BY <1>1, CloseChunks
  <1>2. CASE /\ manual' = manual
             /\ \/ \E n \in 1..(MaxLength + 1), s \in BOOLEAN, u \in BOOLEAN : ReadText(n, s, u)
                \/ ReadCode \/ SkipElement \/ \E l \in Levels, h \in Headings, e \in BOOLEAN : OpenSection(l, h, e)
    <2>1. PageInv(page, stack, buffer, docs) /\ Tried(manual') = docs
      BY <1>2
    <2> HIDE DEF docs
    <2>2. ASSUME NEW n \in 1..(MaxLength + 1), NEW s, NEW u, ReadText(n, s, u)
          PROVE  PageInv(page', stack', buffer', docs)
      <3>1. n \in Nat /\ n # 0
        BY ManualAssumption
      <3>2. QED BY <2>1, <2>2, <3>1, ReadTextChunks
    <2>3. (ReadCode \/ SkipElement) => PageInv(page', stack', buffer', docs)
      BY <2>1, ReadCodeChunks, SkipChunks
    <2>4. \A l, h, e : OpenSection(l, h, e) => PageInv(page', stack', buffer', docs)
      BY <2>1, OpenChunks
    <2>5. QED BY <1>2, <2>1, <2>2, <2>3, <2>4
  <1>3. QED BY <1>1, <1>2 DEF Walk

LEMMA ChunksGo ==
  ASSUME Inv, NEW p \in Procs, Alone(p), NEW k, client' = [client EXCEPT ![p] = k], k.at \in BuildStates,
         PageInv(page', stack', buffer', Tried(manual')), k.at = "built" => stack' = <<>> /\ buffer' = <<>>
  PROVE  ChunkInv'
  <1>1. client'[p] = k /\ \A q \in Procs : q # p => client'[q] = client[q]
    BY ClientFacts
  <1>2. \A q \in Procs : client'[q].at = "built" => q = p
    BY <1>1 DEF Alone
  <1>3. QED BY <1>1, <1>2 DEF ChunkInv

LEMMA ChunksForgotten ==
  ASSUME Forget
  PROVE  ChunkInv'
  <1>1. PageInv(page', stack', buffer', Tried(manual'))
    BY Forgotten
  <1>2. page' = <<>> /\ stack' = <<>> /\ buffer' = <<>>
    BY DEF Forget
  <1>3. QED BY <1>1, <1>2 DEF ChunkInv

LEMMA StartChunks == ASSUME Inv, WalkInv, ChunkInv, NEW p \in Procs, NEW b, StartBuild(p, b) PROVE ChunkInv'
  <1> DEFINE k == [Off EXCEPT !.at = "page"]
  <1>1. client' = [client EXCEPT ![p] = k] /\ UNCHANGED <<streams, page, stack, buffer>>
        /\ \A q \in Procs : client[q].at = "off"
    BY DEF StartBuild, Start
  <1>2. page = <<>>
    BY <1>1 DEF ChunkInv, BuildStates
  <1>3. DepthIn(<<>>, 0) = 0
    <2>1. CountIn(<<>>, "open", 0) = 0 /\ CountIn(<<>>, "close", 0) = 0
      BY CountFacts
    <2>2. QED BY <2>1 DEF DepthIn
  <1>4. stack = <<>>
    <2>1. Len(stack) = DepthIn(page, Len(page)) /\ Len(<<>>) = 0
      BY DEF ChunkInv, PageInv
    <2>2. Len(stack) = 0 /\ IsSequence(stack)
      BY <1>2, <1>3, <2>1, StreamsFacts
    <2>3. QED BY <2>2 DEF IsSequence
  <1>5. BlocksOK(buffer)
    BY DEF ChunkInv, PageInv
  <1>6. PageInv(page', stack', buffer', Tried(manual'))
    <2> DEFINE docs == Tried(manual')
    <2>1. page' = <<>> /\ stack' = <<>> /\ buffer' = buffer
      BY <1>1, <1>2, <1>4
    <2> HIDE DEF docs
    <2>2. PageInv(<<>>, <<>>, buffer, docs)
      BY <1>5, PageBegins
    <2>3. QED BY <2>1, <2>2 DEF docs
  <1>7. k.at = "page" /\ Alone(p)
    BY <1>1, OffFacts DEF Alone
  <1> HIDE DEF k
  <1>8. QED BY <1>1, <1>6, <1>7, ChunksGo DEF BuildStates

LEMMA WalkPageChunks ==
  ASSUME Inv, WalkInv, BuildInv, ChunkInv, NEW p \in Procs, WalkPage(p)
  PROVE  ChunkInv'
  <1>1. client[p].at = "page" /\ client' = client /\ Walk
    BY DEF WalkPage
  <1>2. Alone(p) /\ ManualOK(manual)
    BY <1>1, BuilderFacts DEF BuildStates
  <1>3. PageInv(page', stack', buffer', Tried(manual'))
    BY <1>1, <1>2, WalkChunks DEF ChunkInv
  <1>4. \A q \in Procs : client[q].at # "built"
    BY <1>1, <1>2 DEF Alone
  <1>5. QED BY <1>1, <1>3, <1>4 DEF ChunkInv, BuildStates

\* The page is as it was.
LEMMA ChunksStay ==
  ASSUME ChunkInv, page' = page, stack' = stack, buffer' = buffer, Tried(manual') = Tried(manual)
  PROVE  PageInv(page', stack', buffer', Tried(manual'))
  BY DEF ChunkInv

LEMMA EndPageChunks == ASSUME Inv, BuildInv, ChunkInv, NEW p \in Procs, EndPage(p) PROVE ChunkInv'
  <1> DEFINE k == [client[p] EXCEPT !.at = "section", !.n = 1]
  <1>1. client[p].at = "page" /\ client' = [client EXCEPT ![p] = k] /\ UNCHANGED buildVars
    BY ClientFacts DEF EndPage
  <1>2. Alone(p)
    BY <1>1, BuilderFacts DEF BuildStates
  <1>3. k.at = "section"
    BY ClientFacts, OffFacts
  <1>4. PageInv(page', stack', buffer', Tried(manual'))
    BY <1>1, ChunksStay DEF buildVars
  <1> HIDE DEF k
  <1>5. QED BY <1>1, <1>2, <1>3, <1>4, ChunksGo DEF BuildStates

LEMMA SectionChunks == ASSUME Inv, BuildInv, ChunkInv, NEW p \in Procs, AddManualSection(p) PROVE ChunkInv'
  <1> DEFINE row == Row(Sections[client[p].n])
  <1>1. client[p].at = "section"
    BY DEF AddManualSection
  <1>2. Alone(p) /\ ManualOK(manual)
    BY <1>1, BuilderFacts DEF BuildStates
  <1>3. CASE Rejects(row)
    <2>1. Forget
      BY <1>3 DEF AddManualSection
    <2>2. QED BY <2>1, ChunksForgotten
  <1>4. CASE ~Rejects(row)
    <2>1. AddSection(row) /\ UNCHANGED <<streams, page, stack, buffer>>
      BY <1>4 DEF AddManualSection
    <2>2. PICK k : client' = [client EXCEPT ![p] = k] /\ k.at \in {"section", "keywords"}
      <3>1. CASE manual.backend = "chroma"
        <4>1. client' = [client EXCEPT ![p] = [client[p] EXCEPT !.at = "keywords"]]
          BY <1>4, <3>1, ClientFacts DEF AddManualSection
        <4>2. [client[p] EXCEPT !.at = "keywords"].at = "keywords"
          BY ClientFacts, OffFacts
        <4>3. QED BY <4>1, <4>2
      <3>2. CASE manual.backend # "chroma"
        <4> DEFINE n == client[p].n + 1
        <4>1. client' = [client EXCEPT ![p] = [client[p] EXCEPT !.n = n]]
          BY <1>4, <3>2, ClientFacts, OffFacts DEF AddManualSection
        <4> HIDE DEF n
        <4>2. [client[p] EXCEPT !.n = n].at = "section"
          BY <1>1, ClientFacts, OffFacts
        <4>3. QED BY <4>1, <4>2
      <3>3. QED BY <3>1, <3>2
    <2> HIDE DEF row
    <2>3. Tried(manual') = Tried(manual)
      BY <1>2, <2>1 DEF AddSection, ManualOK, Tried
    <2>4. PageInv(page', stack', buffer', Tried(manual'))
      BY <2>1, <2>3, ChunksStay
    <2>5. QED BY <1>2, <2>2, <2>4, ChunksGo DEF BuildStates
  <1>5. QED BY <1>3, <1>4

LEMMA KeywordsChunks == ASSUME Inv, BuildInv, ChunkInv, NEW p \in Procs, AddToKeywords(p) PROVE ChunkInv'
  <1> DEFINE row == Row(Sections[client[p].n])
             n == client[p].n + 1
             k == [client[p] EXCEPT !.at = "section", !.n = n]
  <1>1. client[p].at = "keywords" /\ AddKeywords(row) /\ UNCHANGED <<streams, page, stack, buffer>>
    BY DEF AddToKeywords
  <1>2. Alone(p) /\ ManualOK(manual)
    BY <1>1, BuilderFacts DEF BuildStates
  <1>3. client' = [client EXCEPT ![p] = k]
    <2>1. client' = [client EXCEPT ![p].at = "section", ![p].n = client[p].n + 1]
      BY ClientFacts, OffFacts DEF AddToKeywords
    <2>2. QED BY <2>1, ClientFacts
  <1> HIDE DEF n, row
  <1>4. k.at = "section"
    BY ClientFacts, OffFacts
  <1>5. Tried(manual') = Tried(manual)
    BY <1>1, <1>2 DEF AddKeywords, ManualOK, Tried
  <1>6. PageInv(page', stack', buffer', Tried(manual'))
    BY <1>1, <1>5, ChunksStay
  <1> HIDE DEF k
  <1>7. QED BY <1>2, <1>3, <1>4, <1>6, ChunksGo DEF BuildStates

\* What still waits is inserted at the end.
LEMMA LastEmbedded ==
  ASSUME NEW pg, NEW buf, NEW docs, PageInv(pg, <<>>, buf, docs), NEW docs2, docs2 = docs \cup DocsOf(buf)
  PROVE  PageInv(pg, <<>>, <<>>, docs2)
  <1> DEFINE m == Len(buf)
  <1>1. BlocksOK(buf) /\ m \in Nat
    BY SequenceLength DEF PageInv, BlocksOK
  <1>2. SubSeq(buf, m + 1, m) = <<>> /\ SubSeq(buf, 1, m) = buf /\ m \in 0..m
    <2>1. PICK A : buf \in Seq(A)
      BY <1>1 DEF BlocksOK, IsSequence
    <2>2. QED BY <2>1
  <1>3. \A id : InChunks(buf, id) => Stored(<<>>, docs2, id)
    <2>1. DocsOf(SubSeq(buf, 1, m)) \subseteq docs2 /\ <<>> = SubSeq(buf, m + 1, m)
      BY <1>2
    <2>2. QED BY <1>1, <1>2, <2>1, Embeds
  <1>4. \A id : Kept(<<>>, buf, docs, id) => Kept(<<>>, <<>>, docs2, id)
    BY <1>3 DEF Kept, Stored
  <1>5. Covered(pg, <<>>, <<>>, docs2)
    BY <1>4 DEF PageInv, Covered
  <1>6. QED BY <1>5, NoBlocks DEF PageInv

LEMMA EmbedRestChunks == ASSUME Inv, BuildInv, ChunkInv, NEW p \in Procs, EmbedRest(p) PROVE ChunkInv'
  <1> DEFINE k == [client[p] EXCEPT !.at = "built"]
  <1>1. client[p].at = "section" /\ Embed(buffer) /\ client' = [client EXCEPT ![p] = k]
        /\ buffer' = <<>> /\ page' = page /\ stack' = stack
    BY ClientFacts DEF EmbedRest, Goto
  <1>2. Alone(p) /\ ManualOK(manual) /\ stack = <<>>
    BY <1>1, BuilderFacts DEF BuildStates, BuilderOK
  <1>3. Tried(manual') = Tried(manual) \cup DocsOf(buffer)
    BY <1>1, <1>2, EmbedStores
  <1>4. PageInv(page, <<>>, <<>>, Tried(manual'))
    <2>1. PageInv(page, <<>>, buffer, Tried(manual))
      BY <1>2 DEF ChunkInv
    <2> DEFINE docs == Tried(manual)
               docs2 == Tried(manual')
    <2>2. PageInv(page, <<>>, buffer, docs) /\ docs2 = docs \cup DocsOf(buffer)
      BY <1>3, <2>1
    <2> HIDE DEF docs, docs2
    <2>3. PageInv(page, <<>>, <<>>, docs2)
      BY <2>2, LastEmbedded
    <2>4. QED BY <2>3 DEF docs2
  <1>5. k.at = "built"
    BY ClientFacts, OffFacts
  <1> HIDE DEF k
  <1>6. QED BY <1>1, <1>2, <1>4, <1>5, ChunksGo DEF BuildStates

LEMMA NextChunks == Inv /\ WalkInv /\ BuildInv /\ ChunkInv /\ [Next]_vars => ChunkInv'
  <1> SUFFICES ASSUME Inv, WalkInv, BuildInv, ChunkInv, [Next]_vars PROVE ChunkInv'
    OBVIOUS
  <1>1. CASE Aside
    <2>1. page' = page /\ stack' = stack /\ buffer' = buffer /\ manual' = manual
      BY <1>1 DEF Aside, buildVars
    <2>2. CASE client' = client
      BY <2>1, <2>2 DEF ChunkInv
    <2>3. ASSUME NEW p \in Procs, NEW k, client' = [client EXCEPT ![p] = k],
                 client[p].at \notin BuildStates, k.at \notin BuildStates
          PROVE  ChunkInv'
      <3>1. client'[p] = k /\ \A q \in Procs : q # p => client'[q] = client[q]
        BY <2>3, ClientFacts
      <3>2. \A q \in Procs : client'[q].at = "built" => client[q].at = "built"
        BY <2>3, <3>1 DEF BuildStates
      <3>3. \A q \in Procs : client[q].at \in BuildStates => client'[q].at \in BuildStates
        BY <2>3, <3>1
      <3>4. QED BY <2>1, <3>2, <3>3 DEF ChunkInv
    <2>4. QED BY <1>1, <2>2, <2>3 DEF Aside
  <1>2. ASSUME NEW p \in Procs, EndBuild(p) \/ Kill(p) PROVE ChunkInv'
    BY <1>2, ChunksForgotten DEF EndBuild, Kill
  <1>3. ASSUME NEW p \in Procs, BuildStep(p) PROVE ChunkInv'
    BY <1>2, <1>3, StartChunks, WalkPageChunks, EndPageChunks, SectionChunks, KeywordsChunks, EmbedRestChunks DEF BuildStep
  <1>4. QED BY <1>1, <1>3, NextAside

LEMMA InitChunks == Init => ChunkInv
  <1> SUFFICES ASSUME Init PROVE ChunkInv
    OBVIOUS
  <1>1. page = <<>> /\ stack = <<>> /\ buffer = <<>>
    BY DEF Init, BuildInit
  <1>2. PageInv(<<>>, <<>>, <<>>, Tried(manual))
    BY NoBlocks, PageBegins
  <1>3. QED BY <1>1, <1>2 DEF ChunkInv

\* However a page is cut into chunks, of whatever length, and wherever a build is killed
\* and the next one begins: every chunk has in place of its tags the codes the page has
\* there, no sentence or code of a section is lost or moved where chunks are closed, split
\* or begun with the sentence before, and a finished build has stored all of them but those
\* of chunks whose insert failed (scripts/text_processors.py: BlockBuilder;
\* scripts/ragbuild.py: translate_block; rag/db.py: add_chunks_batch).
THEOREM ChunksAreFaithful == Spec => []ChunksFaithful
  <1>1. WalkInv /\ ChunkInv => ChunksFaithful
    <2> SUFFICES ASSUME WalkInv, ChunkInv PROVE ChunksFaithful
      OBVIOUS
    <2>1. DOMAIN stack = 1..Len(stack) /\ BlocksOK(buffer) /\ \A n \in 1..Len(stack) : FrameOK(page, stack[n], n)
      BY StreamsFacts DEF ChunkInv, PageInv
    <2>2. CodesInPlace
      <3>1. ASSUME NEW c, BlockOK(c), NEW i \in DOMAIN c.text, c.text[i].ref # 0
            PROVE  c.text[i].ref \in DOMAIN c.codes /\ c.codes[c.text[i].ref] = c.text[i].id
        <4>1. i \in 1..Len(c.text) /\ DOMAIN c.codes = 1..Len(c.codes)
          BY <3>1 DEF BlockOK
        <4>2. QED BY <3>1, <4>1 DEF BlockOK, Coded, TokCoded
      <3>2. ASSUME NEW c \in ToSet(buffer) PROVE BlockOK(c)
        <4>1. PICK A : buffer \in Seq(A)
          BY <2>1 DEF BlocksOK, IsSequence
        <4>2. PICK j \in 1..Len(buffer) : c = buffer[j]
          BY <4>1 DEF ToSet
        <4>3. QED BY <2>1, <4>2 DEF BlocksOK
      <3>3. ASSUME NEW n \in DOMAIN stack, NEW c \in ToSet(stack[n].builder.siblings) PROVE BlockOK(c)
        <4> DEFINE b == stack[n].builder
        <4>1. b \in Builders(b.headers) /\ Sound(b)
          BY <2>1 DEF FrameOK
        <4>2. b.siblings \in Seq(BlocksOf(b.headers))
          BY <4>1 DEF Builders
        <4>3. PICK j \in 1..Len(b.siblings) : c = b.siblings[j]
          BY <3>3, <4>2 DEF ToSet
        <4>4. QED BY <4>1, <4>3 DEF Sound, ChunksOK
      <3>4. QED BY <3>1, <3>2, <3>3 DEF CodesInPlace
    <2>3. NothingLost
      <3> SUFFICES ASSUME NEW n \in 1..Len(stack) PROVE Chunked(n) = Own(n)
        BY <2>1 DEF NothingLost
      <3>1. Own(n) = OwnIn(page, n)
        BY PageIs
      <3>2. QED BY <2>1, <3>1 DEF FrameOK, Chunked
    <2>4. ASSUME NEW p \in Procs, client[p].at = "built" PROVE AllEmbedded
      <3>1. Covered(page, <<>>, <<>>, Tried(manual)) /\ DOMAIN page = 1..Len(page)
        BY <2>4, StreamsFacts DEF ChunkInv, PageInv
      <3>2. \A id : Kept(<<>>, <<>>, Tried(manual), id) => \E d \in Tried(manual) : id \in ToSet(d)
        BY DEF Kept, Stored, InChunks
      <3>3. QED BY <3>1, <3>2 DEF AllEmbedded, Covered, Tried
    <2>5. QED BY <2>2, <2>3, <2>4 DEF ChunksFaithful
  <1>2. Init => WalkInv
    BY InitWalk DEF Init
  <1>3. Spec => [](WalkInv /\ BuildInv /\ ChunkInv)
    BY <1>2, InitBuild, InitChunks, NextWalk, NextBuild, NextChunks, ClientsInvariant, PTL DEF Spec
  <1>4. QED BY <1>1, <1>3, PTL
=============================================================================
