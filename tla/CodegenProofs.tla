---------------------------- MODULE CodegenProofs ----------------------------
(***************************************************************************)
(* Theorems about Codegen: what the stamps of a workflow say of the files  *)
(* it hands over, and what a later workflow resumes from, for any number   *)
(* of threads, any paths and contents and any bounds.                      *)
(***************************************************************************)
EXTENDS Codegen, FiniteSetTheorems, TLAPS

-----------------------------------------------------------------------------
(* Files and their digest *)

Files == UNION {[D -> Contents] : D \in SUBSET Range(Paths)}

LEMMA FilesFacts ==
  ASSUME NEW f \in Files
  PROVE  /\ DOMAIN f \subseteq Range(Paths) /\ f = [p \in DOMAIN f |-> f[p]]
         /\ \A p \in DOMAIN f : f[p] \in Contents
  <1>1. PICK D \in SUBSET Range(Paths) : f \in [D -> Contents]
    BY DEF Files
  <1>2. QED BY <1>1

LEMMA FilesIntro ==
  ASSUME NEW f, DOMAIN f \subseteq Range(Paths), f = [p \in DOMAIN f |-> f[p]],
         \A p \in DOMAIN f : f[p] \in Contents
  PROVE  f \in Files
  <1>1. f \in [DOMAIN f -> Contents]
    OBVIOUS
  <1>2. QED BY <1>1 DEF Files

LEMMA NoFilesFacts == NoFiles \in Files /\ DOMAIN NoFiles = {}
  <1>1. DOMAIN NoFiles = {} /\ NoFiles = [p \in DOMAIN NoFiles |-> NoFiles[p]]
    BY DEF NoFiles
  <1>2. QED BY <1>1, FilesIntro

LEMMA OneFile ==
  ASSUME NEW p \in Range(Paths), NEW c \in Contents
  PROVE  [q \in {p} |-> c] \in Files /\ DOMAIN [q \in {p} |-> c] = {p}
  <1> DEFINE f == [q \in {p} |-> c]
  <1>1. DOMAIN f = {p} /\ f = [q \in DOMAIN f |-> f[q]] /\ \A q \in DOMAIN f : f[q] \in Contents
    OBVIOUS
  <1> HIDE DEF f
  <1>2. f \in Files
    BY <1>1, FilesIntro
  <1>3. QED BY <1>1, <1>2 DEF f

LEMMA OverFacts ==
  ASSUME NEW f \in Files, NEW g \in Files
  PROVE  /\ Over(f, g) \in Files /\ DOMAIN Over(f, g) = DOMAIN f \cup DOMAIN g
         /\ \A p \in DOMAIN f : Over(f, g)[p] = f[p]
         /\ \A p \in DOMAIN g \ DOMAIN f : Over(f, g)[p] = g[p]
  <1> DEFINE h == Over(f, g)
  <1>1. /\ DOMAIN h = DOMAIN f \cup DOMAIN g /\ h = [p \in DOMAIN h |-> h[p]]
        /\ \A p \in DOMAIN f : h[p] = f[p]
        /\ \A p \in DOMAIN g \ DOMAIN f : h[p] = g[p]
    BY DEF Over
  <1> HIDE DEF h
  <1>2. DOMAIN h \subseteq Range(Paths) /\ \A p \in DOMAIN h : h[p] \in Contents
    BY <1>1, FilesFacts
  <1>3. h \in Files
    BY <1>1, <1>2, FilesIntro
  <1>4. QED BY <1>1, <1>3 DEF h

\* A newer map with all the files of the older one is what is left of both.
LEMMA OverAll ==
  ASSUME NEW f \in Files, NEW g \in Files, DOMAIN g \subseteq DOMAIN f
  PROVE  Over(f, g) = f
  <1> DEFINE h == Over(f, g)
  <1>1. h \in Files /\ DOMAIN h = DOMAIN f /\ \A p \in DOMAIN f : h[p] = f[p]
    BY OverFacts
  <1> HIDE DEF h
  <1>2. h = [p \in DOMAIN h |-> h[p]] /\ f = [p \in DOMAIN f |-> f[p]]
    BY <1>1, FilesFacts
  <1>3. h = f
    BY <1>1, <1>2
  <1>4. QED BY <1>3 DEF h

LEMMA OrderFacts ==
  ASSUME NEW files
  PROVE  /\ Order(files) \subseteq Nat /\ IsFiniteSet(Order(files)) /\ Cardinality(Order(files)) \in Nat
         /\ \A i \in Order(files) : Paths[i] \in files
  <1>1. DOMAIN Paths = 1..Len(Paths) /\ Len(Paths) \in Nat
    BY CodegenAssumption
  <1>2. IsFiniteSet(1..Len(Paths))
    <2>1. 1 \in Int /\ Len(Paths) \in Int
      BY <1>1
    <2>2. QED BY <2>1, FS_Interval
  <1>3. Order(files) \in SUBSET (1..Len(Paths))
    BY <1>1 DEF Order
  <1>4. IsFiniteSet(Order(files))
    BY <1>2, <1>3, FS_Subset
  <1>5. Cardinality(Order(files)) \in Nat
    BY <1>4, FS_CardinalityType
  <1>6. QED BY <1>1, <1>3, <1>4, <1>5 DEF Order

\* The rank of a file numbers the files of a directory.
LEMMA RankFacts ==
  ASSUME NEW files, NEW i \in Order(files)
  PROVE  /\ Rank(files, i) \in 1..Cardinality(Order(files))
         /\ \A j \in Order(files) : Rank(files, i) = Rank(files, j) => i = j
  <1> DEFINE Upto(j) == {k \in Order(files) : k <= j}
  <1>1. ASSUME NEW j \in Order(files)
        PROVE  /\ IsFiniteSet(Upto(j)) /\ Upto(j) \in SUBSET Order(files) /\ Cardinality(Upto(j)) \in Nat
               /\ Cardinality(Upto(j)) <= Cardinality(Order(files)) /\ j \in Upto(j)
    <2>1. Upto(j) \in SUBSET Order(files) /\ j \in Upto(j)
      BY OrderFacts
    <2>2. IsFiniteSet(Upto(j)) /\ Cardinality(Upto(j)) <= Cardinality(Order(files))
      BY <2>1, OrderFacts, FS_Subset
    <2>3. Cardinality(Upto(j)) \in Nat
      BY <2>2, FS_CardinalityType
    <2>4. QED BY <2>1, <2>2, <2>3
  <1>2. Cardinality(Upto(i)) # 0
    <2>1. Upto(i) # {} /\ IsFiniteSet(Upto(i))
      BY <1>1
    <2>2. QED BY <2>1, FS_EmptySet
  <1>3. Rank(files, i) \in 1..Cardinality(Order(files))
    BY <1>1, <1>2, OrderFacts DEF Rank
  <1>4. ASSUME NEW a \in Order(files), NEW b \in Order(files), a < b PROVE Rank(files, a) # Rank(files, b)
    <2>1. a \in Nat /\ b \in Nat /\ \A k \in Order(files) : k \in Nat
      BY OrderFacts
    <2>2. Upto(a) \in SUBSET Upto(b) /\ b \notin Upto(a) /\ b \in Upto(b)
      <3>1. \A k \in Nat : k <= a => k <= b
        BY <1>4, <2>1
      <3>2. ~(b <= a) /\ b <= b
        BY <1>4, <2>1
      <3>3. QED BY <2>1, <3>1, <3>2
    <2>3. Upto(a) # Upto(b)
      BY <2>2
    <2>4. IsFiniteSet(Upto(b))
      BY <1>1
    <2>5. Cardinality(Upto(b)) # Cardinality(Upto(a))
      BY <2>2, <2>3, <2>4, FS_Subset
    <2>6. QED BY <2>5 DEF Rank
  <1>5. ASSUME NEW j \in Order(files), Rank(files, i) = Rank(files, j) PROVE i = j
    <2>1. i \in Nat /\ j \in Nat
      BY OrderFacts
    <2>2. ~(i < j) /\ ~(j < i)
      BY <1>4, <1>5
    <2>3. QED BY <2>1, <2>2
  <1>6. QED BY <1>3, <1>5

LEMMA DigestAt ==
  ASSUME NEW v, NEW i \in Order(DOMAIN v)
  PROVE  Digest(v)[Rank(DOMAIN v, i)] = v[Paths[i]]
  <1> DEFINE n == Rank(DOMAIN v, i)
             j == CHOOSE k \in Order(DOMAIN v) : Rank(DOMAIN v, k) = n
  <1>1. j \in Order(DOMAIN v) /\ Rank(DOMAIN v, j) = n
    OBVIOUS
  <1>2. j = i
    BY <1>1, RankFacts
  <1>3. n \in 1..Cardinality(Order(DOMAIN v))
    BY RankFacts
  <1>4. Digest(v)[n] = v[Paths[j]]
    BY <1>3 DEF Digest
  <1>5. QED BY <1>2, <1>4

\* The digest has no names in it, so that it does not tell any two directories
\* apart; it does tell a directory from one that has all of its files.
LEMMA DigestTells ==
  ASSUME NEW v \in Files, NEW w \in Files, DOMAIN v \subseteq DOMAIN w, Digest(v) = Digest(w)
  PROVE  v = w
  <1>1. Cardinality(Order(DOMAIN v)) = Cardinality(Order(DOMAIN w))
    <2>1. 1..Cardinality(Order(DOMAIN v)) = 1..Cardinality(Order(DOMAIN w))
      BY DEF Digest
    <2>2. \A m, n \in Nat : 1..m = 1..n => m = n
      <3> SUFFICES ASSUME NEW m \in Nat, NEW n \in Nat, 1..m = 1..n PROVE m = n
        OBVIOUS
      <3>1. (m \in 1..m <=> m \in 1..n) /\ (n \in 1..n <=> n \in 1..m)
        OBVIOUS
      <3>2. QED BY <3>1
    <2>3. QED BY <2>1, <2>2, OrderFacts
  <1>2. Order(DOMAIN v) = Order(DOMAIN w)
    <2>1. Order(DOMAIN v) \in SUBSET Order(DOMAIN w)
      BY DEF Order
    <2>2. IsFiniteSet(Order(DOMAIN w))
      BY OrderFacts
    <2>3. QED BY <1>1, <2>1, <2>2, FS_Subset
  <1>3. ASSUME NEW p \in DOMAIN w PROVE p \in DOMAIN v /\ v[p] = w[p]
    <2>1. PICK i \in DOMAIN Paths : Paths[i] = p
      BY FilesFacts DEF Range
    <2>2. i \in Order(DOMAIN w) /\ i \in Order(DOMAIN v)
      BY <1>2, <2>1 DEF Order
    <2>3. p \in DOMAIN v
      BY <2>1, <2>2 DEF Order
    <2>4. Rank(DOMAIN v, i) = Rank(DOMAIN w, i)
      BY <1>2 DEF Rank
    <2>5. QED BY <2>1, <2>2, <2>3, <2>4, DigestAt
  <1>4. DOMAIN v = DOMAIN w /\ v = [p \in DOMAIN v |-> v[p]] /\ w = [p \in DOMAIN w |-> w[p]]
    BY <1>3, FilesFacts
  <1>5. QED BY <1>3, <1>4

-----------------------------------------------------------------------------
(* The state *)

Digests == {Digest(f) : f \in Files}
Stamping == [prover : Digests, reqs : Digests, proved : Files, judged : Files]
Checkpoint == [vfs : Files, val : Stamping, code : BOOLEAN, late : SUBSET Range(Paths)]
RunType ==
  [at : {"idle", "model", "tools", "commentary", "output"}, t : Range(Threads) \cup {None},
   turns : Nat, calls : Nat, runs : Nat, call : {"none", "full", "part"}, next : Checkpoint, writes : Nat]
Completion == [files : Files, intf : Range(Paths) \cup {None}]

TypeOK ==
  /\ ckpt \in [Range(Threads) -> Checkpoint]
  /\ layer \in [Range(Threads) -> Files]
  /\ reqs \in [Range(Threads) -> {"unset", "yes", "no"}]
  /\ run \in RunType
  /\ audit \in [Range(Threads) -> Completion]

LEMMA EmptyDigest == Digest(NoFiles) = <<>> /\ <<>> \in Digests
  <1>1. Order(DOMAIN NoFiles) = {}
    BY NoFilesFacts DEF Order
  <1>2. Cardinality(Order(DOMAIN NoFiles)) = 0
    BY <1>1, FS_EmptySet
  <1>3. Digest(NoFiles) = <<>>
    BY <1>2 DEF Digest
  <1>4. QED BY <1>3, NoFilesFacts DEF Digests

LEMMA EmptyType == Empty \in Checkpoint /\ NoStamps \in Stamping /\ Idle \in RunType
  <1>1. NoStamps \in Stamping
    BY EmptyDigest, NoFilesFacts DEF NoStamps, Stamping
  <1>2. Empty \in Checkpoint
    BY <1>1, NoFilesFacts DEF Empty, Checkpoint
  <1>3. QED BY <1>1, <1>2 DEF Idle, RunType

LEMMA TypeInit == Init => TypeOK
  BY EmptyType, NoFilesFacts DEF Init, TypeOK, Completion

LEMMA SpecFile == "rules.spec" \in Range(Paths) /\ \A s \in Specs : [p \in {"rules.spec"} |-> s] \in Files
  <1>1. 1 \in DOMAIN Paths
    BY CodegenAssumption
  <1>2. "rules.spec" \in Range(Paths)
    BY <1>1, CodegenAssumption DEF Range
  <1>3. QED BY <1>2, OneFile DEF Contents

LEMMA InputType ==
  ASSUME TypeOK, NEW i \in DOMAIN Threads, NEW in \in Inputs(Threads[i], i)
  PROVE  /\ in[1] \in Files /\ in[2] \in Files
         /\ "rules.spec" \in DOMAIN in[1] \cup DOMAIN in[2]
         /\ i = 1 => DOMAIN in[2] = {}
         /\ i # 1 => /\ Threads[i - 1] \in Range(Threads)
                     /\ DOMAIN audit[Threads[i - 1]].files \subseteq DOMAIN in[1] \cup DOMAIN in[2]
                     /\ DOMAIN in[2] \subseteq {"rules.spec"} \cup DOMAIN audit[Threads[i - 1]].files
  <1>1. DOMAIN Threads = 1..Len(Threads) /\ Len(Threads) \in Nat
    BY CodegenAssumption
  <1>2. CASE i = 1
    <2>1. PICK s \in Specs : in = <<[p \in {"rules.spec"} |-> s], NoFiles>>
      BY <1>2 DEF Inputs
    <2>2. in[1] = [p \in {"rules.spec"} |-> s] /\ in[2] = NoFiles
      BY <2>1
    <2>3. QED BY <1>2, <2>2, SpecFile, NoFilesFacts
  <1>3. CASE i # 1
    <2> DEFINE files == audit[Threads[i - 1]].files
    <2>1. i - 1 \in DOMAIN Threads /\ Threads[i - 1] \in Range(Threads)
      BY <1>1, <1>3 DEF Range
    <2>2. files \in Files
      BY <2>1 DEF TypeOK, Completion
    <2>3. PICK s \in Specs : \/ in = <<Over([p \in {"rules.spec"} |-> s], files), NoFiles>>
                              \/ in = <<NoFiles, Over([p \in {"rules.spec"} |-> s], files)>>
      BY <1>3 DEF Inputs
    <2> DEFINE f == [p \in {"rules.spec"} |-> s]
    <2>4. f \in Files /\ DOMAIN f = {"rules.spec"}
      BY SpecFile
    <2> HIDE DEF f, files
    <2>5. Over(f, files) \in Files /\ DOMAIN Over(f, files) = {"rules.spec"} \cup DOMAIN files
      BY <2>2, <2>4, OverFacts
    <2>6. \/ in[1] = Over(f, files) /\ in[2] = NoFiles
          \/ in[1] = NoFiles /\ in[2] = Over(f, files)
      BY <2>3 DEF f, files
    <2>7. QED BY <1>3, <2>1, <2>5, <2>6, NoFilesFacts DEF files
  <1>4. QED BY <1>2, <1>3

\* What a start of a thread does to its checkpoint.
LEMMA StartFacts ==
  ASSUME TypeOK, NEW i \in DOMAIN Threads, Start(i)
  PROVE  \E in \in Inputs(Threads[i], i) : LET t == Threads[i] IN
           /\ t \in Range(Threads) /\ in[1] \in Files /\ in[2] \in Files
           /\ layer' = [layer EXCEPT ![t] = in[2]]
           /\ \A u \in Range(Threads) : u # t => ckpt'[u] = ckpt[u]
           /\ ckpt'[t].vfs = Over(in[1], ckpt[t].vfs) /\ ckpt'[t].val = ckpt[t].val
           /\ ckpt'[t].code = ckpt[t].code
           /\ ckpt[t].code => ckpt'[t].late = ckpt[t].late \cup DOMAIN in[1] \cup DOMAIN in[2]
           /\ run'.at = "model" /\ run'.t = t /\ run'.call = run.call
           /\ reqs' \in [Range(Threads) -> {"unset", "yes", "no"}] /\ reqs'[t] # "unset"
           /\ \A u \in Range(Threads) : reqs[u] # "unset" \/ u # t => reqs'[u] = reqs[u]
           /\ UNCHANGED audit
           /\ TypeOK'
  <1> DEFINE t == Threads[i]
  <1>1. PICK in \in Inputs(Threads[i], i) :
           /\ layer' = [layer EXCEPT ![t] = in[2]]
           /\ ckpt' = [ckpt EXCEPT ![t].vfs = Over(in[1], ckpt[t].vfs),
                                  ![t].late = IF ckpt[t].code THEN ckpt[t].late \cup DOMAIN in[1] \cup DOMAIN in[2]
                                              ELSE ckpt[t].late]
           /\ run' = [run EXCEPT !.at = "model", !.t = t, !.runs = run.runs + 1]
    BY DEF Start
  <1> DEFINE vfs == Over(in[1], ckpt[t].vfs)
             late == IF ckpt[t].code THEN ckpt[t].late \cup DOMAIN in[1] \cup DOMAIN in[2] ELSE ckpt[t].late
  <1>2. t \in Range(Threads) /\ in[1] \in Files /\ in[2] \in Files /\ ckpt[t] \in Checkpoint
    BY InputType DEF TypeOK, Range
  <1>3. vfs \in Files /\ late \in SUBSET Range(Paths)
    BY <1>2, OverFacts, FilesFacts DEF Checkpoint
  <1>4. /\ layer' = [layer EXCEPT ![t] = in[2]] /\ ckpt' = [ckpt EXCEPT ![t].vfs = vfs, ![t].late = late]
        /\ run' = [run EXCEPT !.at = "model", !.t = t, !.runs = run.runs + 1]
    BY <1>1
  <1>5. PICK r \in {"yes", "no"} : reqs' = [reqs EXCEPT ![t] = IF reqs[t] = "unset" THEN r ELSE reqs[t]]
    BY DEF Start, Requirements
  <1>6. audit' = audit
    BY DEF Start
  <1>7. ckpt[t].code => late = ckpt[t].late \cup DOMAIN in[1] \cup DOMAIN in[2]
    OBVIOUS
  <1> HIDE DEF t, vfs, late
  <1>8. /\ \A u \in Range(Threads) : u # t => ckpt'[u] = ckpt[u]
        /\ ckpt'[t].vfs = vfs /\ ckpt'[t].val = ckpt[t].val /\ ckpt'[t].code = ckpt[t].code
        /\ ckpt'[t].late = late /\ ckpt' \in [Range(Threads) -> Checkpoint]
    BY <1>2, <1>3, <1>4 DEF TypeOK, Checkpoint
  <1>9. run'.at = "model" /\ run'.t = t /\ run'.call = run.call /\ run' \in RunType
    <2>1. ASSUME NEW n \in Nat, run' = [run EXCEPT !.at = "model", !.t = t, !.runs = n]
          PROVE  run'.at = "model" /\ run'.t = t /\ run'.call = run.call /\ run' \in RunType
      BY <1>2, <2>1 DEF TypeOK, RunType
    <2>2. run.runs + 1 \in Nat
      BY DEF TypeOK, RunType
    <2>3. QED BY <1>4, <2>1, <2>2
  <1>10. /\ reqs' \in [Range(Threads) -> {"unset", "yes", "no"}] /\ reqs'[t] # "unset"
         /\ \A u \in Range(Threads) : reqs[u] # "unset" \/ u # t => reqs'[u] = reqs[u]
    BY <1>2, <1>5 DEF TypeOK
  <1>11. layer' \in [Range(Threads) -> Files]
    BY <1>2, <1>4 DEF TypeOK
  <1>12. TypeOK'
    BY <1>6, <1>8, <1>9, <1>10, <1>11 DEF TypeOK
  <1>13. QED BY <1>2, <1>4, <1>6, <1>7, <1>8, <1>9, <1>10, <1>12 DEF t, vfs

\* One call of the message returns its update.
LEMMA CallFacts ==
  ASSUME NEW r \in RunType, NEW u \in Checkpoint, NEW w \in Nat
  PROVE  LET q == [r EXCEPT !.calls = r.calls + 1, !.writes = w, !.next = u]
         IN  q \in RunType /\ q.at = r.at /\ q.t = r.t /\ q.next = u
  <1>1. ASSUME NEW n \in Nat
        PROVE  LET q == [r EXCEPT !.calls = n, !.writes = w, !.next = u]
               IN  q \in RunType /\ q.at = r.at /\ q.t = r.t /\ q.next = u
    BY DEF RunType
  <1>2. r.calls + 1 \in Nat
    BY DEF RunType
  <1>3. QED BY <1>1, <1>2

LEMMA ReturnFacts ==
  ASSUME TypeOK, NEW u \in Checkpoint, Return(u)
  PROVE  run' \in RunType /\ run'.at = run.at /\ run'.t = run.t /\ run'.next = u
  <1>1. run' = [run EXCEPT !.calls = run.calls + 1, !.next = u] /\ run \in RunType /\ run.writes \in Nat
    BY DEF Return, TypeOK, RunType
  <1>2. [run EXCEPT !.calls = run.calls + 1, !.next = u]
          = [run EXCEPT !.calls = run.calls + 1, !.writes = run.writes, !.next = u]
    BY <1>1 DEF RunType
  <1>3. LET q == [run EXCEPT !.calls = run.calls + 1, !.writes = run.writes, !.next = u]
        IN  q \in RunType /\ q.at = run.at /\ q.t = run.t /\ q.next = u
    BY <1>1, CallFacts
  <1>4. QED BY <1>1, <1>2, <1>3

LEMMA HereFacts ==
  ASSUME TypeOK, NEW t \in Range(Threads)
  PROVE  /\ View(t, ckpt[t].vfs) \in Files
         /\ DOMAIN View(t, ckpt[t].vfs) = DOMAIN ckpt[t].vfs \cup DOMAIN layer[t]
         /\ ckpt[t].vfs \in Files /\ layer[t] \in Files /\ audit[t].files \in Files
         /\ ckpt[t].val \in Stamping
  <1>1. /\ ckpt[t].vfs \in Files /\ layer[t] \in Files /\ audit[t].files \in Files
        /\ ckpt[t].val \in Stamping
    BY DEF TypeOK, Checkpoint, Completion
  <1>2. QED BY <1>1, OverFacts DEF View

\* What the update of a message may have of the stamps: the ones of the
\* checkpoint, or the files of the moment; and a result needs the latter.
Agreed(t, next) ==
  /\ next.val.prover = Digest(next.val.proved) /\ next.val.reqs = Digest(next.val.judged)
  /\ next.val.proved \in {ckpt[t].val.proved, View(t, ckpt[t].vfs)}
  /\ next.val.judged \in {ckpt[t].val.judged, View(t, ckpt[t].vfs)}
  /\ next.code => /\ next.val.proved = View(t, ckpt[t].vfs)
                  /\ reqs[t] = "yes" => next.val.judged = View(t, ckpt[t].vfs)

Held(t) == DOMAIN ckpt[t].vfs \cup DOMAIN layer[t]
Same(v, w, late) ==
  \A p \in Range(Paths) \ late : (p \in DOMAIN v <=> p \in DOMAIN w) /\ (p \in DOMAIN v => v[p] = w[p])

\* The stamps are those of directories whose files are still there; what was
\* accepted differs from them in the late files only.
ThreadOK(t) ==
  /\ ckpt[t].val.prover = Digest(ckpt[t].val.proved) /\ DOMAIN ckpt[t].val.proved \subseteq Held(t)
  /\ ckpt[t].val.reqs = Digest(ckpt[t].val.judged) /\ DOMAIN ckpt[t].val.judged \subseteq Held(t)
  /\ DOMAIN audit[t].files \subseteq Held(t)
  /\ ckpt[t].code =>
       /\ reqs[t] # "unset"
       /\ Same(ckpt[t].val.proved, View(t, ckpt[t].vfs), ckpt[t].late)
       /\ reqs[t] = "yes" => Same(ckpt[t].val.judged, View(t, ckpt[t].vfs), ckpt[t].late)

\* A directory underneath is that of the thread before.
LayerOK ==
  \A i \in DOMAIN Threads :
    DOMAIN layer[Threads[i]] \subseteq
      IF i = 1 THEN {} ELSE {"rules.spec"} \cup DOMAIN audit[Threads[i - 1]].files

RunOK ==
  /\ run.at # "idle" => run.t \in Range(Threads) /\ reqs[run.t] # "unset"
  /\ run.call # "none" => run.at = "tools"
  /\ run.at \in {"commentary", "output"} => ckpt[run.t].code
  /\ run.at = "tools" => Agreed(run.t, run.next)
  /\ run.at = "output" => audit[run.t].files = View(run.t, ckpt[run.t].vfs)

Inv == TypeOK /\ (\A t \in Range(Threads) : ThreadOK(t)) /\ LayerOK /\ RunOK

LEMMA InvInit == Init => Inv
  <1> SUFFICES ASSUME Init PROVE Inv
    OBVIOUS
  <1>1. ASSUME NEW t \in Range(Threads) PROVE ThreadOK(t)
    <2>1. ckpt[t] = Empty /\ audit[t].files = NoFiles
      BY DEF Init
    <2>2. QED BY <2>1, EmptyDigest, NoFilesFacts DEF ThreadOK, Empty, NoStamps
  <1>2. LayerOK
    <2>1. \A i \in DOMAIN Threads : layer[Threads[i]] = NoFiles
      BY DEF Init, Range
    <2>2. QED BY <2>1, NoFilesFacts DEF LayerOK
  <1>3. RunOK
    BY DEF Init, RunOK, Idle
  <1>4. QED BY <1>1, <1>2, <1>3, TypeInit DEF Inv

\* A step of the run alone.
LEMMA RunStep ==
  ASSUME Inv, Frame, run' \in RunType, RunOK' PROVE Inv'
  BY DEF Inv, Frame, stores, TypeOK, ThreadOK, LayerOK, Held, View

LEMMA CallStep ==
  ASSUME Inv, Frame, run' \in RunType, run.at = "tools", run'.at = "tools", run'.t = run.t,
         Agreed(run.t, run'.next)
  PROVE  Inv'
  <1>1. RunOK'
    BY DEF Inv, RunOK, Frame, stores, Agreed, View
  <1>2. QED BY <1>1, RunStep

-----------------------------------------------------------------------------
(* One lemma per action *)

LEMMA StartStep ==
  ASSUME Inv, NEW i \in DOMAIN Threads, Start(i) PROVE Inv'
  <1> DEFINE t == Threads[i]
  <1>1. PICK in \in Inputs(Threads[i], i) :
           /\ t \in Range(Threads) /\ in[1] \in Files /\ in[2] \in Files
           /\ layer' = [layer EXCEPT ![t] = in[2]]
           /\ \A u \in Range(Threads) : u # t => ckpt'[u] = ckpt[u]
           /\ ckpt'[t].vfs = Over(in[1], ckpt[t].vfs) /\ ckpt'[t].val = ckpt[t].val
           /\ ckpt'[t].code = ckpt[t].code
           /\ ckpt[t].code => ckpt'[t].late = ckpt[t].late \cup DOMAIN in[1] \cup DOMAIN in[2]
           /\ run'.at = "model" /\ run'.t = t /\ run'.call = run.call
           /\ reqs' \in [Range(Threads) -> {"unset", "yes", "no"}] /\ reqs'[t] # "unset"
           /\ \A u \in Range(Threads) : reqs[u] # "unset" \/ u # t => reqs'[u] = reqs[u]
           /\ UNCHANGED audit
           /\ TypeOK'
    BY StartFacts DEF Inv
  <1>2. /\ i = 1 => DOMAIN in[2] = {}
        /\ i # 1 => /\ Threads[i - 1] \in Range(Threads)
                    /\ DOMAIN audit[Threads[i - 1]].files \subseteq DOMAIN in[1] \cup DOMAIN in[2]
                    /\ DOMAIN in[2] \subseteq {"rules.spec"} \cup DOMAIN audit[Threads[i - 1]].files
        /\ "rules.spec" \in DOMAIN in[1] \cup DOMAIN in[2]
    BY InputType DEF Inv
  <1>3. layer'[t] = in[2] /\ \A u \in Range(Threads) : u # t => layer'[u] = layer[u]
    BY <1>1 DEF Inv, TypeOK
  \* What lay underneath before is in the input.
  <1>4. DOMAIN layer[t] \subseteq DOMAIN in[1] \cup DOMAIN in[2]
    <2>1. DOMAIN layer[t] \subseteq IF i = 1 THEN {} ELSE {"rules.spec"} \cup DOMAIN audit[Threads[i - 1]].files
      BY DEF Inv, LayerOK
    <2>2. QED BY <1>2, <2>1
  <1>5. /\ ckpt[t].vfs \in Files /\ layer[t] \in Files
        /\ Over(in[1], ckpt[t].vfs) \in Files
        /\ DOMAIN Over(in[1], ckpt[t].vfs) = DOMAIN in[1] \cup DOMAIN ckpt[t].vfs
        /\ \A p \in DOMAIN ckpt[t].vfs \ DOMAIN in[1] : Over(in[1], ckpt[t].vfs)[p] = ckpt[t].vfs[p]
    <2>1. ckpt[t].vfs \in Files /\ layer[t] \in Files
      BY <1>1, HereFacts DEF Inv
    <2>2. QED BY <1>1, <2>1, OverFacts
  <1> HIDE DEF t
  <1>6. ThreadOK(t)'
    <2>0. ThreadOK(t)
      BY <1>1 DEF Inv
    <2>1. Held(t) \subseteq Held(t)'
      BY <1>1, <1>3, <1>4, <1>5 DEF Held
    <2>2. ASSUME ckpt[t].code, NEW v, Same(v, View(t, ckpt[t].vfs), ckpt[t].late)
          PROVE  Same(v, View(t, ckpt[t].vfs)', ckpt'[t].late)
      <3> DEFINE old == View(t, ckpt[t].vfs)
                 new == Over(ckpt'[t].vfs, in[2])
      <3>1. View(t, ckpt[t].vfs)' = new
        BY <1>3 DEF View
      <3>2. /\ DOMAIN old = DOMAIN ckpt[t].vfs \cup DOMAIN layer[t]
            /\ \A p \in DOMAIN ckpt[t].vfs : old[p] = ckpt[t].vfs[p]
        BY <1>5, OverFacts DEF View
      <3>3. /\ DOMAIN new = DOMAIN ckpt'[t].vfs \cup DOMAIN in[2]
            /\ \A p \in DOMAIN ckpt'[t].vfs : new[p] = ckpt'[t].vfs[p]
        <4>1. ckpt'[t].vfs \in Files
          BY <1>1, <1>5
        <4>2. QED BY <1>1, <4>1, OverFacts
      <3> HIDE DEF old, new
      <3>4. ASSUME NEW p \in Range(Paths) \ ckpt'[t].late
            PROVE  (p \in DOMAIN old <=> p \in DOMAIN new) /\ (p \in DOMAIN old => old[p] = new[p])
        <4>1. p \notin DOMAIN in[1] /\ p \notin DOMAIN in[2] /\ p \notin DOMAIN layer[t]
          BY <1>1, <1>4, <2>2
        <4>2. QED BY <1>1, <1>5, <3>2, <3>3, <4>1
      <3>5. ckpt[t].late \subseteq ckpt'[t].late
        BY <1>1, <2>2
      <3>6. Same(v, old, ckpt[t].late)
        BY <2>2 DEF old
      <3>7. Same(v, new, ckpt'[t].late)
        BY <3>4, <3>5, <3>6 DEF Same
      <3>8. QED BY <3>1, <3>7
    <2>3. ckpt[t].code => reqs'[t] = reqs[t]
      BY <1>1, <2>0 DEF ThreadOK
    <2>4. QED BY <1>1, <2>0, <2>1, <2>2, <2>3 DEF ThreadOK
  <1>7. ASSUME NEW u \in Range(Threads) PROVE ThreadOK(u)'
    <2>1. CASE u # t
      <3>1. ThreadOK(u) /\ ckpt'[u] = ckpt[u] /\ layer'[u] = layer[u] /\ reqs'[u] = reqs[u] /\ audit' = audit
        BY <1>1, <1>3, <2>1 DEF Inv
      <3>2. QED BY <3>1 DEF ThreadOK, Held, View
    <2>2. QED BY <1>6, <2>1
  <1>8. LayerOK'
    <2>1. ASSUME NEW j \in DOMAIN Threads
          PROVE  DOMAIN layer'[Threads[j]] \subseteq
                   IF j = 1 THEN {} ELSE {"rules.spec"} \cup DOMAIN audit[Threads[j - 1]].files
      <3>1. CASE j = i
        BY <1>2, <1>3, <3>1 DEF t
      <3>2. CASE j # i
        <4>1. Threads[j] # t /\ Threads[j] \in Range(Threads)
          BY <3>2, CodegenAssumption DEF t, IsInjective, Range
        <4>2. layer'[Threads[j]] = layer[Threads[j]]
          BY <1>3, <4>1
        <4>3. QED BY <4>2 DEF Inv, LayerOK
      <3>3. QED BY <3>1, <3>2
    <2>2. QED BY <1>1, <2>1 DEF LayerOK
  <1>9. RunOK'
    <2>1. run.call = "none"
      BY DEF Inv, RunOK, Start
    <2>2. QED BY <1>1, <2>1 DEF RunOK
  <1>10. QED BY <1>1, <1>7, <1>8, <1>9 DEF Inv

LEMMA ContinueStep ==
  ASSUME Inv, NEW t \in Range(Threads), Continue(t) PROVE Inv'
  <1> DEFINE at == IF ckpt[t].code THEN "commentary" ELSE "model"
  <1>1. at \in {"commentary", "model"} /\ (at = "commentary" => ckpt[t].code)
    OBVIOUS
  <1>2. /\ run' = [run EXCEPT !.at = at, !.t = t, !.runs = run.runs + 1]
        /\ Frame /\ reqs[t] # "unset" /\ run.call = "none"
    BY DEF Continue, Frame, stores, Inv, RunOK
  <1> HIDE DEF at
  <1>3. run' \in RunType /\ run'.at = at /\ run'.t = t /\ run'.call = run.call
    <2>1. ASSUME NEW n \in Nat, run' = [run EXCEPT !.at = at, !.t = t, !.runs = n]
          PROVE  run' \in RunType /\ run'.at = at /\ run'.t = t /\ run'.call = run.call
      BY <1>1, <2>1 DEF Inv, TypeOK, RunType
    <2>2. run.runs + 1 \in Nat
      BY DEF Inv, TypeOK, RunType
    <2>3. QED BY <1>2, <2>1, <2>2
  <1>4. RunOK'
    BY <1>1, <1>2, <1>3 DEF RunOK, Frame, stores
  <1>5. QED BY <1>2, <1>3, <1>4, RunStep

\* A run that ends leaves nothing.
LEMMA EndStep ==
  ASSUME Inv, Frame, End PROVE Inv'
  <1>1. run' \in RunType /\ run'.at = "idle" /\ run'.call = "none"
    <2>1. run.t \in Range(Threads) \cup {None} /\ run.turns \in Nat /\ run.runs \in Nat
      BY DEF Inv, TypeOK, RunType
    <2>2. QED BY <2>1, EmptyType DEF End, Idle, RunType
  <1>2. RunOK'
    BY <1>1 DEF RunOK
  <1>3. QED BY <1>1, <1>2, RunStep

LEMMA SendMessageStep ==
  ASSUME Inv, SendMessage PROVE Inv'
  <1> DEFINE next == [Empty EXCEPT !.val = Now.val]
  <1>1. /\ run' = [run EXCEPT !.at = "tools", !.turns = run.turns + 1, !.calls = 0, !.next = next, !.writes = 0]
        /\ Frame /\ run.at = "model" /\ run.call = "none"
    BY DEF SendMessage, Inv, RunOK
  <1>2. run.t \in Range(Threads) /\ reqs[run.t] # "unset" /\ ThreadOK(run.t) /\ Now.val \in Stamping
    BY <1>1, HereFacts DEF Inv, RunOK, Now
  <1>3. next \in Checkpoint /\ next.val = ckpt[run.t].val /\ next.code = FALSE
    BY <1>2, EmptyType DEF Checkpoint, Empty, Now
  <1> HIDE DEF next
  <1>4. run' \in RunType /\ run'.at = "tools" /\ run'.t = run.t /\ run'.next = next /\ run'.call = run.call
    <2>1. ASSUME NEW n \in Nat,
                 run' = [run EXCEPT !.at = "tools", !.turns = n, !.calls = 0, !.next = next, !.writes = 0]
          PROVE  run' \in RunType /\ run'.at = "tools" /\ run'.t = run.t /\ run'.next = next /\ run'.call = run.call
      BY <1>3, <2>1 DEF Inv, TypeOK, RunType
    <2>2. run.turns + 1 \in Nat
      BY DEF Inv, TypeOK, RunType
    <2>3. QED BY <1>1, <2>1, <2>2
  <1>5. Agreed(run.t, next)
    BY <1>2, <1>3 DEF Agreed, ThreadOK
  <1>6. RunOK'
    BY <1>1, <1>2, <1>4, <1>5 DEF RunOK, Frame, stores, Agreed, View
  <1>7. QED BY <1>1, <1>4, <1>6, RunStep

\* What the calls of a message find.
LEMMA CallsFacts ==
  ASSUME Inv, run.at = "tools"
  PROVE  /\ run \in RunType /\ run.next \in Checkpoint /\ run.t \in Range(Threads)
         /\ reqs[run.t] # "unset" /\ ThreadOK(run.t) /\ Agreed(run.t, run.next)
         /\ Here = View(run.t, ckpt[run.t].vfs) /\ Here \in Files /\ Now.val \in Stamping
         /\ DOMAIN Here = Held(run.t)
  <1>1. run \in RunType /\ run.next \in Checkpoint
    BY DEF Inv, TypeOK, RunType
  <1>2. run.t \in Range(Threads) /\ reqs[run.t] # "unset" /\ ThreadOK(run.t) /\ Agreed(run.t, run.next)
    BY DEF Inv, RunOK
  <1>3. QED BY <1>1, <1>2, HereFacts DEF Inv, Here, Now, Held

\* A call that leaves the stamps and the result of its message.
LEMMA ReturnStep ==
  ASSUME Inv, Calls, Frame, NEW u \in Checkpoint, Return(u), Agreed(run.t, u)
  PROVE  Inv'
  <1>1. run' \in RunType /\ run'.at = run.at /\ run'.t = run.t /\ run'.next = u
    BY ReturnFacts DEF Inv
  <1>2. run.at = "tools"
    BY DEF Calls
  <1>3. QED BY <1>1, <1>2, CallStep

LEMMA PutFileStep ==
  ASSUME Inv, PutFile PROVE Inv'
  <1>1. PICK p \in Range(Paths) \ {"rules.spec"}, c \in Codes :
          Return([run.next EXCEPT !.vfs = Over([q \in {p} |-> c], run.next.vfs)])
    BY DEF PutFile
  <1>2. Calls /\ Frame /\ run.at = "tools"
    BY DEF PutFile, Calls
  <1>3. run.next \in Checkpoint /\ Agreed(run.t, run.next)
    BY <1>2, CallsFacts
  <1> DEFINE f == [q \in {p} |-> c]
             vfs == Over(f, run.next.vfs)
             u == [run.next EXCEPT !.vfs = vfs]
  <1>4. f \in Files /\ run.next.vfs \in Files
    BY <1>3, OneFile DEF Contents, Checkpoint
  <1>5. Return(u)
    BY <1>1
  <1> HIDE DEF f
  <1>6. vfs \in Files
    BY <1>4, OverFacts
  <1> HIDE DEF vfs
  <1>7. u \in Checkpoint /\ u.val = run.next.val /\ u.code = run.next.code
    BY <1>3, <1>6 DEF Checkpoint
  <1> HIDE DEF u
  <1>8. Agreed(run.t, u)
    BY <1>3, <1>7 DEF Agreed
  <1>9. QED BY <1>2, <1>5, <1>7, <1>8, ReturnStep

LEMMA WriteWorkingSpecStep ==
  ASSUME Inv, WriteWorkingSpec PROVE Inv'
  <1>1. run' = [run EXCEPT !.calls = run.calls + 1, !.writes = run.writes + 1] /\ Frame /\ run.at = "tools"
    BY DEF WriteWorkingSpec, Calls
  <1>2. run \in RunType /\ run.next \in Checkpoint /\ Agreed(run.t, run.next)
    BY <1>1, CallsFacts
  <1>3. run' = [run EXCEPT !.calls = run.calls + 1, !.writes = run.writes + 1, !.next = run.next]
    BY <1>1, <1>2 DEF RunType
  <1>4. ASSUME NEW w \in Nat, NEW u \in Checkpoint, u = run.next,
               run' = [run EXCEPT !.calls = run.calls + 1, !.writes = w, !.next = u]
        PROVE  run' \in RunType /\ run'.at = run.at /\ run'.t = run.t /\ run'.next = u
    <2>1. LET q == [run EXCEPT !.calls = run.calls + 1, !.writes = w, !.next = u]
          IN  q \in RunType /\ q.at = run.at /\ q.t = run.t /\ q.next = u
      BY <1>2, CallFacts
    <2>2. QED BY <1>4, <2>1
  <1>5. run' \in RunType /\ run'.at = run.at /\ run'.t = run.t /\ run'.next = run.next
    <2>1. run.writes + 1 \in Nat
      BY <1>2 DEF RunType
    <2>2. PICK w \in Nat : w = run.writes + 1
      BY <2>1
    <2>3. PICK u \in Checkpoint : u = run.next
      BY <1>2
    <2>4. run' = [run EXCEPT !.calls = run.calls + 1, !.writes = w, !.next = u]
      BY <1>3, <2>2, <2>3
    <2>5. run' \in RunType /\ run'.at = run.at /\ run'.t = run.t /\ run'.next = u
      BY <1>4, <2>3, <2>4
    <2>6. QED BY <2>3, <2>5
  <1>6. QED BY <1>1, <1>2, <1>5, CallStep

LEMMA CallProverStep ==
  ASSUME Inv, CallProver PROVE Inv'
  <1>1. PICK c \in {"full", "part"} : run' = [run EXCEPT !.call = c]
    BY DEF CallProver
  <1>2. Frame /\ run.at = "tools"
    BY DEF CallProver, Calls
  <1>3. run \in RunType /\ Agreed(run.t, run.next)
    BY <1>2, CallsFacts
  <1>4. run' \in RunType /\ run'.at = run.at /\ run'.t = run.t /\ run'.next = run.next
    BY <1>1, <1>3 DEF RunType
  <1>5. QED BY <1>2, <1>3, <1>4, CallStep

LEMMA RunProverStep ==
  ASSUME Inv, RunProver PROVE Inv'
  <1>1. run' = run /\ Frame
    BY DEF RunProver
  <1>2. run' \in RunType /\ RunOK'
    BY <1>1 DEF Inv, TypeOK, RunOK, Frame, stores, Agreed, View
  <1>3. QED BY <1>1, <1>2, RunStep

\* The stamps of a run of the prover are those of the files it was given.
LEMMA ProverAnswersStep ==
  ASSUME Inv, ProverAnswers PROVE Inv'
  <1> DEFINE prover == IF Stamps THEN Digest(Here) ELSE run.next.val.prover
             proved == IF Verified THEN Here ELSE run.next.val.proved
             val == [run.next.val EXCEPT !.prover = prover, !.proved = proved]
             u == [run.next EXCEPT !.val = val]
  <1>1. run.at = "tools" /\ Frame
    BY DEF ProverAnswers, Inv, RunOK
  <1>2. run \in RunType /\ run.next \in Checkpoint /\ Agreed(run.t, run.next) /\ Here \in Files
    BY <1>1, CallsFacts
  <1>3. /\ prover \in Digests /\ proved \in Files /\ prover = Digest(proved)
        /\ proved \in {run.next.val.proved, Here}
    <2>1. prover = Digest(proved) /\ proved \in {run.next.val.proved, Here}
      BY <1>2 DEF Stamps, Verified, Agreed
    <2>2. run.next.val.proved \in Files
      BY <1>2 DEF Checkpoint, Stamping
    <2>3. QED BY <1>2, <2>1, <2>2 DEF Digests
  <1>4. run' = [run EXCEPT !.calls = run.calls + 1, !.call = "none", !.next = u]
    <2>1. run' = [run EXCEPT !.calls = run.calls + 1, !.call = "none",
                             !.next.val.prover = prover, !.next.val.proved = proved]
      BY <1>2 DEF ProverAnswers, RunType, Checkpoint, Stamping
    <2> HIDE DEF prover, proved
    <2>2. QED BY <1>2, <2>1 DEF RunType, Checkpoint, Stamping
  <1> HIDE DEF prover, proved
  <1>5. /\ u \in Checkpoint /\ u.code = run.next.code
        /\ u.val = val /\ val.prover = prover /\ val.proved = proved
        /\ val.reqs = run.next.val.reqs /\ val.judged = run.next.val.judged
    BY <1>2, <1>3 DEF Checkpoint, Stamping
  <1> HIDE DEF val, u
  <1>6. run' \in RunType /\ run'.at = run.at /\ run'.t = run.t /\ run'.next = u
    <2>1. ASSUME NEW n \in Nat, run' = [run EXCEPT !.calls = n, !.call = "none", !.next = u]
          PROVE  run' \in RunType /\ run'.at = run.at /\ run'.t = run.t /\ run'.next = u
      BY <1>2, <1>5, <2>1 DEF RunType
    <2>2. run.calls + 1 \in Nat
      BY <1>2 DEF RunType
    <2>3. QED BY <1>4, <2>1, <2>2
  <1>7. Agreed(run.t, u)
    <2>1. Here = View(run.t, ckpt[run.t].vfs)
      BY <1>1, CallsFacts
    <2>2. QED BY <1>2, <1>3, <1>5, <2>1 DEF Agreed
  <1>8. QED BY <1>1, <1>6, <1>7, CallStep

LEMMA EvaluateRequirementsStep ==
  ASSUME Inv, EvaluateRequirements PROVE Inv'
  <1>1. Calls /\ Frame /\ run.at = "tools"
    BY DEF EvaluateRequirements, Calls
  <1>2. /\ run.next \in Checkpoint /\ Agreed(run.t, run.next)
        /\ Here \in Files /\ Here = View(run.t, ckpt[run.t].vfs)
    BY <1>1, CallsFacts
  <1>3. CASE Return(run.next)
    BY <1>1, <1>2, <1>3, ReturnStep
  <1>4. CASE Return([run.next EXCEPT !.val.reqs = Digest(Here), !.val.judged = Here])
    <2> DEFINE digest == Digest(Here)
               val == [run.next.val EXCEPT !.reqs = digest, !.judged = Here]
               u == [run.next EXCEPT !.val = val]
    <2>1. Return(u)
      BY <1>2, <1>4 DEF Checkpoint, Stamping
    <2>2. digest \in Digests /\ digest = Digest(Here)
      BY <1>2 DEF Digests
    <2> HIDE DEF digest
    <2>3. /\ u \in Checkpoint /\ u.code = run.next.code
          /\ u.val = val /\ val.prover = run.next.val.prover /\ val.proved = run.next.val.proved
          /\ val.reqs = digest /\ val.judged = Here
      BY <1>2, <2>2 DEF Checkpoint, Stamping
    <2> HIDE DEF val, u
    <2>4. Agreed(run.t, u)
      BY <1>2, <2>2, <2>3 DEF Agreed
    <2>5. QED BY <1>1, <2>1, <2>3, <2>4, ReturnStep
  <1>5. QED BY <1>3, <1>4 DEF EvaluateRequirements

\* The accepted files are the ones that were verified: their digests agree, and
\* no file that was verified has disappeared.
LEMMA CodeResultStep ==
  ASSUME Inv, CodeResult PROVE Inv'
  <1> DEFINE u == [run.next EXCEPT !.code = TRUE]
  <1>1. Calls /\ Frame /\ run.at = "tools" /\ CheckCompletion /\ Return(u)
    BY DEF CodeResult, Calls
  <1>2. /\ run.next \in Checkpoint /\ Agreed(run.t, run.next) /\ ThreadOK(run.t)
        /\ Here = View(run.t, ckpt[run.t].vfs) /\ Here \in Files /\ Now.val \in Stamping
        /\ DOMAIN Here = Held(run.t)
    BY <1>1, CallsFacts
  <1>3. Now.val.proved = Here
    <2>1. Digest(Now.val.proved) = Digest(Here) /\ DOMAIN Now.val.proved \subseteq DOMAIN Here
      BY <1>1, <1>2 DEF CheckCompletion, ThreadOK, Now
    <2>2. Now.val.proved \in Files
      BY <1>2 DEF Stamping
    <2>3. QED BY <1>2, <2>1, <2>2, DigestTells
  <1>4. reqs[run.t] = "yes" => Now.val.judged = Here
    <2>1. SUFFICES ASSUME reqs[run.t] = "yes" PROVE Now.val.judged = Here
      OBVIOUS
    <2>2. Digest(Now.val.judged) = Digest(Here) /\ DOMAIN Now.val.judged \subseteq DOMAIN Here
      BY <1>1, <1>2, <2>1 DEF CheckCompletion, ThreadOK, Now
    <2>3. Now.val.judged \in Files
      BY <1>2 DEF Stamping
    <2>4. QED BY <1>2, <2>2, <2>3, DigestTells
  <1>5. u \in Checkpoint /\ u.val = run.next.val
    BY <1>2 DEF Checkpoint
  <1> HIDE DEF u
  <1>6. Agreed(run.t, u)
    BY <1>2, <1>3, <1>4, <1>5 DEF Agreed, Now
  <1>7. QED BY <1>1, <1>5, <1>6, ReturnStep

LEMMA AskHumanStep ==
  ASSUME Inv, AskHuman PROVE Inv'
  <1>1. Frame /\ run.at = "tools" /\ run.call = "none"
    BY DEF AskHuman, Calls
  <1>2. CASE Now.code
    <2>1. run' = [run EXCEPT !.at = "commentary", !.calls = 0, !.next = Empty, !.writes = 0]
      BY <1>2 DEF AskHuman
    <2>2. run' \in RunType /\ run'.at = "commentary" /\ run'.t = run.t /\ run'.call = run.call
      BY <2>1, EmptyType DEF Inv, TypeOK, RunType
    <2>3. RunOK'
      BY <1>1, <1>2, <2>2 DEF Inv, RunOK, Now, Frame, stores
    <2>4. QED BY <1>1, <2>2, <2>3, RunStep
  <1>3. CASE ~Now.code
    <2>1. End
      BY <1>3 DEF AskHuman
    <2>2. QED BY <1>1, <2>1, EndStep
  <1>4. QED BY <1>2, <1>3

LEMMA OutputStep ==
  ASSUME Inv, Output PROVE Inv'
  <1>1. End /\ Frame
    BY DEF Output, Frame, stores
  <1>2. QED BY <1>1, EndStep

LEMMA CrashStep ==
  ASSUME Inv, Crash PROVE Inv'
  <1>1. End /\ Frame
    BY DEF Crash, Frame
  <1>2. QED BY <1>1, EndStep

-----------------------------------------------------------------------------
(* The steps that change what is kept *)

LEMMA EndMessageStep ==
  ASSUME Inv, EndMessage PROVE Inv'
  <1>0. PICK t \in Range(Threads) : t = run.t
    BY DEF EndMessage, Inv, RunOK
  <1> DEFINE next == run.next
             vfs == Over(next.vfs, ckpt[t].vfs)
             code == ckpt[t].code \/ next.code
             late == IF next.code THEN DOMAIN next.vfs
                     ELSE IF ckpt[t].code THEN ckpt[t].late \cup DOMAIN next.vfs ELSE {}
             new == [vfs |-> vfs, val |-> next.val, code |-> code, late |-> late]
             at == IF new.code THEN "commentary" ELSE "model"
  <1>1. /\ ckpt' = [ckpt EXCEPT ![t] = new] /\ UNCHANGED stores
        /\ run' = [run EXCEPT !.at = at, !.next = Empty, !.calls = 0, !.writes = 0]
        /\ run.at = "tools" /\ run.call = "none"
    BY <1>0 DEF EndMessage, Now
  <1>2. /\ run \in RunType /\ next \in Checkpoint /\ t \in Range(Threads) /\ reqs[t] # "unset"
        /\ ThreadOK(t) /\ Agreed(t, next) /\ ckpt[t] \in Checkpoint /\ layer[t] \in Files
    BY <1>0, <1>1, CallsFacts DEF Inv, TypeOK
  <1>3. next.vfs \in Files /\ ckpt[t].vfs \in Files /\ code \in BOOLEAN /\ late \in SUBSET Range(Paths)
    BY <1>2, FilesFacts DEF Checkpoint
  <1>4. /\ vfs \in Files /\ DOMAIN vfs = DOMAIN next.vfs \cup DOMAIN ckpt[t].vfs
        /\ \A p \in DOMAIN ckpt[t].vfs \ DOMAIN next.vfs : vfs[p] = ckpt[t].vfs[p]
    BY <1>3, OverFacts
  <1>5. /\ code = (ckpt[t].code \/ next.code)
        /\ code => DOMAIN next.vfs \subseteq late
        /\ code /\ ~next.code => ckpt[t].code /\ ckpt[t].late \subseteq late
    OBVIOUS
  <1>6. at \in {"commentary", "model"} /\ (at = "commentary" => code)
    OBVIOUS
  <1> HIDE DEF vfs, code, late, at
  <1>7. new \in Checkpoint /\ new.vfs = vfs /\ new.val = next.val /\ new.code = code /\ new.late = late
    BY <1>2, <1>3, <1>4 DEF Checkpoint
  <1> HIDE DEF new
  <1>8. /\ ckpt' \in [Range(Threads) -> Checkpoint] /\ ckpt'[t] = new
        /\ \A u \in Range(Threads) : u # t => ckpt'[u] = ckpt[u]
    BY <1>1, <1>2, <1>7 DEF Inv, TypeOK
  <1>9. run' \in RunType /\ run'.at = at /\ run'.t = t /\ run'.call = run.call
    BY <1>0, <1>1, <1>2, <1>6, EmptyType DEF RunType
  <1>10. TypeOK'
    BY <1>1, <1>8, <1>9 DEF Inv, TypeOK, stores
  \* The files before and after differ in those of the message only.
  <1>11. ASSUME NEW p \in Range(Paths) \ DOMAIN next.vfs
         PROVE  /\ p \in DOMAIN View(t, ckpt[t].vfs) <=> p \in DOMAIN View(t, vfs)
                /\ p \in DOMAIN View(t, vfs) => View(t, ckpt[t].vfs)[p] = View(t, vfs)[p]
    <2>1. /\ DOMAIN View(t, ckpt[t].vfs) = DOMAIN ckpt[t].vfs \cup DOMAIN layer[t]
          /\ \A q \in DOMAIN ckpt[t].vfs : View(t, ckpt[t].vfs)[q] = ckpt[t].vfs[q]
          /\ \A q \in DOMAIN layer[t] \ DOMAIN ckpt[t].vfs : View(t, ckpt[t].vfs)[q] = layer[t][q]
      BY <1>2, <1>3, OverFacts DEF View
    <2>2. /\ DOMAIN View(t, vfs) = DOMAIN vfs \cup DOMAIN layer[t]
          /\ \A q \in DOMAIN vfs : View(t, vfs)[q] = vfs[q]
          /\ \A q \in DOMAIN layer[t] \ DOMAIN vfs : View(t, vfs)[q] = layer[t][q]
      BY <1>2, <1>4, OverFacts DEF View
    <2>3. QED BY <1>4, <2>1, <2>2
  <1>12. ASSUME code, NEW v, NEW w, v \in {w, View(t, ckpt[t].vfs)},
                next.code => v = View(t, ckpt[t].vfs),
                ckpt[t].code => Same(w, View(t, ckpt[t].vfs), ckpt[t].late)
         PROVE  Same(v, View(t, vfs), late)
    <2>1. CASE v = View(t, ckpt[t].vfs)
      BY <1>5, <1>11, <1>12, <2>1 DEF Same
    <2>2. CASE v = w /\ ~next.code
      <3>1. ckpt[t].code /\ ckpt[t].late \subseteq late /\ DOMAIN next.vfs \subseteq late
        BY <1>5, <1>12, <2>2
      <3>2. Same(v, View(t, ckpt[t].vfs), ckpt[t].late)
        BY <1>12, <2>2, <3>1
      <3>3. QED BY <1>11, <3>1, <3>2 DEF Same
    <2>3. QED BY <1>12, <2>1, <2>2
  <1>13. ThreadOK(t)'
    <2>1. Held(t)' = DOMAIN vfs \cup DOMAIN layer[t] /\ Held(t) \subseteq Held(t)'
      BY <1>1, <1>4, <1>7, <1>8 DEF Held, stores
    <2>2. DOMAIN View(t, ckpt[t].vfs) = Held(t)
      BY <1>0, <1>1, CallsFacts DEF Held
    <2>3. /\ next.val.prover = Digest(next.val.proved) /\ DOMAIN next.val.proved \subseteq Held(t)'
          /\ next.val.reqs = Digest(next.val.judged) /\ DOMAIN next.val.judged \subseteq Held(t)'
      BY <1>2, <2>1, <2>2 DEF Agreed, ThreadOK
    <2>4. code => Same(next.val.proved, View(t, vfs), late)
      BY <1>2, <1>12 DEF Agreed, ThreadOK
    <2>5. code /\ reqs[t] = "yes" => Same(next.val.judged, View(t, vfs), late)
      BY <1>2, <1>12 DEF Agreed, ThreadOK
    <2>6. View(t, ckpt[t].vfs)' = View(t, vfs)
      BY <1>1, <1>7, <1>8 DEF View, stores
    <2>7. DOMAIN audit'[t].files \subseteq Held(t)' /\ reqs'[t] = reqs[t]
      BY <1>1, <1>2, <2>1 DEF ThreadOK, stores
    <2>8. /\ ckpt'[t].val = next.val /\ ckpt'[t].code = code /\ ckpt'[t].late = late
      BY <1>7, <1>8
    <2>9. /\ (DOMAIN ckpt[t].val.proved \subseteq Held(t))' /\ (DOMAIN ckpt[t].val.judged \subseteq Held(t))'
          /\ (ckpt[t].val.prover = Digest(ckpt[t].val.proved))' /\ (ckpt[t].val.reqs = Digest(ckpt[t].val.judged))'
      BY <2>3, <2>8 DEF Digest
    <2>10. ckpt'[t].code =>
             /\ reqs'[t] # "unset"
             /\ Same(ckpt'[t].val.proved, View(t, ckpt[t].vfs)', ckpt'[t].late)
             /\ reqs'[t] = "yes" => Same(ckpt'[t].val.judged, View(t, ckpt[t].vfs)', ckpt'[t].late)
      BY <1>2, <2>4, <2>5, <2>6, <2>7, <2>8
    <2>11. QED BY <2>7, <2>9, <2>10 DEF ThreadOK
  <1>14. ASSUME NEW u \in Range(Threads) PROVE ThreadOK(u)'
    <2>1. CASE u # t
      <3>1. ThreadOK(u) /\ ckpt'[u] = ckpt[u] /\ UNCHANGED stores
        BY <1>1, <1>8, <2>1 DEF Inv
      <3>2. layer' = layer /\ reqs' = reqs /\ audit' = audit
        BY <3>1 DEF stores
      <3>3. View(u, ckpt[u].vfs)' = View(u, ckpt[u].vfs) /\ Held(u)' = Held(u)
        BY <3>1, <3>2 DEF View, Held
      <3>4. QED BY <3>1, <3>2, <3>3 DEF ThreadOK
    <2>2. QED BY <1>13, <2>1
  <1>15. LayerOK'
    BY <1>1 DEF Inv, LayerOK, stores
  <1>16. RunOK'
    BY <1>1, <1>2, <1>6, <1>7, <1>8, <1>9 DEF RunOK, stores
  <1>17. QED BY <1>10, <1>14, <1>15, <1>16 DEF Inv

\* The files of a completion are all of them: none that an earlier completion
\* registered has disappeared.
LEMMA RegisterCompleteStep ==
  ASSUME Inv, RegisterComplete PROVE Inv'
  <1> DEFINE t == run.t
             files == Upsert(Here, audit[t].files)
  <1>1. PICK p \in Range(Paths) \ {"rules.spec"} :
          audit' = [audit EXCEPT ![t] = [files |-> files, intf |-> p]]
    BY DEF RegisterComplete
  <1>2. /\ run' = [run EXCEPT !.at = "output"] /\ run.at = "commentary"
        /\ UNCHANGED <<ckpt, layer, reqs>>
    BY DEF RegisterComplete
  <1>3. /\ t \in Range(Threads) /\ reqs[t] # "unset" /\ ThreadOK(t) /\ ckpt[t].code /\ run.call = "none"
    BY <1>2 DEF Inv, RunOK
  <1>4. /\ Here \in Files /\ DOMAIN Here = Held(t) /\ audit[t].files \in Files
        /\ DOMAIN audit[t].files \subseteq Held(t)
    BY <1>3, HereFacts DEF Inv, Here, Now, Held, ThreadOK
  <1>5. files = Here
    BY <1>4, OverAll DEF Upsert
  <1> HIDE DEF files
  <1>6. /\ audit' \in [Range(Threads) -> Completion] /\ audit'[t].files = Here
        /\ \A u \in Range(Threads) : u # t => audit'[u] = audit[u]
    BY <1>1, <1>3, <1>4, <1>5 DEF Inv, TypeOK, Completion
  <1>7. \A u \in Range(Threads) : DOMAIN audit[u].files \subseteq DOMAIN audit'[u].files
    BY <1>4, <1>6
  <1>8. run' \in RunType /\ run'.at = "output" /\ run'.t = t /\ run'.call = run.call
    BY <1>2 DEF Inv, TypeOK, RunType
  <1>9. TypeOK'
    BY <1>2, <1>6, <1>8 DEF Inv, TypeOK
  <1>10. ASSUME NEW u \in Range(Threads) PROVE ThreadOK(u)'
    <2>1. ThreadOK(u) /\ DOMAIN audit'[u].files \subseteq Held(u)
      BY <1>4, <1>6 DEF Inv, ThreadOK
    <2>2. QED BY <1>2, <2>1 DEF ThreadOK, Held, View
  <1>11. LayerOK'
    <2>1. ASSUME NEW j \in DOMAIN Threads
          PROVE  DOMAIN layer[Threads[j]] \subseteq
                   IF j = 1 THEN {} ELSE {"rules.spec"} \cup DOMAIN audit'[Threads[j - 1]].files
      <3>1. DOMAIN layer[Threads[j]] \subseteq
              IF j = 1 THEN {} ELSE {"rules.spec"} \cup DOMAIN audit[Threads[j - 1]].files
        BY DEF Inv, LayerOK
      <3>2. CASE j = 1
        BY <3>1, <3>2
      <3>3. CASE j # 1
        <4>1. j - 1 \in DOMAIN Threads
          BY <3>3, CodegenAssumption
        <4>2. Threads[j - 1] \in Range(Threads)
          BY <4>1 DEF Range
        <4>3. QED BY <1>7, <3>1, <3>3, <4>2
      <3>4. QED BY <3>2, <3>3
    <2>2. QED BY <1>2, <2>1 DEF LayerOK
  <1>12. RunOK'
    <2>1. View(t, ckpt[t].vfs)' = Here
      BY <1>2 DEF View, Here, Now
    <2>2. QED BY <1>2, <1>3, <1>6, <1>8, <2>1 DEF RunOK
  <1>13. QED BY <1>9, <1>10, <1>11, <1>12 DEF Inv

-----------------------------------------------------------------------------
(* The theorems *)

LEMMA InvNext == Inv /\ [Next]_vars => Inv'
  <1> SUFFICES ASSUME Inv, [Next]_vars PROVE Inv'
    OBVIOUS
  <1>1. ASSUME NEW i \in DOMAIN Threads, Start(i) \/ Continue(Threads[i]) PROVE Inv'
    <2>1. Threads[i] \in Range(Threads)
      BY DEF Range
    <2>2. QED BY <1>1, <2>1, StartStep, ContinueStep
  <1>2. CASE Work
    BY <1>2, SendMessageStep, PutFileStep, WriteWorkingSpecStep, CallProverStep, RunProverStep,
       ProverAnswersStep, EvaluateRequirementsStep, CodeResultStep, AskHumanStep, EndMessageStep,
       RegisterCompleteStep, OutputStep, CrashStep DEF Work
  <1>3. CASE UNCHANGED vars
    BY <1>3 DEF vars, Inv, TypeOK, ThreadOK, LayerOK, RunOK, Held, View, Agreed
  <1>4. QED BY <1>1, <1>2, <1>3 DEF Next

LEMMA InvAlways == Spec => []Inv
  BY InvInit, InvNext, PTL DEF Spec

\* check_completion of tools/result.py compares digests of contents without
\* their names, of stamps that later messages and other starts of the thread go
\* on from; the code that is handed over is nevertheless the code that the prover
\* verified completely and the judge accepted, but for the late files.
THEOREM DeliveredIsValidated == Spec => []DeliveredValidated
  <1>1. Inv => DeliveredValidated
    <2>1. SUFFICES ASSUME Inv, NEW t \in Range(Threads), run.t = t, run.at = "output",
                          NEW v \in {ckpt[t].val.proved} \cup (IF reqs[t] = "yes" THEN {ckpt[t].val.judged} ELSE {})
                   PROVE  Same(v, View(t, ckpt[t].vfs), ckpt[t].late)
      BY DEF DeliveredValidated, Same
    <2>2. ThreadOK(t) /\ ckpt[t].code
      BY <2>1 DEF Inv, RunOK
    <2>3. QED BY <2>1, <2>2 DEF ThreadOK
  <1>2. QED BY <1>1, InvAlways, PTL

\* register_complete of audit/db.py keeps the rows of an earlier completion that
\* the new one does not have; there are none, since no file ever disappears from
\* a thread, even when it is started over another directory.
THEOREM ResumeIsFaithful == Spec => []ResumeFaithful
  <1>1. Inv => ResumeFaithful
    BY DEF Inv, RunOK, ResumeFaithful
  <1>2. QED BY <1>1, InvAlways, PTL
=============================================================================
