---------------------------- MODULE ResultCache ----------------------------
(***************************************************************************)
(* What outlives a run of a pipeline: the store behind the contexts of     *)
(* spec/context.py, addressed by the path of cache keys from the root      *)
(* context, and the files of the artifact stores (spec/artifacts.py,       *)
(* spec/source/artifacts.py) with what was last written to each.           *)
(***************************************************************************)
EXTENDS Naturals, Sequences, FiniteSets

VARIABLES cache, files

durableVars == <<cache, files>>

DurableInit == cache = [k \in {} |-> k] /\ files = [f \in {} |-> f]

\* The namespace of a child context is its parent's, extended by its key.
Child(context, key) == Append(context, key)

Cached(k) == k \in DOMAIN cache
CacheGet(k) == cache[k]

Extended(f, k, v) == [x \in DOMAIN f \cup {k} |-> IF x = k THEN v ELSE f[x]]

CachePut(k, v) == cache' = Extended(cache, k, v)

WriteText(f, content) == files' = Extended(files, f, content)
=============================================================================
