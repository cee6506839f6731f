-------------------------- MODULE DiagnosticsCache --------------------------
(***************************************************************************)
(* The bounded cache of the editor's diagnostics snapshots                 *)
(* (src/editor/cache.ts), as operators: a Map that keeps the order of      *)
(* insertion is the sequence of its entries, least recently used first.    *)
(* An entry is a record with the field file, which is its key.             *)
(***************************************************************************)
EXTENDS Naturals, Sequences, SequencesExt

CONSTANT CacheMaxFiles \* editor.diagnosticsCacheMaxFiles

ASSUME CapacityAssumption == CacheMaxFiles \in Nat \ {0}

\* A cache of entries of E: within its bound, and one entry per file.
IsCache(s, E) ==
  /\ s \in Seq(E) /\ Len(s) <= CacheMaxFiles
  /\ \A i, j \in DOMAIN s : s[i].file = s[j].file => i = j

Holds(s, f) == \E i \in DOMAIN s : s[i].file = f

at(s, f) == CHOOSE i \in DOMAIN s : s[i].file = f

\* The snapshot of a file that the cache holds.
Snapshot(s, f) == s[at(s, f)]

delete(s, f) == IF Holds(s, f) THEN RemoveAt(s, at(s, f)) ELSE s

\* Mutant: the bound is never enforced.
setUnbounded(s, e) == Append(delete(s, e.file), e)

\* Mutant: the bound drops the entry that was just set.
evictNewest(s, e) ==
  LET all == Append(delete(s, e.file), e)
  IN IF Len(all) > CacheMaxFiles THEN Front(all) ELSE all

\* The newest goes last; evict: the least recently used beyond the bound goes.
set(s, e) ==
  LET all == Append(delete(s, e.file), e)
  IN IF Len(all) > CacheMaxFiles THEN Tail(all) ELSE all

\* Mutant: the snapshot is inserted again but not taken out first.
getTwice(s, f) == IF Holds(s, f) THEN Append(s, Snapshot(s, f)) ELSE s

\* The recency that a look-up refreshes.
get(s, f) == IF Holds(s, f) THEN Append(delete(s, f), Snapshot(s, f)) ELSE s
=============================================================================
