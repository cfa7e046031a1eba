----------------------------- MODULE MCMemoryMap -----------------------------
(* All maps of at most three disjoint entries, in any order, over a grid of  *)
(* six units, two of which are to be hidden.                                *)
EXTENDS MemoryMap

MCMapEntries == {e \in [addr : 0 .. 5, len : 0 .. 6, type : {1, 2}] : End(e) <= 6}

MCMapTuples == {<<e>> : e \in MCMapEntries}
                 \cup (MCMapEntries \X MCMapEntries)
                 \cup (MCMapEntries \X MCMapEntries \X MCMapEntries)

MCMaps ==
  {m \in MCMapTuples :
     /\ \A i, j \in DOMAIN m : i # j => Apart(m[i], m[j])
     /\ \E i \in DOMAIN m : m[i].addr <= 2 /\ 2 < End(m[i])}
=============================================================================
