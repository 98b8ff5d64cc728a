---------------------------- MODULE MCDiscovery ----------------------------
(* Nodes of one version, all up at the start.                              *)
EXTENDS Discovery
OneVersion == [n \in Nodes |-> "v1"]
AllPassing == {[n \in Nodes |-> "passing"]}

(* States that differ only in Service objects nobody refers to are one.    *)
LiveView ==
    <<agent, changes, [o \in (WatcherRefs \cup Held(cache.svcs)) \ {NoObj} |-> obj[o]],
      cw, svcs, srv, cacheVars, appVars, stable>>
=============================================================================
