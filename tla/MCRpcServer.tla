---------------------------- MODULE MCRpcServer ----------------------------
(* Bounded instances of RpcServer: which profiles the requests may have.   *)
EXTENDS RpcServer

CONSTANTS r1, r2

(* Everything that can happen to a request; of profiles that take the same *)
(* path (a request whose function is missing never gets to its goroutine)  *)
(* one is enough.                                                          *)
AllProfiles ==
    {p \in Profile : /\ p.reply \/ (p.kind = "ok" /\ ~p.hook)
                     /\ p.kind \in {"nofunc", "nilfunc"} => ~p.go
                     /\ p.kind \in {"reject", "okpanic"} => ~p.hook}

Pair(p, q) == [r \in Reqs |-> IF r = r1 THEN p ELSE q]

(* What a second request can do to the first: take its slot for a while,   *)
(* in the loop or in a goroutine, panic, or keep the slot for good.        *)
Plain == {p \in AllProfiles : /\ p.reply /\ ~p.hook
                              /\ \/ p.kind = "ok"
                                 \/ p.kind = "panic" /\ p.go
                                 \/ p.kind = "badargs" /\ ~p.go}

(* Any request next to a plain one, with one slot for both; and next to a  *)
(* plain one in a goroutine, with a slot for each.                         *)
AllSettings ==
    {<<Pair(p, q), 1>> : p \in AllProfiles, q \in Plain} \union
    {<<Pair(p, q), 2>> : p \in AllProfiles, q \in {o \in Plain : o.go}}

(* Plain requests.                                                         *)
OkSettings ==
    {<<Pair(p, q), 2>> : p, q \in {o \in Profile : o.kind = "ok" /\ o.reply /\ ~o.hook}}
=============================================================================
