------------------------------ MODULE MCRouter ------------------------------
EXTENDS Router

(* Every path that some pattern describes, with a resource called x and    *)
(* one called partial for its wildcards.                                   *)
Words(segment) == IF segment.matches = {} THEN {"x", "partial"} ELSE segment.matches

Table == Before \o PagesAndModals \o PublicModes \o AccountRoutes \o AdminRoutes

Instances(pattern) ==
    {path \in [DOMAIN pattern -> UNION {Words(pattern[i]) : i \in DOMAIN pattern}] :
        \A i \in DOMAIN pattern : path[i] \in Words(pattern[i])}

Described == UNION {Instances(Table[i].pattern) : i \in DOMAIN Table} \ {<<>>, <<"", "partial">>}

Odd == {<<"about">>, <<"library">>, <<"wp-admin">>, <<"talent", "", "edit">>,
        <<"talent", "x", "y", "z", "partial">>, <<"account", "settings", "x", "reply">>,
        <<"admin", "settings">>}

MCRequests ==
    [method : {"GET", "POST", "PUT", "DELETE"}, path : Described \cup Odd, slash : {FALSE},
     host : {"own"}, cookie : {"none", "member", "admin"}]
    \cup [method : {"GET"}, path : Odd \cup {<<"talent">>, <<"account">>, <<"user", "x">>},
          slash : BOOLEAN, host : {"own", "other"}, cookie : {"stale", "unknown"}]
=============================================================================
