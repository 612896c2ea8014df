------------------------------ MODULE MCEvents ------------------------------
(* Half days, a zone ahead of UTC, one behind it and one that agrees. *)
EXTENDS Events

MCOffset == [utc |-> 0, local |-> 0, accra |-> 0, east |-> 1, west |-> -1]

Form(start, finish, weekly, zone) ==
    [start |-> start, finish |-> finish, weekly |-> weekly, zone |-> zone, public |-> TRUE]

MCForms ==
    {Form(3, {}, TRUE, "east"), Form(2, {5}, TRUE, "accra"), Form(3, {7}, TRUE, "utc"),
     Form(5, {12}, FALSE, "west"), [Form(6, {4}, FALSE, "accra") EXCEPT !.public = FALSE]}

MCLocalForms == {Form(8, {}, FALSE, "local"), Form(5, {12}, FALSE, "local")}

MCPage ==
    [from |-> {}, to |-> {}, present |-> {}, overlaps |-> FALSE, zone |-> "utc",
     times |-> {}, all |-> FALSE]

Instance(days, hours) == [days |-> days, hours |-> hours]

MCPages ==
    {MCPage,
     [MCPage EXCEPT !.all = TRUE, !.zone = "east",
          !.times = {Instance({<<6, 1>>}, {<<0, 1>>}), Instance({}, {<<1, 2>>})}]}

MCQueries ==
    MCPages
    \cup {[MCPage EXCEPT !.overlaps = TRUE, !.times = {Instance({<<d, l>>}, {})},
                         !.zone = "west"] :
             d \in {2, 6}, l \in 1..2}
    \cup {[MCPage EXCEPT !.present = p, !.to = {8}, !.overlaps = o] :
             p \in {{"from"}, {"to"}}, o \in BOOLEAN}
    \cup {[MCPage EXCEPT !.from = {2 * d}, !.to = {2 * l}, !.zone = z, !.overlaps = o] :
             d \in {4, 8}, l \in {4, 9}, z \in {"utc", "west"}, o \in BOOLEAN}
=============================================================================
