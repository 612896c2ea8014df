------------------------------- MODULE Router -------------------------------
(***************************************************************************)
(* How a request finds its handler: the route table of setup/routes.go and *)
(* the search of internal/router/router.go, one step per entry of the      *)
(* table that iterateRoutes looks at.                                      *)
(*                                                                         *)
(* A path is the sequence of its segments, as explodePath returns it.  A   *)
(* pattern is a sequence of segments, as expandPattern returns it: a       *)
(* variable's name and the words that match, none for a wildcard.  What    *)
(* beforeHandler and account.Add do is in the table as they are; the other *)
(* handlers are names.                                                     *)
(***************************************************************************)
EXTENDS Integers, Sequences, FiniteSets, SequencesExt

CONSTANTS
    Requests    \* the requests clients make: [method, path, slash, host, cookie]

VARIABLES
    request,       \* the request that is served, or Nothing
    at,            \* the entry that is looked at next: <<i>>, or <<i, j>> in a group
    user,          \* Request.User: the account attached, as the guards see it
    unauthorized,  \* the argument of the innermost iterateRoutes
    answer         \* what became of the request, or Nothing

vars == <<request, at, user, unauthorized, answer>>

Nothing == [is |-> "nothing"]

(* cookie: "member" and "admin" are tokens of logins, "stale" one nobody   *)
(* holds, "unknown" one whose look-up fails.                               *)
Cookies == {"none", "stale", "unknown", "member", "admin"}

ASSUME RequestsAssumption ==
    Requests \subseteq [method : {"GET", "POST", "PUT", "DELETE"}, path : Seq(STRING) \ {<<>>},
                        slash : BOOLEAN, host : {"own", "other"}, cookie : Cookies]

-----------------------------------------------------------------------------
(* Segments, entries, and the table. *)

Literal(word) == [name |-> "", matches |-> {word}]
Variable(name) == [name |-> name, matches |-> {}]
OneOf(name, words) == [name |-> name, matches |-> words]

Blank == [method |-> "", pattern |-> <<>>, handler |-> "", use |-> "",
          skip |-> "", guard |-> "", route |-> <<>>]

Entry(method, pattern, handler) ==
    [Blank EXCEPT !.method = method, !.pattern = pattern, !.handler = handler]

Get(pattern, handler) == Entry("GET", pattern, handler)
Pst(pattern, handler) == Entry("POST", pattern, handler)
Put(pattern, handler) == Entry("PUT", pattern, handler)
Del(pattern, handler) == Entry("DELETE", pattern, handler)
Use(handler) == [Blank EXCEPT !.use = handler]
Group(skip, guard, routes) == [Blank EXCEPT !.skip = skip, !.guard = guard, !.route = routes]

Partial == <<Literal("partial")>>
Resource == <<Variable("resource")>>
ModeNames == {"talent", "forums", "event"}
Modes == <<OneOf("mode", ModeNames)>>
Repliers == <<OneOf("mode", {"forums"})>>
InAccount == <<OneOf("mode", {"account"})>>
Submodes == InAccount \o <<OneOf("submode", ModeNames \cup {"settings"})>>
SubRepliers == InAccount \o <<OneOf("submode", {"forums"})>>
InAdmin == <<OneOf("mode", {"admin"})>>
AdminSubs == InAdmin \o <<OneOf("submode", ModeNames)>>
Modals == <<OneOf("modal", {"register", "login", "forgot", "reserve", "mailing"})>>
AccModals == <<OneOf("modal", {"delete", "email", "password", "persona", "delete_account"})>>
Confirms == <<OneOf("kind", {"register", "forgot", "reserve", "mailing", "email", "password"})>>

(* A page and its partial. *)
FullAndPartial(pattern) ==
    << Get(pattern, "mode.Full"), Get(pattern \o Partial, "mode.Partial") >>

Edit == Resource \o <<Literal("edit")>>
Reply == Resource \o <<Literal("reply")>>

Before ==
    << Use("beforeHandler"),
       Get(<<Literal("api"), Literal("event")>> \o Resource, "api.Event"),
       Get(<<Literal("favicon.ico")>>, "static.Media"),
       Get(<<Literal("robots.txt")>>, "static.Robots"),
       Get(<<OneOf("", {"gfx", "fonts"}), Variable("file")>>, "static.Media"),
       Get(<<Literal("user"), Variable("file")>>, "static.User"),
       Get(<<OneOf("", {"svg", "js", "css"}), Variable("file")>>, "static.Handler"),
       Use("account.Add") >>

PagesAndModals ==
    << Get(<<OneOf("page", {""})>>, "page.Full"),
       Get(<<OneOf("page", {"home", ""})>> \o Partial, "page.Partial"),
       Get(Modals, "modal.Full"),
       Get(Modals \o Partial, "modal.Partial"),
       Pst(<<Literal("register")>>, "Register"),
       Pst(<<Literal("login")>>, "Login"),
       Pst(<<Literal("forgot")>>, "ForgotPassword"),
       Pst(<<Literal("mailing")>>, "Mailing"),
       Pst(<<Literal("reserve")>>, "Reserve"),
       Pst(Confirms \o <<Literal("confirm")>>, "ConfirmPartial"),
       Get(AccModals, "modal.Full"),
       Get(AccModals \o Partial, "modal.Partial"),
       Get(Confirms \o <<Variable("code")>>, "ConfirmFull"),
       Get(<<OneOf("kind", {"reserve_handle"}), Variable("code")>>, "ConfirmFull") >>

(* Mutant: the partial of a mode is added after its resources. *)
ModesResourceFirst ==
    FullAndPartial(Modes \o Resource) \o FullAndPartial(Modes)

PublicModes == FullAndPartial(Modes) \o FullAndPartial(Modes \o Resource)

AccountRoutes ==
    << Put(<<Literal("switch"), Variable("persona")>>, "account.Switch"),
       Del(<<Literal("persona"), Variable("persona")>>, "account.DeletePersona"),
       Del(<<Literal("logout")>>, "account.Logout"),
       Pst(<<Literal("email")>>, "Email"),
       Pst(<<Literal("password")>>, "Password"),
       Pst(<<Literal("persona")>>, "Persona"),
       Del(<<Literal("delete_account")>>, "DeleteAccount") >>
    \o FullAndPartial(Modes \o Edit)
    \o FullAndPartial(Repliers \o Reply)
    \o << Put(Modes, "mode.Create"),
          Put(Modes \o Resource, "mode.Update"),
          Del(Modes \o Resource, "mode.Delete"),
          Get(Modes \o <<OneOf("section", {"search", "editor"}), Literal("field"),
                         Variable("name")>> \o Partial, "mode.Field"),
          Put(<<Literal("account"), Literal("settings")>>, "account.CreateSettings"),
          Del(<<Literal("account"), Literal("settings")>> \o Resource, "account.DeleteSettings") >>
    \o FullAndPartial(InAccount)
    \o FullAndPartial(Submodes)
    \o FullAndPartial(Submodes \o Resource)
    \o FullAndPartial(SubRepliers \o Reply)
    \o FullAndPartial(Submodes \o Edit)
    \o << Put(Submodes, "mode.Create"),
          Put(Submodes \o Resource, "mode.Update"),
          Del(Submodes \o Resource, "mode.Delete") >>

AdminRoutes ==
    FullAndPartial(InAdmin)
    \o FullAndPartial(AdminSubs)
    \o FullAndPartial(AdminSubs \o Resource)
    \o FullAndPartial(AdminSubs \o Edit)
    \o << Put(AdminSubs, "mode.Create"),
          Put(AdminSubs \o Resource, "mode.Update"),
          Del(AdminSubs \o Resource, "mode.Delete") >>

MustRoutes ==
    Before \o PagesAndModals \o PublicModes
    \o << Group("", "HasNone", AccountRoutes), Group("NotAdmin", "", AdminRoutes) >>

(* The first segments a request may have. *)
CouldBeStoryDevsPath ==
    {"api", "admin", "account", "talent", "forums", "library", "event", "", "home", "about",
     "register", "login", "forgot", "reserve", "reserve_handle", "mailing", "delete",
     "delete_account", "email", "password", "persona", "user", "gfx", "fonts", "css", "js",
     "svg", "robots.txt", "favicon.ico", "switch", "logout"}

-----------------------------------------------------------------------------
(* The search. *)

HasNone(u) == u = "none"
NotAdmin(u) == u # "admin"

(* Whether a guard is there and says so. *)
Says(guard, u) ==
    \/ guard = "HasNone" /\ HasNone(u)
    \/ guard = "NotAdmin" /\ NotAdmin(u)

Within(path) == IF Len(path) = 1 THEN MustRoutes ELSE MustRoutes[path[1]].route
Current == Within(at)[Last(at)]

(* What the groups around an entry have left of the path. *)
Remaining ==
    IF Len(at) = 1 THEN request.path
    ELSE SubSeq(request.path, Len(MustRoutes[at[1]].pattern) + 1, Len(request.path))

PathsMatch(pattern, path) ==
    /\ Len(pattern) = Len(path)
    /\ \A i \in DOMAIN pattern : pattern[i].matches = {} \/ path[i] \in pattern[i].matches

VarsOf(pattern, path) ==
    [name \in {pattern[i].name : i \in DOMAIN pattern} \ {""} |->
        path[CHOOSE i \in DOMAIN pattern : pattern[i].name = name]]

Matches(entry, path) ==
    /\ Len(entry.pattern) <= Len(path)
    /\ PathsMatch(entry.pattern, SubSeq(path, 1, Len(entry.pattern)))

(* Request.Vars: the variables of the entry's own pattern. *)
Served(entry, path) ==
    [is |-> "served", handler |-> entry.handler, vars |-> VarsOf(entry.pattern, path)]

Status(code) == [is |-> "status", code |-> code]
Terminated(code) == [is |-> "terminated", code |-> code]

Searching == request # Nothing /\ answer = Nothing
Looking == Searching /\ Last(at) <= Len(Within(at))

Advance == at' = [at EXCEPT ![Len(at)] = @ + 1]

Init ==
    /\ request = Nothing
    /\ at = <<1>>
    /\ user = "none"
    /\ unauthorized = FALSE
    /\ answer = Nothing

(* ServeHTTP with a new request. *)
Arrive(q) ==
    /\ request = Nothing
    /\ request' = q
    /\ at' = <<1>>
    /\ user' = "none"
    /\ unauthorized' = FALSE
    /\ answer' = Nothing

(* The first thing wrong with a request, as a status, or 0.  The path is   *)
(* compared as it was written, with a slash at its end or without.         *)
BeforeStatus ==
    IF Head(request.path) \notin CouldBeStoryDevsPath THEN 400
    ELSE IF request.path = <<"about">> /\ ~request.slash THEN 308
    ELSE IF request.host # "own" THEN 301
    ELSE 0

BeforeHandler ==
    /\ Looking /\ Current.use = "beforeHandler"
    /\ IF BeforeStatus = 0
       THEN Advance /\ UNCHANGED answer
       ELSE /\ answer' = Terminated(BeforeStatus)
            /\ UNCHANGED at
    /\ UNCHANGED <<request, user, unauthorized>>

(* An error of the look-up ends the request, and nothing is answered. *)
AddAccount ==
    /\ Looking /\ Current.use = "account.Add"
    /\ IF request.cookie = "unknown"
       THEN answer' = Terminated(400) /\ UNCHANGED <<at, user>>
       ELSE /\ user' = IF request.cookie \in {"member", "admin"} THEN request.cookie ELSE "none"
            /\ Advance
            /\ UNCHANGED answer
    /\ UNCHANGED <<request, unauthorized>>

Fits ==
    /\ ~Says(Current.skip, user)
    /\ Current.method \in {"", request.method}
    /\ Matches(Current, Remaining)

Pass ==
    /\ Looking /\ Current.use = "" /\ ~Fits
    /\ Advance
    /\ UNCHANGED <<request, user, unauthorized, answer>>

(* The whole path matches. *)
Serve ==
    /\ Looking /\ Current.use = "" /\ Fits
    /\ Len(Current.pattern) = Len(Remaining)
    /\ IF unauthorized \/ Says(Current.guard, user)
       THEN answer' = Status(401)
       ELSE answer' = Served(Current, Remaining)
    /\ UNCHANGED <<request, at, user, unauthorized>>

(* Mutant: whether the client is authorised is forgotten inside a group. *)
EnterOpen ==
    /\ Looking /\ Current.use = "" /\ Fits
    /\ Len(Current.pattern) < Len(Remaining)
    /\ IF Current.route # <<>> THEN at' = Append(at, 1) ELSE Advance
    /\ UNCHANGED <<request, user, unauthorized, answer>>

(* A prefix matches: the entries of a group are tried. *)
Enter ==
    /\ Looking /\ Current.use = "" /\ Fits
    /\ Len(Current.pattern) < Len(Remaining)
    /\ IF Current.route # <<>>
       THEN /\ at' = Append(at, 1)
            /\ unauthorized' = (unauthorized \/ Says(Current.guard, user))
       ELSE Advance /\ UNCHANGED unauthorized
    /\ UNCHANGED <<request, user, answer>>

(* No entry of the group matched; its siblings are tried. *)
Leave ==
    /\ Searching /\ Len(at) > 1 /\ Last(at) > Len(Within(at))
    /\ at' = <<at[1] + 1>>
    /\ unauthorized' = FALSE
    /\ UNCHANGED <<request, user, answer>>

NotFound ==
    /\ Searching /\ Len(at) = 1 /\ Last(at) > Len(Within(at))
    /\ answer' = Status(404)
    /\ UNCHANGED <<request, at, user, unauthorized>>

Finish ==
    /\ answer # Nothing
    /\ request' = Nothing
    /\ answer' = Nothing
    /\ at' = <<1>>
    /\ user' = "none"
    /\ unauthorized' = FALSE

Next ==
    \/ \E q \in Requests : Arrive(q)
    \/ BeforeHandler \/ AddAccount
    \/ Pass \/ Serve \/ Enter \/ Leave \/ NotFound
    \/ Finish

Spec == Init /\ [][Next]_vars

-----------------------------------------------------------------------------
(* Properties. *)

(* The routes proper: top-level entries and those of groups. *)
Routes ==
    {p \in {<<i>> : i \in DOMAIN MustRoutes} \cup
           UNION {{<<i, j>> : j \in DOMAIN MustRoutes[i].route} : i \in DOMAIN MustRoutes} :
        Within(p)[Last(p)].handler # ""}

RouteAt(p) == Within(p)[Last(p)]
WholePattern(p) == (IF Len(p) = 1 THEN <<>> ELSE MustRoutes[p[1]].pattern) \o RouteAt(p).pattern

Accepts(segment, word) == segment.matches # {} => word \in segment.matches

(* The routes that describe the request, of those its user can see. *)
Describing ==
    {p \in Routes :
        /\ RouteAt(p).method = request.method
        /\ Len(WholePattern(p)) = Len(request.path)
        /\ \A i \in DOMAIN request.path : Accepts(WholePattern(p)[i], request.path[i])
        /\ MustRoutes[p[1]].skip = "NotAdmin" => request.cookie = "admin"}

Sooner(p, q) == p[1] < q[1] \/ (p[1] = q[1] /\ Len(p) = 2 /\ p[2] < q[2])
First(routes) == CHOOSE p \in routes : \A q \in routes \ {p} : Sooner(p, q)

Answered == answer # Nothing /\ answer.is # "terminated"

(* A request is answered as if the table were one list, in the order it    *)
(* was written: 404 when no route describes it, so that pages of the       *)
(* administrator look like they do not exist to others; 401 when only an   *)
(* account is missing; and else the handler is given, for every variable   *)
(* of its own pattern, the segment of the request that is there.           *)
FirstFit ==
    Answered =>
        IF Describing = {} THEN answer = Status(404)
        ELSE LET p == First(Describing)
             IN  IF MustRoutes[p[1]].guard = "HasNone" /\ request.cookie \notin {"member", "admin"}
                 THEN answer = Status(401)
                 ELSE /\ answer.is = "served"
                      /\ answer.handler = RouteAt(p).handler
                      /\ \A i \in DOMAIN request.path :
                             WholePattern(p)[i].name # "" =>
                                 answer.vars[WholePattern(p)[i].name] = request.path[i]

(* A segment that is one word, one that lists words, and a wildcard. *)
Breadth(segment) ==
    IF segment.matches = {} THEN 3 ELSE IF Cardinality(segment.matches) = 1 THEN 1 ELSE 2

MoreSpecific(p, q) ==
    LET Breadths(r) == [i \in DOMAIN request.path |-> Breadth(WholePattern(r)[i])]
    IN  /\ Breadths(p) # Breadths(q)
        /\ \A i \in DOMAIN request.path : Breadths(p)[i] <= Breadths(q)[i]

(* The order of the table never lets a general route take what a more      *)
(* specific one describes: a partial is not a resource called "partial", a *)
(* dialog is not a code, and the settings of an account, which are no      *)
(* resource, do not reach the handlers of resources.  All of them pass     *)
(* beforeHandler, whose list of first segments is kept apart.              *)
SpecificFirst ==
    /\ answer # Nothing /\ answer.is = "served" =>
           \A p \in Describing : ~MoreSpecific(p, at)
    /\ answer # Nothing /\ answer.is = "terminated" /\ answer.code = 400 =>
           Describing = {} \/ request.cookie = "unknown"

=============================================================================
