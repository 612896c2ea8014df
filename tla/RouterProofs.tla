----------------------------- MODULE RouterProofs -----------------------------
(***************************************************************************)
(* Proofs about module Router, whatever requests are made: every one is    *)
(* answered as if the table were one flat list, by the most specific of    *)
(* the routes that describe it, and after finitely many entries.           *)
(*                                                                         *)
(* The first part reads the table for the walk: of its hundred entries the *)
(* two that use a handler come where they do, no pattern has two variables *)
(* of one name, and the two groups come last, with empty patterns of their *)
(* own.  The second part is the walk.  The third part reads the table      *)
(* again, for what each pattern asks of a path, and finds which pairs of   *)
(* entries can describe one request.  The last part is the end of the      *)
(* search.                                                                 *)
(***************************************************************************)
EXTENDS Router, FiniteSetTheorems, TLAPS

-----------------------------------------------------------------------------
(* Patterns. *)

(* The variables of a pattern have names among these, each a name of its   *)
(* own.                                                                    *)
HasNames(pattern, names) ==
    /\ \E Segments : pattern \in Seq(Segments)
    /\ \A i \in 1..Len(pattern) : pattern[i].name # "" => pattern[i].name \in names
    /\ \A i, j \in 1..Len(pattern) :
           pattern[i].name = pattern[j].name /\ pattern[i].name # "" => i = j

LEMMA Single ==
    ASSUME NEW S, NEW x \in S, NEW s, s = <<x>>
    PROVE  s \in Seq(S) /\ Len(s) = 1 /\ s[1] = x /\ \A i \in 1..1 : i = 1
  OBVIOUS

LEMMA OneSegment ==
    ASSUME NEW segment, NEW N, segment.name = "" \/ segment.name \in N
    PROVE  HasNames(<<segment>>, N)
  <1>1. PICK s : s = <<segment>>
    OBVIOUS
  <1>2. PICK S : segment \in S
    BY segment \in {segment}
  <1>3. s \in Seq(S) /\ Len(s) = 1 /\ s[1] = segment /\ \A i \in 1..1 : i = 1
    BY <1>1, <1>2, Single
  <1>. QED
    BY <1>1, <1>3 DEF HasNames

LEMMA LiteralSegment == ASSUME NEW word PROVE HasNames(<<Literal(word)>>, {})
  BY OneSegment, Literal(word).name = "" DEF Literal

LEMMA VariableSegment == ASSUME NEW name PROVE HasNames(<<Variable(name)>>, {name})
  BY OneSegment, Variable(name).name = name DEF Variable

LEMMA OneOfSegment == ASSUME NEW name, NEW words PROVE HasNames(<<OneOf(name, words)>>, {name})
  BY OneSegment, OneOf(name, words).name = name DEF OneOf

LEMMA LongerPattern ==
    ASSUME NEW s, NEW t, NEW M, NEW N, HasNames(s, M), HasNames(t, N), M \cap N = {}
    PROVE  HasNames(s \o t, M \cup N)
  <1>1. PICK S : s \in Seq(S)
    BY DEF HasNames
  <1>2. PICK T : t \in Seq(T)
    BY DEF HasNames
  <1>3. s \in Seq(S \cup T) /\ t \in Seq(S \cup T) /\ Len(s) \in Nat /\ Len(t) \in Nat
    BY <1>1, <1>2
  <1>4. s \o t \in Seq(S \cup T)
    BY <1>3
  <1>5. PICK u : u = s \o t
    OBVIOUS
  <1>6. \A i \in 1..Len(u) : \/ i \in 1..Len(s) /\ u[i] = s[i]
                             \/ i - Len(s) \in 1..Len(t) /\ u[i] = t[i - Len(s)]
    BY <1>3, <1>5
  <1>7. \A i \in 1..Len(u) : u[i].name # "" => u[i].name \in M \cup N
    BY <1>6 DEF HasNames
  <1>8. ASSUME NEW i \in 1..Len(u), NEW j \in 1..Len(u), u[i].name = u[j].name, u[i].name # ""
        PROVE  i = j
    <2>1. CASE i \in 1..Len(s) /\ u[i] = s[i]
      <3>1. s[i].name \in M
        BY <1>8, <2>1 DEF HasNames
      <3>2. j \in 1..Len(s) /\ u[j] = s[j]
        BY <1>6, <1>8, <2>1, <3>1 DEF HasNames
      <3>. QED
        BY <1>8, <2>1, <3>2 DEF HasNames
    <2>2. CASE i - Len(s) \in 1..Len(t) /\ u[i] = t[i - Len(s)]
      <3>1. t[i - Len(s)].name \in N
        BY <1>8, <2>2 DEF HasNames
      <3>2. j - Len(s) \in 1..Len(t) /\ u[j] = t[j - Len(s)]
        BY <1>6, <1>8, <2>2, <3>1 DEF HasNames
      <3>3. i - Len(s) = j - Len(s)
        BY <1>8, <2>2, <3>2 DEF HasNames
      <3>. QED
        BY <1>3, <3>3
    <2>. QED
      BY <1>6, <2>1, <2>2
  <1>. QED
    BY <1>4, <1>5, <1>7, <1>8 DEF HasNames

-----------------------------------------------------------------------------
(* Entries. *)

Named(word) == word # ""

RouteOK(entry) ==
    /\ entry.use = "" /\ entry.skip = "" /\ entry.guard = "" /\ entry.route = <<>>
    /\ Named(entry.handler) /\ Named(entry.method)
    /\ \E N : HasNames(entry.pattern, N)

RoutesOK(entries) ==
    /\ \E S : entries \in Seq(S)
    /\ \A i \in 1..Len(entries) : RouteOK(entries[i])

LEMMA EntryRoute ==
    ASSUME NEW p, NEW N, HasNames(p, N), NEW m, NEW h, Named(m), Named(h)
    PROVE  RouteOK(Entry(m, p, h))
  <1>1. PICK e : e = Entry(m, p, h)
    OBVIOUS
  <1>2. /\ e.use = "" /\ e.skip = "" /\ e.guard = "" /\ e.route = <<>>
        /\ e.method = m /\ e.pattern = p /\ e.handler = h
    BY <1>1 DEF Entry, Blank
  <1>3. RouteOK(e)
    BY <1>2 DEF RouteOK
  <1>. QED
    BY <1>1, <1>3

LEMMA MethodRoutes ==
    ASSUME NEW p, NEW N, HasNames(p, N), NEW h, Named(h)
    PROVE  /\ RouteOK(Get(p, h)) /\ RouteOK(Pst(p, h))
           /\ RouteOK(Put(p, h)) /\ RouteOK(Del(p, h))
  <1>1. Named("GET") /\ Named("POST") /\ Named("PUT") /\ Named("DELETE")
    BY DEF Named
  <1>. QED
    BY <1>1, EntryRoute DEF Get, Pst, Put, Del

LEMMA MoreRoutes ==
    ASSUME NEW s, NEW t, RoutesOK(s), RoutesOK(t)
    PROVE  RoutesOK(s \o t) /\ Len(s \o t) = Len(s) + Len(t)
  <1>1. PICK S : s \in Seq(S)
    BY DEF RoutesOK
  <1>2. PICK T : t \in Seq(T)
    BY DEF RoutesOK
  <1>3. s \in Seq(S \cup T) /\ t \in Seq(S \cup T) /\ Len(s) \in Nat /\ Len(t) \in Nat
    BY <1>1, <1>2
  <1>4. s \o t \in Seq(S \cup T) /\ Len(s \o t) = Len(s) + Len(t)
    BY <1>3
  <1>5. PICK u : u = s \o t
    OBVIOUS
  <1>6. \A i \in 1..Len(u) : \/ i \in 1..Len(s) /\ u[i] = s[i]
                             \/ i - Len(s) \in 1..Len(t) /\ u[i] = t[i - Len(s)]
    BY <1>3, <1>5
  <1>7. \A i \in 1..Len(u) : RouteOK(u[i])
    BY <1>6 DEF RoutesOK
  <1>. QED
    BY <1>4, <1>5, <1>7 DEF RoutesOK

LEMMA PartialPattern == HasNames(Partial, {})
  BY LiteralSegment DEF Partial

LEMMA FullAndPartialRoutes ==
    ASSUME NEW p, NEW N, HasNames(p, N)
    PROVE  RoutesOK(FullAndPartial(p)) /\ Len(FullAndPartial(p)) = 2
  <1>1. HasNames(p \o Partial, N \cup {})
    BY PartialPattern, LongerPattern, N \cap {} = {}
  <1>2. PICK a, b : a = Get(p, "mode.Full") /\ b = Get(p \o Partial, "mode.Partial")
    OBVIOUS
  <1>3. RouteOK(a) /\ RouteOK(b)
    <2>1. Named("mode.Full") /\ Named("mode.Partial")
      BY DEF Named
    <2>. QED
      BY <1>1, <1>2, <2>1, MethodRoutes
  <1>4. PICK s : s = <<a, b>>
    OBVIOUS
  <1>5. s \in Seq({a, b}) /\ Len(s) = 2 /\ s[1] = a /\ s[2] = b
    BY <1>4
  <1>6. \A i \in 1..2 : i = 1 \/ i = 2
    OBVIOUS
  <1>7. RoutesOK(s)
    BY <1>3, <1>5, <1>6 DEF RoutesOK
  <1>. QED
    BY <1>2, <1>4, <1>5, <1>7 DEF FullAndPartial

-----------------------------------------------------------------------------
(* The table. *)

LEMMA PatternNames ==
    /\ HasNames(Resource, {"resource"}) /\ HasNames(Modes, {"mode"})
    /\ HasNames(Repliers, {"mode"}) /\ HasNames(InAccount, {"mode"})
    /\ HasNames(InAdmin, {"mode"}) /\ HasNames(Modals, {"modal"})
    /\ HasNames(AccModals, {"modal"}) /\ HasNames(Confirms, {"kind"})
  BY VariableSegment, OneOfSegment
     DEF Resource, Modes, Repliers, InAccount, InAdmin, Modals, AccModals, Confirms

LEMMA LongerNames ==
    /\ HasNames(Edit, {"resource"} \cup {}) /\ HasNames(Reply, {"resource"} \cup {})
    /\ HasNames(Submodes, {"mode"} \cup {"submode"})
    /\ HasNames(SubRepliers, {"mode"} \cup {"submode"})
    /\ HasNames(AdminSubs, {"mode"} \cup {"submode"})
  <1>1. {"resource"} \cap {} = {} /\ {"mode"} \cap {"submode"} = {}
    OBVIOUS
  <1>2. HasNames(Edit, {"resource"} \cup {}) /\ HasNames(Reply, {"resource"} \cup {})
    BY <1>1, PatternNames, LiteralSegment, LongerPattern DEF Edit, Reply
  <1>3. /\ HasNames(Submodes, {"mode"} \cup {"submode"})
        /\ HasNames(SubRepliers, {"mode"} \cup {"submode"})
        /\ HasNames(AdminSubs, {"mode"} \cup {"submode"})
    BY <1>1, PatternNames, OneOfSegment, LongerPattern DEF Submodes, SubRepliers, AdminSubs
  <1>. QED
    BY <1>2, <1>3

(* A pattern with a resource, and what may follow it. *)
LEMMA WithResource ==
    ASSUME NEW p, p \in {Modes, Repliers, Submodes, SubRepliers, AdminSubs}
    PROVE  /\ \E N : HasNames(p, N)
           /\ \E N : HasNames(p \o Resource, N)
           /\ \E N : HasNames(p \o Edit, N)
           /\ \E N : HasNames(p \o Reply, N)
  <1>1. HasNames(p, {"mode"} \cup {"submode"})
    <2>1. \A s : HasNames(s, {"mode"}) => HasNames(s, {"mode"} \cup {"submode"})
      BY DEF HasNames
    <2>. QED
      BY <2>1, PatternNames, LongerNames
  <1>2. ({"mode"} \cup {"submode"}) \cap {"resource"} = {} /\ {"resource"} \cup {} = {"resource"}
    OBVIOUS
  <1>3. HasNames(Resource, {"resource"}) /\ HasNames(Edit, {"resource"}) /\ HasNames(Reply, {"resource"})
    BY <1>2, PatternNames, LongerNames
  <1>4. HasNames(p \o Resource, ({"mode"} \cup {"submode"}) \cup {"resource"})
    BY <1>1, <1>2, <1>3, LongerPattern
  <1>5. HasNames(p \o Edit, ({"mode"} \cup {"submode"}) \cup {"resource"})
    BY <1>1, <1>2, <1>3, LongerPattern
  <1>6. HasNames(p \o Reply, ({"mode"} \cup {"submode"}) \cup {"resource"})
    BY <1>1, <1>2, <1>3, LongerPattern
  <1>. QED
    BY <1>1, <1>4, <1>5, <1>6

LEMMA HandlersNamed ==
    \A h \in {"api.Event", "static.Media", "static.Robots", "static.User", "static.Handler",
              "page.Full", "page.Partial", "modal.Full", "modal.Partial", "Register", "Login",
              "ForgotPassword", "Mailing", "Reserve", "ConfirmPartial", "ConfirmFull",
              "account.Switch", "account.DeletePersona", "account.Logout", "Email", "Password",
              "Persona", "DeleteAccount", "mode.Create", "mode.Update", "mode.Delete",
              "mode.Field", "account.CreateSettings", "account.DeleteSettings"} : Named(h)
  BY DEF Named

LEMMA FirstSegments ==
    /\ \A word : \E N : HasNames(<<Literal(word)>>, N)
    /\ \A name, words : \E N : HasNames(<<OneOf(name, words)>>, N)
    /\ \A name, words : \E N : HasNames(<<OneOf(name, words)>> \o Partial, N)
    /\ \E N : HasNames(Modals \o Partial, N)
    /\ \E N : HasNames(AccModals \o Partial, N)
    /\ \E N : HasNames(Confirms \o <<Literal("confirm")>>, N)
  <1>1. \A names : names \cap {} = {}
    OBVIOUS
  <1>2. \A name, words : HasNames(<<OneOf(name, words)>> \o Partial, {name} \cup {})
    BY <1>1, OneOfSegment, PartialPattern, LongerPattern
  <1>3. HasNames(Modals \o Partial, {"modal"} \cup {}) /\ HasNames(AccModals \o Partial, {"modal"} \cup {})
    BY <1>1, PatternNames, PartialPattern, LongerPattern
  <1>4. HasNames(Confirms \o <<Literal("confirm")>>, {"kind"} \cup {})
    BY <1>1, PatternNames, LiteralSegment, LongerPattern
  <1>. QED
    BY <1>2, <1>3, <1>4, LiteralSegment, OneOfSegment

(* The pattern of a code: a word and a wildcard of different names. *)
LEMMA TwoSegments ==
    /\ \A name, words : name # "code" =>
           \E N : HasNames(<<OneOf(name, words), Variable("code")>>, N)
    /\ \E N : HasNames(Confirms \o <<Variable("code")>>, N)
  <1>1. ASSUME NEW name, NEW words, name # "code",
               NEW a, a = OneOf(name, words), NEW b, b = Variable("code"), NEW s, s = <<a, b>>
        PROVE  HasNames(s, {name, "code"})
    <2>1. s \in Seq({a, b}) /\ Len(s) = 2 /\ s[1] = a /\ s[2] = b
      BY <1>1
    <2>2. a.name = name /\ b.name = "code"
      BY <1>1 DEF OneOf, Variable
    <2>3. \A i \in 1..2 : i = 1 \/ i = 2
      OBVIOUS
    <2>4. \A i \in 1..2 : s[i].name \in {name, "code"}
      BY <2>1, <2>2, <2>3
    <2>5. \A i, j \in 1..2 : s[i].name = s[j].name => i = j
      BY <1>1, <2>1, <2>2, <2>3
    <2>. QED
      BY <2>1, <2>4, <2>5 DEF HasNames
  <1>2. \A name, words : name # "code" =>
            HasNames(<<OneOf(name, words), Variable("code")>>, {name, "code"})
    BY <1>1
  <1>3. HasNames(Confirms \o <<Variable("code")>>, {"kind"} \cup {"code"})
    BY PatternNames, VariableSegment, LongerPattern, {"kind"} \cap {"code"} = {}
  <1>. QED
    BY <1>2, <1>3

LEMMA PagesAndModalsOK == RoutesOK(PagesAndModals) /\ Len(PagesAndModals) = 14
  <1>1. PICK a, b, c, d, e :
            /\ a = Get(<<OneOf("page", {""})>>, "page.Full")
            /\ b = Get(<<OneOf("page", {"home", ""})>> \o Partial, "page.Partial")
            /\ c = Get(Modals, "modal.Full")
            /\ d = Get(Modals \o Partial, "modal.Partial")
            /\ e = Pst(<<Literal("register")>>, "Register")
    OBVIOUS
  <1>2. PICK f, g, h, i, j :
            /\ f = Pst(<<Literal("login")>>, "Login")
            /\ g = Pst(<<Literal("forgot")>>, "ForgotPassword")
            /\ h = Pst(<<Literal("mailing")>>, "Mailing")
            /\ i = Pst(<<Literal("reserve")>>, "Reserve")
            /\ j = Pst(Confirms \o <<Literal("confirm")>>, "ConfirmPartial")
    OBVIOUS
  <1>3. PICK k, l, m, n :
            /\ k = Get(AccModals, "modal.Full")
            /\ l = Get(AccModals \o Partial, "modal.Partial")
            /\ m = Get(Confirms \o <<Variable("code")>>, "ConfirmFull")
            /\ n = Get(<<OneOf("kind", {"reserve_handle"}), Variable("code")>>, "ConfirmFull")
    OBVIOUS
  <1>4. RouteOK(a) /\ RouteOK(b) /\ RouteOK(c) /\ RouteOK(d) /\ RouteOK(e)
    BY <1>1, MethodRoutes, HandlersNamed, FirstSegments, PatternNames
  <1>5. RouteOK(f) /\ RouteOK(g) /\ RouteOK(h) /\ RouteOK(i) /\ RouteOK(j)
    BY <1>2, MethodRoutes, HandlersNamed, FirstSegments
  <1>6. RouteOK(k) /\ RouteOK(l) /\ RouteOK(m) /\ RouteOK(n)
    <2>1. "kind" # "code"
      OBVIOUS
    <2>. QED
      BY <1>3, <2>1, MethodRoutes, HandlersNamed, FirstSegments, PatternNames, TwoSegments
  <1>7. PICK s : s = <<a, b, c, d, e, f, g, h, i, j, k, l, m, n>>
    OBVIOUS
  <1>8. s \in Seq({a, b, c, d, e, f, g, h, i, j, k, l, m, n}) /\ Len(s) = 14
    BY <1>7
  <1>9. /\ s[1] = a /\ s[2] = b /\ s[3] = c /\ s[4] = d /\ s[5] = e /\ s[6] = f /\ s[7] = g
        /\ s[8] = h /\ s[9] = i /\ s[10] = j /\ s[11] = k /\ s[12] = l /\ s[13] = m /\ s[14] = n
    BY <1>7
  <1>10. \A x \in 1..14 : x \in {1, 2, 3, 4, 5, 6, 7, 8, 9, 10, 11, 12, 13, 14}
    OBVIOUS
  <1>11. RoutesOK(s)
    BY <1>4, <1>5, <1>6, <1>8, <1>9, <1>10 DEF RoutesOK
  <1>12. s = PagesAndModals
    BY <1>1, <1>2, <1>3, <1>7 DEF PagesAndModals
  <1>. QED
    BY <1>8, <1>11, <1>12

LEMMA AccountPatterns ==
    /\ \E N : HasNames(<<Literal("switch"), Variable("persona")>>, N)
    /\ \E N : HasNames(<<Literal("persona"), Variable("persona")>>, N)
    /\ \E N : HasNames(<<Literal("account"), Literal("settings")>>, N)
    /\ \E N : HasNames(<<Literal("account"), Literal("settings")>> \o Resource, N)
    /\ \E N : HasNames(Modes \o <<OneOf("section", {"search", "editor"}), Literal("field"),
                                  Variable("name")>> \o Partial, N)
  <1>1. ASSUME NEW word, NEW name, NEW a, a = Literal(word), NEW b, b = Variable(name),
               NEW s, s = <<a, b>>
        PROVE  HasNames(s, {name})
    <2>1. s \in Seq({a, b}) /\ Len(s) = 2 /\ s[1] = a /\ s[2] = b
      BY <1>1
    <2>2. a.name = "" /\ b.name = name
      BY <1>1 DEF Literal, Variable
    <2>3. \A i \in 1..2 : i = 1 \/ i = 2
      OBVIOUS
    <2>4. \A i \in 1..2 : s[i].name = "" \/ s[i].name \in {name}
      BY <2>1, <2>2, <2>3
    <2>5. \A i, j \in 1..2 : s[i].name = s[j].name => s[i].name = "" \/ i = j
      BY <2>1, <2>2, <2>3
    <2>. QED
      BY <2>1, <2>4, <2>5 DEF HasNames
  <1>2. \A word, name : HasNames(<<Literal(word), Variable(name)>>, {name})
    BY <1>1
  <1>3. ASSUME NEW a, a = Literal("account"), NEW b, b = Literal("settings"), NEW s, s = <<a, b>>
        PROVE  HasNames(s, {})
    <2>1. s \in Seq({a, b}) /\ Len(s) = 2 /\ s[1] = a /\ s[2] = b
      BY <1>3
    <2>2. a.name = "" /\ b.name = ""
      BY <1>3 DEF Literal
    <2>3. \A i \in 1..2 : i = 1 \/ i = 2
      OBVIOUS
    <2>4. \A i \in 1..2 : s[i].name = ""
      BY <2>1, <2>2, <2>3
    <2>. QED
      BY <2>1, <2>4 DEF HasNames
  <1>4. HasNames(<<Literal("account"), Literal("settings")>>, {})
    BY <1>3
  <1>5. HasNames(<<Literal("account"), Literal("settings")>> \o Resource, {} \cup {"resource"})
    BY <1>4, PatternNames, LongerPattern, {} \cap {"resource"} = {}
  <1>6. ASSUME NEW a, a = OneOf("section", {"search", "editor"}), NEW b, b = Literal("field"),
               NEW c, c = Variable("name"), NEW s, s = <<a, b, c>>
        PROVE  HasNames(s, {"section", "name"})
    <2>1. s \in Seq({a, b, c}) /\ Len(s) = 3 /\ s[1] = a /\ s[2] = b /\ s[3] = c
      BY <1>6
    <2>2. a.name = "section" /\ b.name = "" /\ c.name = "name"
      BY <1>6 DEF OneOf, Literal, Variable
    <2>3. \A i \in 1..3 : i = 1 \/ i = 2 \/ i = 3
      OBVIOUS
    <2>4. \A i \in 1..3 : s[i].name = "" \/ s[i].name \in {"section", "name"}
      BY <2>1, <2>2, <2>3
    <2>5. \A i, j \in 1..3 : s[i].name = s[j].name => s[i].name = "" \/ i = j
      BY <2>1, <2>2, <2>3
    <2>. QED
      BY <2>1, <2>4, <2>5 DEF HasNames
  <1>7. PICK s : s = <<OneOf("section", {"search", "editor"}), Literal("field"), Variable("name")>>
    OBVIOUS
  <1>8. HasNames(Modes \o s, {"mode"} \cup {"section", "name"})
    BY <1>6, <1>7, PatternNames, LongerPattern, {"mode"} \cap {"section", "name"} = {}
  <1>9. HasNames((Modes \o s) \o Partial, ({"mode"} \cup {"section", "name"}) \cup {})
    BY <1>8, PartialPattern, LongerPattern, ({"mode"} \cup {"section", "name"}) \cap {} = {}
  <1>. QED
    BY <1>2, <1>4, <1>5, <1>7, <1>9

LEMMA ThreeRoutes ==
    ASSUME NEW a, NEW b, NEW c, RouteOK(a), RouteOK(b), RouteOK(c)
    PROVE  RoutesOK(<<a, b, c>>) /\ Len(<<a, b, c>>) = 3
  <1>1. PICK s : s = <<a, b, c>>
    OBVIOUS
  <1>2. s \in Seq({a, b, c}) /\ Len(s) = 3 /\ s[1] = a /\ s[2] = b /\ s[3] = c
    BY <1>1
  <1>3. \A i \in 1..3 : i = 1 \/ i = 2 \/ i = 3
    OBVIOUS
  <1>4. RoutesOK(s)
    BY <1>2, <1>3 DEF RoutesOK
  <1>. QED
    BY <1>1, <1>2, <1>4

LEMMA SixRoutes ==
    ASSUME NEW a, NEW b, NEW c, NEW d, NEW e, NEW f,
           RouteOK(a), RouteOK(b), RouteOK(c), RouteOK(d), RouteOK(e), RouteOK(f)
    PROVE  RoutesOK(<<a, b, c, d, e, f>>) /\ Len(<<a, b, c, d, e, f>>) = 6
  <1>1. PICK s : s = <<a, b, c, d, e, f>>
    OBVIOUS
  <1>2. /\ s \in Seq({a, b, c, d, e, f}) /\ Len(s) = 6
        /\ s[1] = a /\ s[2] = b /\ s[3] = c /\ s[4] = d /\ s[5] = e /\ s[6] = f
    BY <1>1
  <1>3. \A i \in 1..6 : i \in {1, 2, 3, 4, 5, 6}
    OBVIOUS
  <1>4. RoutesOK(s)
    BY <1>2, <1>3 DEF RoutesOK
  <1>. QED
    BY <1>1, <1>2, <1>4

LEMMA SevenRoutes ==
    ASSUME NEW a, NEW b, NEW c, NEW d, NEW e, NEW f, NEW g, RouteOK(a), RouteOK(b), RouteOK(c),
           RouteOK(d), RouteOK(e), RouteOK(f), RouteOK(g)
    PROVE  RoutesOK(<<a, b, c, d, e, f, g>>) /\ Len(<<a, b, c, d, e, f, g>>) = 7
  <1>1. PICK s : s = <<a, b, c, d, e, f, g>>
    OBVIOUS
  <1>2. /\ s \in Seq({a, b, c, d, e, f, g}) /\ Len(s) = 7
        /\ s[1] = a /\ s[2] = b /\ s[3] = c /\ s[4] = d /\ s[5] = e /\ s[6] = f /\ s[7] = g
    BY <1>1
  <1>3. \A i \in 1..7 : i \in {1, 2, 3, 4, 5, 6, 7}
    OBVIOUS
  <1>4. RoutesOK(s)
    BY <1>2, <1>3 DEF RoutesOK
  <1>. QED
    BY <1>1, <1>2, <1>4

(* A list of routes as long as it says. *)
RouteList(entries, length) == RoutesOK(entries) /\ Len(entries) = length

Joined(u, s, t) == u = s \o t

IsSum(l, m, n) == l = m + n

LEMMA LongerList ==
    ASSUME NEW s, NEW t, NEW m \in Nat, NEW n \in Nat, RouteList(s, m), RouteList(t, n),
           NEW u, Joined(u, s, t), NEW l, IsSum(l, m, n)
    PROVE  RouteList(u, l)
  BY MoreRoutes DEF RouteList, Joined, IsSum

LEMMA Sums ==
    /\ IsSum(4, 2, 2) /\ IsSum(6, 4, 2) /\ IsSum(8, 6, 2) /\ IsSum(11, 8, 3)
    /\ IsSum(9, 7, 2) /\ IsSum(11, 9, 2) /\ IsSum(17, 11, 6) /\ IsSum(19, 17, 2) /\ IsSum(21, 19, 2)
    /\ IsSum(23, 21, 2) /\ IsSum(25, 23, 2) /\ IsSum(27, 25, 2) /\ IsSum(30, 27, 3)
  BY DEF IsSum

LEMMA PublicModesOK == RoutesOK(PublicModes) /\ Len(PublicModes) = 4
  <1>1. PICK s, t : s = FullAndPartial(Modes) /\ t = FullAndPartial(Modes \o Resource)
    OBVIOUS
  <1>2. RouteList(s, 2) /\ RouteList(t, 2)
    BY <1>1, WithResource, FullAndPartialRoutes DEF RouteList
  <1>3. Joined(PublicModes, s, t)
    BY <1>1 DEF PublicModes, Joined
  <1>4. RouteList(PublicModes, 4)
    BY <1>2, <1>3, LongerList, Sums
  <1>. QED
    BY <1>4 DEF RouteList

(* What can be done to the resources of modes. *)
LEMMA Writes ==
    ASSUME NEW p, p \in {Modes, Submodes, AdminSubs}
    PROVE  /\ RouteOK(Put(p, "mode.Create"))
           /\ RouteOK(Put(p \o Resource, "mode.Update"))
           /\ RouteOK(Del(p \o Resource, "mode.Delete"))
  BY WithResource, MethodRoutes, HandlersNamed

LEMMA AdminRoutesOK == RoutesOK(AdminRoutes) /\ Len(AdminRoutes) = 11
  <1>1. PICK a, b, c, d : /\ a = FullAndPartial(InAdmin) /\ b = FullAndPartial(AdminSubs)
                          /\ c = FullAndPartial(AdminSubs \o Resource)
                          /\ d = FullAndPartial(AdminSubs \o Edit)
    OBVIOUS
  <1>2. PICK e : e = << Put(AdminSubs, "mode.Create"), Put(AdminSubs \o Resource, "mode.Update"),
                        Del(AdminSubs \o Resource, "mode.Delete") >>
    OBVIOUS
  <1>3. RouteList(a, 2) /\ RouteList(b, 2) /\ RouteList(c, 2) /\ RouteList(d, 2)
    BY <1>1, PatternNames, WithResource, FullAndPartialRoutes DEF RouteList
  <1>4. RouteList(e, 3)
    BY <1>2, Writes, ThreeRoutes DEF RouteList
  <1>5. PICK u : Joined(u, a, b)
    BY DEF Joined
  <1>6. PICK v : Joined(v, u, c)
    BY DEF Joined
  <1>7. PICK w : Joined(w, v, d)
    BY DEF Joined
  <1>8. RouteList(u, 4)
    BY <1>3, <1>5, LongerList, Sums
  <1>9. RouteList(v, 6)
    BY <1>3, <1>6, <1>8, LongerList, Sums
  <1>10. RouteList(w, 8)
    BY <1>3, <1>7, <1>9, LongerList, Sums
  <1>11. Joined(AdminRoutes, w, e)
    BY <1>1, <1>2, <1>5, <1>6, <1>7 DEF AdminRoutes, Joined
  <1>12. RouteList(AdminRoutes, 11)
    BY <1>4, <1>10, <1>11, LongerList, Sums
  <1>. QED
    BY <1>12 DEF RouteList

LEMMA AccountRoutesOK == RoutesOK(AccountRoutes) /\ Len(AccountRoutes) = 30
  <1>1. PICK a : a = << Put(<<Literal("switch"), Variable("persona")>>, "account.Switch"),
                        Del(<<Literal("persona"), Variable("persona")>>, "account.DeletePersona"),
                        Del(<<Literal("logout")>>, "account.Logout"),
                        Pst(<<Literal("email")>>, "Email"),
                        Pst(<<Literal("password")>>, "Password"),
                        Pst(<<Literal("persona")>>, "Persona"),
                        Del(<<Literal("delete_account")>>, "DeleteAccount") >>
    OBVIOUS
  <1>2. PICK b, c : /\ b = FullAndPartial(Modes \o Edit)
                    /\ c = FullAndPartial(Repliers \o Reply)
    OBVIOUS
  <1>3. PICK d : d = << Put(Modes, "mode.Create"),
                        Put(Modes \o Resource, "mode.Update"),
                        Del(Modes \o Resource, "mode.Delete"),
                        Get(Modes \o <<OneOf("section", {"search", "editor"}), Literal("field"),
                                       Variable("name")>> \o Partial, "mode.Field"),
                        Put(<<Literal("account"), Literal("settings")>>, "account.CreateSettings"),
                        Del(<<Literal("account"), Literal("settings")>> \o Resource,
                            "account.DeleteSettings") >>
    OBVIOUS
  <1>4. PICK e, f, g, h, i : /\ e = FullAndPartial(InAccount)
                             /\ f = FullAndPartial(Submodes)
                             /\ g = FullAndPartial(Submodes \o Resource)
                             /\ h = FullAndPartial(SubRepliers \o Reply)
                             /\ i = FullAndPartial(Submodes \o Edit)
    OBVIOUS
  <1>5. PICK j : j = << Put(Submodes, "mode.Create"),
                        Put(Submodes \o Resource, "mode.Update"),
                        Del(Submodes \o Resource, "mode.Delete") >>
    OBVIOUS
  <1>6. RouteList(a, 7)
    <2>1. /\ RouteOK(Put(<<Literal("switch"), Variable("persona")>>, "account.Switch"))
          /\ RouteOK(Del(<<Literal("persona"), Variable("persona")>>, "account.DeletePersona"))
          /\ RouteOK(Del(<<Literal("logout")>>, "account.Logout"))
      BY AccountPatterns, FirstSegments, MethodRoutes, HandlersNamed
    <2>2. /\ RouteOK(Pst(<<Literal("email")>>, "Email"))
          /\ RouteOK(Pst(<<Literal("password")>>, "Password"))
          /\ RouteOK(Pst(<<Literal("persona")>>, "Persona"))
          /\ RouteOK(Del(<<Literal("delete_account")>>, "DeleteAccount"))
      BY FirstSegments, MethodRoutes, HandlersNamed
    <2>. QED
      BY <1>1, <2>1, <2>2, SevenRoutes DEF RouteList
  <1>7. RouteList(b, 2) /\ RouteList(c, 2)
    BY <1>2, WithResource, FullAndPartialRoutes DEF RouteList
  <1>8. RouteList(d, 6)
    <2>1. RouteOK(Get(Modes \o <<OneOf("section", {"search", "editor"}), Literal("field"),
                                 Variable("name")>> \o Partial, "mode.Field"))
      BY AccountPatterns, MethodRoutes, HandlersNamed
    <2>2. /\ RouteOK(Put(<<Literal("account"), Literal("settings")>>, "account.CreateSettings"))
          /\ RouteOK(Del(<<Literal("account"), Literal("settings")>> \o Resource,
                         "account.DeleteSettings"))
      BY AccountPatterns, MethodRoutes, HandlersNamed
    <2>. QED
      BY <1>3, <2>1, <2>2, Writes, SixRoutes DEF RouteList
  <1>9. /\ RouteList(e, 2) /\ RouteList(f, 2) /\ RouteList(g, 2) /\ RouteList(h, 2)
        /\ RouteList(i, 2)
    BY <1>4, PatternNames, WithResource, FullAndPartialRoutes DEF RouteList
  <1>10. RouteList(j, 3)
    BY <1>5, Writes, ThreeRoutes DEF RouteList
  <1>11. PICK s : Joined(s, a, b)
    BY DEF Joined
  <1>12. RouteList(s, 9)
    BY <1>6, <1>7, <1>11, LongerList, Sums
  <1>13. PICK t : Joined(t, s, c)
    BY DEF Joined
  <1>14. RouteList(t, 11)
    BY <1>12, <1>7, <1>13, LongerList, Sums
  <1>15. PICK u : Joined(u, t, d)
    BY DEF Joined
  <1>16. RouteList(u, 17)
    BY <1>14, <1>8, <1>15, LongerList, Sums
  <1>17. PICK v : Joined(v, u, e)
    BY DEF Joined
  <1>18. RouteList(v, 19)
    BY <1>16, <1>9, <1>17, LongerList, Sums
  <1>19. PICK w : Joined(w, v, f)
    BY DEF Joined
  <1>20. RouteList(w, 21)
    BY <1>18, <1>9, <1>19, LongerList, Sums
  <1>21. PICK x : Joined(x, w, g)
    BY DEF Joined
  <1>22. RouteList(x, 23)
    BY <1>20, <1>9, <1>21, LongerList, Sums
  <1>23. PICK y : Joined(y, x, h)
    BY DEF Joined
  <1>24. RouteList(y, 25)
    BY <1>22, <1>9, <1>23, LongerList, Sums
  <1>25. PICK z : Joined(z, y, i)
    BY DEF Joined
  <1>26. RouteList(z, 27)
    BY <1>24, <1>9, <1>25, LongerList, Sums
  <1>27. Joined(AccountRoutes, z, j)
    BY <1>1, <1>2, <1>3, <1>4, <1>5, <1>11, <1>13, <1>15, <1>17, <1>19, <1>21, <1>23, <1>25
       DEF AccountRoutes, Joined
  <1>28. RouteList(AccountRoutes, 30)
    BY <1>10, <1>26, <1>27, LongerList, Sums
  <1>. QED
    BY <1>28 DEF RouteList

(* What is known of the whole table. *)
Singles == 1..28 \ {1, 8, 27, 28}
Groups == {27, 28}

UseOK(entry, handler) == entry.use = handler /\ entry.handler = "" /\ entry.route = <<>>

GroupOK(entry, skip, guard) ==
    /\ entry.use = "" /\ entry.handler = "" /\ entry.method = "" /\ entry.pattern = <<>>
    /\ entry.skip = skip /\ entry.guard = guard
    /\ RoutesOK(entry.route) /\ entry.route # <<>>

BeforeOK(entries) ==
    /\ \E S : entries \in Seq(S)
    /\ Len(entries) = 8
    /\ UseOK(entries[1], "beforeHandler") /\ UseOK(entries[8], "account.Add")
    /\ \A i \in 2..7 : RouteOK(entries[i])

LEMMA UseIs == ASSUME NEW handler PROVE UseOK(Use(handler), handler)
  <1>1. PICK e : e = Use(handler)
    OBVIOUS
  <1>2. e.use = handler /\ e.handler = "" /\ e.route = <<>>
    BY <1>1 DEF Use, Blank
  <1>. QED
    BY <1>1, <1>2 DEF UseOK

LEMMA GroupIs ==
    ASSUME NEW skip, NEW guard, NEW routes, RoutesOK(routes), routes # <<>>
    PROVE  GroupOK(Group(skip, guard, routes), skip, guard)
  <1>1. PICK e : e = Group(skip, guard, routes)
    OBVIOUS
  <1>2. /\ e.use = "" /\ e.handler = "" /\ e.method = "" /\ e.pattern = <<>>
        /\ e.skip = skip /\ e.guard = guard /\ e.route = routes
    BY <1>1 DEF Group, Blank
  <1>3. GroupOK(e, skip, guard)
    BY <1>2 DEF GroupOK
  <1>. QED
    BY <1>1, <1>3

LEMMA BeforePatterns ==
    /\ \E N : HasNames(<<Literal("api"), Literal("event")>> \o Resource, N)
    /\ \A name, words : name # "file" =>
           \E N : HasNames(<<OneOf(name, words), Variable("file")>>, N)
    /\ \E N : HasNames(<<Literal("user"), Variable("file")>>, N)
  <1>1. ASSUME NEW a, a = Literal("api"), NEW b, b = Literal("event"), NEW s, s = <<a, b>>
        PROVE  HasNames(s, {})
    <2>1. s \in Seq({a, b}) /\ Len(s) = 2 /\ s[1] = a /\ s[2] = b
      BY <1>1
    <2>2. a.name = "" /\ b.name = ""
      BY <1>1 DEF Literal
    <2>3. \A i \in 1..2 : i = 1 \/ i = 2
      OBVIOUS
    <2>4. \A i \in 1..2 : s[i].name = ""
      BY <2>1, <2>2, <2>3
    <2>. QED
      BY <2>1, <2>4 DEF HasNames
  <1>2. HasNames(<<Literal("api"), Literal("event")>> \o Resource, {} \cup {"resource"})
    <2>1. HasNames(<<Literal("api"), Literal("event")>>, {})
      BY <1>1
    <2>. QED
      BY <2>1, PatternNames, LongerPattern, {} \cap {"resource"} = {}
  <1>3. ASSUME NEW name, NEW words, name # "file",
               NEW a, a = OneOf(name, words), NEW b, b = Variable("file"), NEW s, s = <<a, b>>
        PROVE  HasNames(s, {name, "file"})
    <2>1. s \in Seq({a, b}) /\ Len(s) = 2 /\ s[1] = a /\ s[2] = b
      BY <1>3
    <2>2. a.name = name /\ b.name = "file"
      BY <1>3 DEF OneOf, Variable
    <2>3. \A i \in 1..2 : i = 1 \/ i = 2
      OBVIOUS
    <2>4. \A i \in 1..2 : s[i].name \in {name, "file"}
      BY <2>1, <2>2, <2>3
    <2>5. \A i, j \in 1..2 : s[i].name = s[j].name => i = j
      BY <1>3, <2>1, <2>2, <2>3
    <2>. QED
      BY <2>1, <2>4, <2>5 DEF HasNames
  <1>4. ASSUME NEW a, a = Literal("user"), NEW b, b = Variable("file"), NEW s, s = <<a, b>>
        PROVE  HasNames(s, {"file"})
    <2>1. s \in Seq({a, b}) /\ Len(s) = 2 /\ s[1] = a /\ s[2] = b
      BY <1>4
    <2>2. a.name = "" /\ b.name = "file"
      BY <1>4 DEF Literal, Variable
    <2>3. \A i \in 1..2 : i = 1 \/ i = 2
      OBVIOUS
    <2>4. \A i \in 1..2 : s[i].name = "" \/ s[i].name \in {"file"}
      BY <2>1, <2>2, <2>3
    <2>5. \A i, j \in 1..2 : s[i].name = s[j].name => s[i].name = "" \/ i = j
      BY <2>1, <2>2, <2>3
    <2>. QED
      BY <2>1, <2>4, <2>5 DEF HasNames
  <1>. QED
    BY <1>2, <1>3, <1>4

LEMMA BeforeIs == BeforeOK(Before)
  <1>1. PICK a, b, c, d, e, f, g, h :
            /\ a = Use("beforeHandler")
            /\ b = Get(<<Literal("api"), Literal("event")>> \o Resource, "api.Event")
            /\ c = Get(<<Literal("favicon.ico")>>, "static.Media")
            /\ d = Get(<<Literal("robots.txt")>>, "static.Robots")
            /\ e = Get(<<OneOf("", {"gfx", "fonts"}), Variable("file")>>, "static.Media")
            /\ f = Get(<<Literal("user"), Variable("file")>>, "static.User")
            /\ g = Get(<<OneOf("", {"svg", "js", "css"}), Variable("file")>>, "static.Handler")
            /\ h = Use("account.Add")
    OBVIOUS
  <1>2. UseOK(a, "beforeHandler") /\ UseOK(h, "account.Add")
    BY <1>1, UseIs
  <1>3. RouteOK(b) /\ RouteOK(c) /\ RouteOK(d)
    BY <1>1, MethodRoutes, HandlersNamed, BeforePatterns, FirstSegments
  <1>4. RouteOK(e) /\ RouteOK(f) /\ RouteOK(g)
    <2>1. "" # "file"
      OBVIOUS
    <2>. QED
      BY <1>1, <2>1, MethodRoutes, HandlersNamed, BeforePatterns
  <1>5. PICK s : s = <<a, b, c, d, e, f, g, h>>
    OBVIOUS
  <1>6. s \in Seq({a, b, c, d, e, f, g, h}) /\ Len(s) = 8
    BY <1>5
  <1>7. /\ s[1] = a /\ s[2] = b /\ s[3] = c /\ s[4] = d
        /\ s[5] = e /\ s[6] = f /\ s[7] = g /\ s[8] = h
    BY <1>5
  <1>8. \A i \in 2..7 : i \in {2, 3, 4, 5, 6, 7}
    OBVIOUS
  <1>9. \A i \in 2..7 : RouteOK(s[i])
    BY <1>3, <1>4, <1>7, <1>8
  <1>10. BeforeOK(s)
    BY <1>2, <1>6, <1>7, <1>9 DEF BeforeOK
  <1>11. s = Before
    BY <1>1, <1>5 DEF Before
  <1>. QED
    BY <1>10, <1>11

TableOK(table) ==
    /\ Len(table) = 28
    /\ UseOK(table[1], "beforeHandler") /\ UseOK(table[8], "account.Add")
    /\ \A i \in Singles : RouteOK(table[i])
    /\ GroupOK(table[27], "", "HasNone") /\ GroupOK(table[28], "NotAdmin", "")

(* Where the elements of a concatenation come from. *)
IsSeq(s, T, n) == s \in Seq(T) /\ Len(s) = n

LEMMA Concatenation ==
    ASSUME NEW T, NEW s, NEW t, NEW m \in Nat, NEW n \in Nat, NEW l,
           IsSeq(s, T, m), IsSeq(t, T, n), IsSum(l, m, n), NEW u, Joined(u, s, t)
    PROVE  /\ IsSeq(u, T, l)
           /\ \A i \in 1..m : u[i] = s[i]
           /\ \A i \in 1..n : u[m + i] = t[i]
  <1>1. s \in Seq(T) /\ t \in Seq(T) /\ Len(s) = m /\ Len(t) = n /\ u = s \o t
    BY DEF IsSeq, Joined
  <1>2. u \in Seq(T) /\ Len(u) = m + n
    <2>1. s \in Seq(T) /\ t \in Seq(T)
      BY <1>1
    <2>2. s \o t \in Seq(T) /\ Len(s \o t) = Len(s) + Len(t)
      BY <2>1
    <2>. QED
      BY <1>1, <2>2
  <1>3. \A i \in 1..m : u[i] = s[i]
    BY <1>1
  <1>4. \A i \in 1..n : u[m + i] = t[i]
    BY <1>1
  <1>. QED
    BY <1>2, <1>3, <1>4 DEF IsSum, IsSeq

LEMMA TableIs == TableOK(MustRoutes) /\ DOMAIN MustRoutes = 1..28
  <1>1. PICK p, q : p = PagesAndModals /\ q = PublicModes
    OBVIOUS
  <1>2. PICK c, d : c = Group("", "HasNone", AccountRoutes) /\ d = Group("NotAdmin", "", AdminRoutes)
    OBVIOUS
  <1>3. GroupOK(c, "", "HasNone") /\ GroupOK(d, "NotAdmin", "")
    <2>1. PICK x, y : x = AccountRoutes /\ y = AdminRoutes
      OBVIOUS
    <2>2. RoutesOK(x) /\ Len(x) = 30 /\ RoutesOK(y) /\ Len(y) = 11
      BY <2>1, AccountRoutesOK, AdminRoutesOK
    <2>3. x # <<>> /\ y # <<>>
      <3>1. ASSUME NEW z, z = <<>>
            PROVE  Len(z) # 30 /\ Len(z) # 11
        BY <3>1
      <3>. QED
        BY <2>2, <3>1
    <2>4. c = Group("", "HasNone", x) /\ d = Group("NotAdmin", "", y)
      BY <1>2, <2>1
    <2>. QED
      BY <2>2, <2>3, <2>4, GroupIs
  <1>4. PICK b : b = Before
    OBVIOUS
  <1>5. PICK T : IsSeq(b, T, 8) /\ IsSeq(p, T, 14) /\ IsSeq(q, T, 4) /\ c \in T /\ d \in T
    <2>1. PICK B : b \in Seq(B)
      BY <1>4, BeforeIs DEF BeforeOK
    <2>2. PICK P : p \in Seq(P)
      BY <1>1, PagesAndModalsOK DEF RoutesOK
    <2>3. PICK Q : q \in Seq(Q)
      BY <1>1, PublicModesOK DEF RoutesOK
    <2>4. PICK T : T = ((B \cup P) \cup Q) \cup {c, d}
      OBVIOUS
    <2>5. b \in Seq(T)
      BY <2>1, <2>4
    <2>6. p \in Seq(T)
      BY <2>2, <2>4
    <2>7. q \in Seq(T)
      BY <2>3, <2>4
    <2>8. Len(b) = 8 /\ Len(p) = 14 /\ Len(q) = 4
      BY <1>1, <1>4, BeforeIs, PagesAndModalsOK, PublicModesOK DEF BeforeOK
    <2>. QED
      BY <2>4, <2>5, <2>6, <2>7, <2>8 DEF IsSeq
  <1>6. PICK r : r = <<c, d>>
    OBVIOUS
  <1>7. IsSeq(r, T, 2) /\ r[1] = c /\ r[2] = d
    BY <1>5, <1>6 DEF IsSeq
  <1>8. PICK s : Joined(s, b, p)
    BY DEF Joined
  <1>9. PICK t : Joined(t, s, q)
    BY DEF Joined
  <1>10. PICK u : Joined(u, t, r)
    BY DEF Joined
  <1>11. IsSum(22, 8, 14) /\ IsSum(26, 22, 4) /\ IsSum(28, 26, 2)
    BY DEF IsSum
  <1>12. /\ IsSeq(s, T, 22)
         /\ \A i \in 1..8 : s[i] = b[i]
         /\ \A i \in 1..14 : s[8 + i] = p[i]
    BY <1>5, <1>8, <1>11, Concatenation
  <1>13. /\ IsSeq(t, T, 26)
         /\ \A i \in 1..22 : t[i] = s[i]
         /\ \A i \in 1..4 : t[22 + i] = q[i]
    BY <1>5, <1>9, <1>11, <1>12, Concatenation
  <1>14. /\ IsSeq(u, T, 28)
         /\ \A i \in 1..26 : u[i] = t[i]
         /\ \A i \in 1..2 : u[26 + i] = r[i]
    BY <1>7, <1>10, <1>11, <1>13, Concatenation
  <1>15. u = MustRoutes
    <2>1. u = ((b \o p) \o q) \o r
      BY <1>8, <1>9, <1>10 DEF Joined
    <2>. QED
      BY <1>1, <1>2, <1>4, <1>6, <2>1 DEF MustRoutes
  <1>16. UseOK(u[1], "beforeHandler") /\ UseOK(u[8], "account.Add")
    <2>1. u[1] = b[1] /\ u[8] = b[8]
      BY <1>12, <1>13, <1>14
    <2>. QED
      BY <1>4, <2>1, BeforeIs DEF BeforeOK
  <1>17. ASSUME NEW i \in Singles
         PROVE  RouteOK(u[i])
    <2>1. i \in 2..7 \/ i \in 9..22 \/ i \in 23..26
      BY DEF Singles
    <2>2. CASE i \in 2..7
      <3>1. u[i] = b[i]
        BY <1>12, <1>13, <1>14, <2>2
      <3>. QED
        BY <1>4, <2>2, <3>1, BeforeIs DEF BeforeOK
    <2>3. CASE i \in 9..22
      <3>1. PICK k \in 1..14 : i = 8 + k
        <4>1. i - 8 \in 1..14 /\ i = 8 + (i - 8)
          BY <2>3
        <4>. QED
          BY <4>1
      <3>2. u[i] = p[k]
        BY <1>12, <1>13, <1>14, <3>1
      <3>. QED
        BY <1>1, <3>2, PagesAndModalsOK DEF RoutesOK
    <2>4. CASE i \in 23..26
      <3>1. PICK k \in 1..4 : i = 22 + k
        <4>1. i - 22 \in 1..4 /\ i = 22 + (i - 22)
          BY <2>4
        <4>. QED
          BY <4>1
      <3>2. u[i] = q[k]
        BY <1>13, <1>14, <3>1
      <3>. QED
        BY <1>1, <3>2, PublicModesOK DEF RoutesOK
    <2>. QED
      BY <2>1, <2>2, <2>3, <2>4
  <1>18. u[27] = c /\ u[28] = d
    <2>1. u[26 + 1] = c /\ u[26 + 2] = d
      BY <1>7, <1>14
    <2>. QED
      BY <2>1
  <1>19. Len(u) = 28 /\ DOMAIN u = 1..28
    BY <1>14 DEF IsSeq
  <1>20. TableOK(u)
    BY <1>3, <1>16, <1>17, <1>18, <1>19 DEF TableOK
  <1>. QED
    BY <1>15, <1>19, <1>20

-----------------------------------------------------------------------------
(* Where the routes are. *)

LEMMA SingleAt ==
    ASSUME NEW i \in 1..29, NEW p, p = <<i>>
    PROVE  Len(p) = 1 /\ p[1] = i /\ Last(p) = i /\ Within(p) = MustRoutes
  <1>1. Len(p) = 1 /\ p[1] = i
    OBVIOUS
  <1>. QED
    BY <1>1 DEF Last, Within

LEMMA GroupAt ==
    ASSUME NEW i \in Groups, NEW j \in Nat, NEW p, p = <<i, j>>
    PROVE  /\ Len(p) = 2 /\ p[1] = i /\ p[2] = j /\ Last(p) = j
           /\ Within(p) = MustRoutes[i].route
  <1>1. Len(p) = 2 /\ p[1] = i /\ p[2] = j
    OBVIOUS
  <1>. QED
    BY <1>1 DEF Last, Within

LEMMA GroupRoutes ==
    ASSUME NEW i \in Groups
    PROVE  /\ RoutesOK(MustRoutes[i].route) /\ MustRoutes[i].pattern = <<>>
           /\ MustRoutes[i].handler = "" /\ MustRoutes[i].route # <<>>
           /\ MustRoutes[i].use = "" /\ MustRoutes[i].method = ""
           /\ DOMAIN MustRoutes[i].route = 1..Len(MustRoutes[i].route)
           /\ Len(MustRoutes[i].route) \in Nat
  <1>1. /\ RoutesOK(MustRoutes[i].route) /\ MustRoutes[i].pattern = <<>>
        /\ MustRoutes[i].handler = "" /\ MustRoutes[i].route # <<>>
        /\ MustRoutes[i].use = "" /\ MustRoutes[i].method = ""
    BY TableIs DEF TableOK, GroupOK, Groups
  <1>2. PICK r : r = MustRoutes[i].route
    OBVIOUS
  <1>3. PICK S : r \in Seq(S)
    BY <1>1, <1>2 DEF RoutesOK
  <1>4. DOMAIN r = 1..Len(r) /\ Len(r) \in Nat
    BY <1>3
  <1>. QED
    BY <1>1, <1>2, <1>4

LEMMA OtherRoutes ==
    ASSUME NEW i \in 1..28 \ Groups
    PROVE  MustRoutes[i].route = <<>>
  <1>1. i \in Singles \/ i = 1 \/ i = 8
    BY DEF Singles, Groups
  <1>. QED
    BY <1>1, TableIs DEF TableOK, RouteOK, UseOK

LEMMA RoutesWhere ==
    ASSUME NEW p \in Routes
    PROVE  \/ \E i \in Singles : p = <<i>>
           \/ \E i \in Groups : \E j \in 1..Len(MustRoutes[i].route) : p = <<i, j>>
  <1>1. CASE \E i \in DOMAIN MustRoutes : p = <<i>>
    <2>1. PICK i \in 1..28 : p = <<i>>
      BY <1>1, TableIs
    <2>2. RouteAt(p) = MustRoutes[i]
      BY <2>1, SingleAt DEF RouteAt
    <2>3. MustRoutes[i].handler # ""
      BY <2>2 DEF Routes, RouteAt
    <2>4. i # 1 /\ i # 8 /\ i # 27 /\ i # 28
      BY <2>3, TableIs DEF TableOK, UseOK, GroupOK
    <2>. QED
      BY <2>1, <2>4 DEF Singles
  <1>2. CASE \E i \in DOMAIN MustRoutes : \E j \in DOMAIN MustRoutes[i].route : p = <<i, j>>
    <2>1. PICK i \in 1..28 : \E k \in DOMAIN MustRoutes[i].route : p = <<i, k>>
      BY <1>2, TableIs
    <2>2. PICK j \in DOMAIN MustRoutes[i].route : p = <<i, j>>
      BY <2>1
    <2>3. i \in Groups
      <3>1. DOMAIN <<>> = {}
        OBVIOUS
      <3>. QED
        BY <2>2, <3>1, OtherRoutes
    <2>. QED
      BY <2>2, <2>3, GroupRoutes
  <1>. QED
    BY <1>1, <1>2 DEF Routes

LEMMA GroupNoRoute == ASSUME NEW i \in Groups PROVE <<i>> \notin Routes
  <1>1. ASSUME NEW k \in Singles, NEW a, a = <<i>>, a = <<k>>
        PROVE  FALSE
    <2>1. a[1] = i /\ a[1] = k
      BY <1>1
    <2>. QED
      BY <2>1 DEF Singles, Groups
  <1>2. ASSUME NEW k, NEW l, NEW a, a = <<i>>
        PROVE  a # <<k, l>>
    BY <1>2
  <1>. QED
    BY <1>1, <1>2, RoutesWhere

(* What is at a place where there is a route. *)
LEMMA RouteThere ==
    /\ \A i \in Singles : /\ <<i>> \in Routes
                          /\ RouteAt(<<i>>) = MustRoutes[i] /\ RouteOK(MustRoutes[i])
                          /\ WholePattern(<<i>>) = MustRoutes[i].pattern
    /\ \A i \in Groups : \A j \in 1..Len(MustRoutes[i].route) :
           /\ <<i, j>> \in Routes
           /\ RouteAt(<<i, j>>) = MustRoutes[i].route[j] /\ RouteOK(MustRoutes[i].route[j])
           /\ WholePattern(<<i, j>>) = MustRoutes[i].route[j].pattern
  <1>0. ASSUME NEW x, RouteOK(x)
        PROVE  <<>> \o x.pattern = x.pattern
    <2>1. PICK y : y = x.pattern
      OBVIOUS
    <2>2. PICK S : y \in Seq(S)
      BY <1>0, <2>1 DEF RouteOK, HasNames
    <2>3. <<>> \o y = y
      BY <2>2
    <2>. QED
      BY <2>1, <2>3
  <1>1. ASSUME NEW i \in Singles, NEW p, p = <<i>>
        PROVE  /\ p \in Routes
               /\ RouteAt(p) = MustRoutes[i] /\ RouteOK(MustRoutes[i])
               /\ WholePattern(p) = MustRoutes[i].pattern
    <2>1. i \in 1..28 /\ i \in 1..29
      BY DEF Singles
    <2>2. Len(p) = 1 /\ RouteAt(p) = MustRoutes[i]
      BY <1>1, <2>1, SingleAt DEF RouteAt
    <2>3. RouteOK(MustRoutes[i])
      BY TableIs DEF TableOK
    <2>4. MustRoutes[i].handler # ""
      BY <2>3 DEF RouteOK, Named
    <2>5. p \in {<<k>> : k \in DOMAIN MustRoutes}
      BY <1>1, <2>1, TableIs
    <2>6. p \in Routes
      BY <2>2, <2>4, <2>5 DEF Routes, RouteAt
    <2>7. WholePattern(p) = <<>> \o MustRoutes[i].pattern
      BY <2>2 DEF WholePattern
    <2>. QED
      BY <1>0, <2>2, <2>3, <2>6, <2>7
  <1>2. ASSUME NEW i \in Groups, NEW j \in 1..Len(MustRoutes[i].route), NEW p, p = <<i, j>>
        PROVE  /\ p \in Routes
               /\ RouteAt(p) = MustRoutes[i].route[j] /\ RouteOK(MustRoutes[i].route[j])
               /\ WholePattern(p) = MustRoutes[i].route[j].pattern
    <2>1. i \in 1..28 /\ j \in Nat
      BY DEF Groups
    <2>2. Len(p) = 2 /\ p[1] = i /\ RouteAt(p) = MustRoutes[i].route[j]
      BY <1>2, <2>1, GroupAt DEF RouteAt
    <2>3. RouteOK(MustRoutes[i].route[j])
      BY GroupRoutes DEF RoutesOK
    <2>4. MustRoutes[i].route[j].handler # ""
      BY <2>3 DEF RouteOK, Named
    <2>5. p \in UNION {{<<k, l>> : l \in DOMAIN MustRoutes[k].route} : k \in DOMAIN MustRoutes}
      <3>1. j \in DOMAIN MustRoutes[i].route
        BY GroupRoutes
      <3>2. p \in {<<i, l>> : l \in DOMAIN MustRoutes[i].route}
        BY <1>2, <3>1
      <3>3. i \in DOMAIN MustRoutes
        BY <2>1, TableIs
      <3>. QED
        BY <3>2, <3>3
    <2>6. p \in Routes
      BY <2>2, <2>4, <2>5 DEF Routes, RouteAt
    <2>7. WholePattern(p) = <<>> \o MustRoutes[i].route[j].pattern
      BY <2>2, GroupRoutes DEF WholePattern
    <2>. QED
      BY <1>0, <2>2, <2>3, <2>6, <2>7
  <1>. QED
    BY <1>1, <1>2

-----------------------------------------------------------------------------
(* What describes a request. *)

Describes(entry, q) ==
    /\ entry.method = q.method
    /\ Len(entry.pattern) = Len(q.path)
    /\ \A i \in DOMAIN q.path : Accepts(entry.pattern[i], q.path[i])

LEMMA DescribingIs ==
    ASSUME NEW p
    PROVE  p \in Describing <=>
               /\ p \in Routes
               /\ Describes(RouteAt(p), request)
               /\ MustRoutes[p[1]].skip = "NotAdmin" => request.cookie = "admin"
  <1>1. ASSUME p \in Routes
        PROVE  WholePattern(p) = RouteAt(p).pattern
    BY <1>1, RoutesWhere, RouteThere
  <1>. QED
    BY <1>1 DEF Describing, Describes

(* The path of a request. *)
LEMMA PathIs ==
    ASSUME NEW q \in Requests, NEW path, path = q.path
    PROVE  /\ path \in Seq(STRING) /\ Len(path) \in Nat /\ Len(path) # 0
           /\ DOMAIN path = 1..Len(path) /\ SubSeq(path, 1, Len(path)) = path
  <1>1. path \in Seq(STRING) /\ path # <<>>
    BY RequestsAssumption
  <1>2. Len(path) \in Nat /\ DOMAIN path = 1..Len(path)
    BY <1>1
  <1>3. Len(path) # 0
    BY <1>1
  <1>4. SubSeq(path, 1, Len(path)) = path
    BY <1>1
  <1>. QED
    BY <1>1, <1>2, <1>3, <1>4

(* An entry fits a whole path when it describes the request. *)
LEMMA FitsWhole ==
    ASSUME NEW q \in Requests, NEW entry, RouteOK(entry)
    PROVE  /\ ~Says(entry.skip, user) /\ ~Says(entry.guard, user)
           /\ entry.method \in {"", q.method} /\ Matches(entry, q.path)
                  /\ Len(entry.pattern) = Len(q.path)
              <=> Describes(entry, q)
  <1>1. entry.skip = "" /\ entry.guard = "" /\ entry.method # ""
    BY DEF RouteOK, Named
  <1>2. ~Says(entry.skip, user) /\ ~Says(entry.guard, user)
    BY <1>1 DEF Says
  <1>3. PICK s, path : s = entry.pattern /\ path = q.path
    OBVIOUS
  <1>4. PICK S : s \in Seq(S)
    BY <1>3 DEF RouteOK, HasNames
  <1>5. DOMAIN s = 1..Len(s)
    BY <1>4
  <1>6. Len(path) \in Nat /\ DOMAIN path = 1..Len(path) /\ SubSeq(path, 1, Len(path)) = path
    BY <1>3, PathIs
  <1>7. ASSUME Len(s) = Len(path)
        PROVE  Matches(entry, path) <=> \A i \in DOMAIN path : Accepts(s[i], path[i])
    <2>1. Matches(entry, path) <=> PathsMatch(s, path)
      <3>1. Len(entry.pattern) = Len(path) /\ Len(path) <= Len(path)
        BY <1>3, <1>6, <1>7
      <3>2. SubSeq(path, 1, Len(entry.pattern)) = path
        BY <1>6, <3>1
      <3>3. Len(entry.pattern) <= Len(path)
        BY <3>1
      <3>4. PathsMatch(entry.pattern, SubSeq(path, 1, Len(entry.pattern))) <=> PathsMatch(s, path)
        BY <1>3, <3>2
      <3>. QED
        BY <3>3, <3>4 DEF Matches
    <2>2. DOMAIN s = DOMAIN path
      BY <1>5, <1>6, <1>7
    <2>. QED
      BY <1>7, <2>1, <2>2 DEF PathsMatch, Accepts
  <1>8. entry.method \in {"", q.method} <=> entry.method = q.method
    BY <1>1
  <1>. QED
    BY <1>2, <1>3, <1>7, <1>8 DEF Describes

(* A group's own pattern is empty. *)
LEMMA FitsGroup ==
    ASSUME NEW q \in Requests, NEW entry, entry.pattern = <<>>
    PROVE  Matches(entry, q.path) /\ Len(entry.pattern) < Len(q.path)
  <1>1. PICK path : path = q.path
    OBVIOUS
  <1>2. path \in Seq(STRING) /\ Len(path) \in Nat /\ Len(path) # 0
    BY <1>1, PathIs
  <1>3. Len(entry.pattern) = 0 /\ DOMAIN entry.pattern = {}
    <2>1. ASSUME NEW s, s = <<>>
          PROVE  Len(s) = 0 /\ DOMAIN s = {}
      BY <2>1
    <2>. QED
      BY <2>1
  <1>4. Len(SubSeq(path, 1, 0)) = 0
    BY <1>2
  <1>5. PathsMatch(entry.pattern, SubSeq(path, 1, Len(entry.pattern)))
    BY <1>3, <1>4 DEF PathsMatch
  <1>. QED
    BY <1>1, <1>2, <1>3, <1>5 DEF Matches

-----------------------------------------------------------------------------
(* Where the search stands. *)

Standing ==
    \/ \E i \in 1..29 : at = <<i>>
    \/ \E i \in Groups : \E j \in 1..(Len(MustRoutes[i].route) + 1) : at = <<i, j>>

Passed(p, a) == p[1] < a[1] \/ (p[1] = a[1] /\ Len(a) = 2 /\ p[2] < a[2])

KnownUser == IF request.cookie \in {"member", "admin"} THEN request.cookie ELSE "none"

(* While the search goes on it has passed no route that describes the      *)
(* request, the account is known once account.Add has been passed, and     *)
(* what the guard of a group said is remembered inside the group only.     *)
Walk ==
    Searching =>
        /\ request \in Requests
        /\ Standing
        /\ at[1] > 8 => user = KnownUser
        /\ unauthorized <=> Len(at) = 2 /\ at[1] = 27 /\ user = "none"
        /\ Len(at) = 2 /\ at[1] = 28 => user = "admin"
        /\ \A p \in Describing : ~Passed(p, at)

LEMMA AtSingle ==
    ASSUME request \in Requests, NEW i \in 1..29, at = <<i>>
    PROVE  /\ Len(at) = 1 /\ at[1] = i /\ Last(at) = i /\ Within(at) = MustRoutes
           /\ Len(Within(at)) = 28
           /\ Current = MustRoutes[i] /\ Remaining = request.path
  <1>1. Len(at) = 1 /\ at[1] = i /\ Last(at) = i /\ Within(at) = MustRoutes
    BY SingleAt
  <1>. QED
    BY <1>1, TableIs DEF Current, Remaining, TableOK

LEMMA AtGroup ==
    ASSUME request \in Requests, NEW i \in Groups, NEW j \in Nat, at = <<i, j>>
    PROVE  /\ Len(at) = 2 /\ at[1] = i /\ at[2] = j /\ Last(at) = j
           /\ Within(at) = MustRoutes[i].route
           /\ Current = MustRoutes[i].route[j] /\ Remaining = request.path
  <1>1. /\ Len(at) = 2 /\ at[1] = i /\ at[2] = j /\ Last(at) = j
        /\ Within(at) = MustRoutes[i].route
    BY GroupAt
  <1>2. Len(MustRoutes[i].pattern) + 1 = 1
    <2>1. ASSUME NEW s, s = <<>>
          PROVE  Len(s) + 1 = 1
      BY <2>1
    <2>. QED
      BY <2>1, GroupRoutes
  <1>3. Remaining = SubSeq(request.path, 1, Len(request.path))
    <2>1. PICK n : n = Len(MustRoutes[i].pattern) + 1
      OBVIOUS
    <2>2. Len(at) # 1
      BY <1>1
    <2>3. Len(MustRoutes[at[1]].pattern) + 1 = n
      BY <1>1, <2>1
    <2>4. Remaining = SubSeq(request.path, n, Len(request.path))
      BY <2>2, <2>3, Zenon DEF Remaining
    <2>. QED
      BY <1>2, <2>1, <2>4
  <1>. QED
    BY <1>1, <1>3, PathIs DEF Current

LEMMA AdvanceSingle ==
    ASSUME NEW i \in 1..29, at = <<i>>, Advance
    PROVE  at' = <<i + 1>>
  <1>1. Len(at) = 1
    OBVIOUS
  <1>. QED
    BY <1>1 DEF Advance

LEMMA AdvanceGroup ==
    ASSUME NEW i \in Groups, NEW j \in Nat, at = <<i, j>>, Advance
    PROVE  at' = <<i, j + 1>>
  <1>1. Len(at) = 2
    OBVIOUS
  <1>. QED
    BY <1>1 DEF Advance

(* How a route lies to where the search stands. *)
LEMMA DescribingWhere ==
    ASSUME NEW p \in Describing
    PROVE  \/ p[1] \in Singles /\ Len(p) = 1 /\ p = <<p[1]>>
           \/ /\ p[1] \in Groups /\ p[2] \in 1..Len(MustRoutes[p[1]].route)
              /\ Len(p) = 2 /\ p = <<p[1], p[2]>>
  <1>1. p \in Routes
    BY DescribingIs
  <1>2. CASE \E i \in Singles : p = <<i>>
    BY <1>2
  <1>3. CASE \E i \in Groups : \E j \in 1..Len(MustRoutes[i].route) : p = <<i, j>>
    <2>1. PICK i \in Groups : \E j \in 1..Len(MustRoutes[i].route) : p = <<i, j>>
      BY <1>3
    <2>2. PICK j \in 1..Len(MustRoutes[i].route) : p = <<i, j>>
      BY <2>1
    <2>3. p[1] = i /\ p[2] = j /\ Len(p) = 2
      BY <2>2
    <2>. QED
      BY <2>2, <2>3
  <1>. QED
    BY <1>1, <1>2, <1>3, RoutesWhere

LEMMA DescribingNumber ==
    ASSUME NEW p \in Describing
    PROVE  p[1] \in Int
  <1>1. \A i \in Singles \cup Groups : i \in Int
    BY DEF Singles, Groups
  <1>. QED
    BY <1>1, DescribingWhere

LEMMA PastSingle ==
    ASSUME NEW i \in 1..28, at = <<i>>, NEW a, a = <<i + 1>>,
           \A p \in Describing : ~Passed(p, at), \A p \in Describing : p[1] # i
    PROVE  \A p \in Describing : ~Passed(p, a)
  <1>1. a[1] = i + 1 /\ Len(a) = 1 /\ at[1] = i
    OBVIOUS
  <1>2. ASSUME NEW p \in Describing
        PROVE  p[1] \in Int /\ ~(p[1] < i) /\ p[1] # i
    <2>1. p[1] \in Int
      BY DescribingNumber
    <2>. QED
      BY <1>1, <2>1 DEF Passed
  <1>3. \A p \in Describing : ~(p[1] < i + 1)
    BY <1>2
  <1>. QED
    BY <1>1, <1>3 DEF Passed

LEMMA PastGroup ==
    ASSUME NEW i \in Groups, NEW j \in Nat, at = <<i, j>>, NEW a, a = <<i, j + 1>>,
           \A p \in Describing : ~Passed(p, at), <<i, j>> \notin Describing
    PROVE  \A p \in Describing : ~Passed(p, a)
  <1>1. a[1] = i /\ a[2] = j + 1 /\ Len(a) = 2 /\ at[1] = i /\ at[2] = j /\ Len(at) = 2
    OBVIOUS
  <1>2. ASSUME NEW p \in Describing, p[1] = i
        PROVE  ~(p[2] < j + 1)
    <2>1. p[2] \in Int /\ p = <<i, p[2]>>
      BY <1>2, DescribingWhere DEF Singles, Groups
    <2>2. p[2] # j
      BY <2>1
    <2>3. ~(p[2] < j)
      BY <1>1, <1>2 DEF Passed
    <2>. QED
      BY <2>1, <2>2, <2>3
  <1>3. \A p \in Describing : ~(p[1] < i)
    BY <1>1 DEF Passed
  <1>. QED
    BY <1>1, <1>2, <1>3 DEF Passed

LEMMA PastEntrance ==
    ASSUME NEW i \in Groups, at = <<i>>, NEW a, a = <<i, 1>>,
           \A p \in Describing : ~Passed(p, at)
    PROVE  \A p \in Describing : ~Passed(p, a)
  <1>1. a[1] = i /\ a[2] = 1 /\ Len(a) = 2 /\ at[1] = i
    OBVIOUS
  <1>2. ASSUME NEW p \in Describing, p[1] = i
        PROVE  ~(p[2] < 1)
    <2>1. PICK n : n = Len(MustRoutes[i].route)
      OBVIOUS
    <2>2. p[2] \in 1..n /\ n \in Nat
      BY <1>2, <2>1, DescribingWhere, GroupRoutes DEF Singles, Groups
    <2>. QED
      BY <2>2
  <1>3. \A p \in Describing : ~(p[1] < i)
    BY <1>1 DEF Passed
  <1>. QED
    BY <1>1, <1>2, <1>3 DEF Passed

LEMMA PastExit ==
    ASSUME NEW i \in Groups, NEW j \in Nat, at = <<i, j>>, Len(MustRoutes[i].route) < j,
           NEW a, a = <<i + 1>>, \A p \in Describing : ~Passed(p, at)
    PROVE  \A p \in Describing : ~Passed(p, a)
  <1>1. a[1] = i + 1 /\ Len(a) = 1 /\ at[1] = i /\ at[2] = j /\ Len(at) = 2
    OBVIOUS
  <1>2. ASSUME NEW p \in Describing
        PROVE  ~(p[1] < i + 1)
    <2>1. p[1] \in Int /\ i \in Int
      BY DescribingNumber DEF Groups
    <2>2. ~(p[1] < i)
      BY <1>1 DEF Passed
    <2>3. ASSUME p[1] = i
          PROVE  FALSE
      <3>1. PICK n : n = Len(MustRoutes[i].route)
        OBVIOUS
      <3>2. p[2] \in 1..n /\ n \in Nat
        BY <2>3, <3>1, DescribingWhere, GroupRoutes DEF Singles, Groups
      <3>3. p[2] < j
        BY <3>1, <3>2
      <3>. QED
        BY <1>1, <2>3, <3>3 DEF Passed
    <2>. QED
      BY <2>1, <2>2, <2>3
  <1>. QED
    BY <1>1, <1>2 DEF Passed

(* The route that describes the request and has not been passed comes      *)
(* first.                                                                  *)
LEMMA FirstIs ==
    ASSUME at \in Describing, \A p \in Describing : ~Passed(p, at)
    PROVE  First(Describing) = at
  <1>1. ASSUME NEW q \in Describing, q # at
        PROVE  Sooner(at, q) /\ ~Sooner(q, at)
    <2>1. CASE at[1] \in Singles
      <3>1. at = <<at[1]>> /\ Len(at) = 1
        BY <2>1, DescribingWhere DEF Singles, Groups
      <3>2. q[1] # at[1]
        <4>1. ASSUME q[1] = at[1]
              PROVE  q = <<at[1]>>
          BY <2>1, <4>1, DescribingWhere DEF Singles, Groups
        <4>. QED
          BY <1>1, <3>1, <4>1
      <3>3. q[1] \in Int /\ at[1] \in Int /\ ~(q[1] < at[1])
        BY DescribingWhere DEF Passed, Singles, Groups
      <3>4. at[1] < q[1]
        BY <3>2, <3>3
      <3>. QED
        BY <3>3, <3>4 DEF Sooner
    <2>2. CASE at[1] \in Groups
      <3>1. at = <<at[1], at[2]>> /\ Len(at) = 2 /\ at[2] \in Int /\ at[1] \in Int
        BY <2>2, DescribingWhere DEF Singles, Groups
      <3>2. q[1] \in Int /\ ~(q[1] < at[1])
        BY DescribingWhere DEF Passed, Singles, Groups
      <3>3. CASE q[1] = at[1]
        <4>1. q = <<at[1], q[2]>> /\ q[2] \in Int /\ Len(q) = 2
          BY <2>2, <3>3, DescribingWhere DEF Singles, Groups
        <4>2. q[2] # at[2]
          BY <1>1, <3>1, <4>1
        <4>3. ~(q[2] < at[2])
          BY <3>1, <3>3 DEF Passed
        <4>4. at[2] < q[2]
          BY <3>1, <4>1, <4>2, <4>3
        <4>. QED
          BY <3>1, <3>3, <4>3, <4>4 DEF Sooner
      <3>4. CASE q[1] # at[1]
        <4>1. at[1] < q[1]
          BY <3>1, <3>2, <3>4
        <4>. QED
          BY <3>2, <3>4, <4>1 DEF Sooner
      <3>. QED
        BY <3>3, <3>4
    <2>. QED
      BY <2>1, <2>2, DescribingWhere
  <1>2. \A q \in Describing \ {at} : Sooner(at, q)
    BY <1>1
  <1>3. ASSUME NEW p \in Describing, \A q \in Describing \ {p} : Sooner(p, q)
        PROVE  p = at
    BY <1>1, <1>3
  <1>. QED
    BY <1>2, <1>3 DEF First

(* Every variable of a route that describes the request has a value. *)
LEMMA ServedIs ==
    ASSUME NEW q \in Requests, NEW entry, RouteOK(entry), Len(entry.pattern) = Len(q.path)
    PROVE  /\ Served(entry, q.path).is = "served"
           /\ Served(entry, q.path).handler = entry.handler
           /\ \A i \in DOMAIN q.path : entry.pattern[i].name # "" =>
                  Served(entry, q.path).vars[entry.pattern[i].name] = q.path[i]
  <1>1. PICK s, path : s = entry.pattern /\ path = q.path
    OBVIOUS
  <1>2. PICK N : HasNames(s, N)
    BY <1>1 DEF RouteOK
  <1>3. DOMAIN s = DOMAIN path /\ DOMAIN s = 1..Len(s)
    <2>1. PICK S : s \in Seq(S)
      BY <1>2 DEF HasNames
    <2>2. DOMAIN s = 1..Len(s)
      BY <2>1
    <2>. QED
      BY <1>1, <2>2, PathIs
  <1>4. ASSUME NEW i \in DOMAIN path, NEW name, name = s[i].name, name # ""
        PROVE  VarsOf(s, path)[name] = path[i]
    <2>1. name \in {s[k].name : k \in DOMAIN s} \ {""}
      BY <1>3, <1>4
    <2>2. PICK c : c = CHOOSE k \in DOMAIN s : s[k].name = name
      OBVIOUS
    <2>3. c \in DOMAIN s /\ s[c].name = name
      BY <1>3, <1>4, <2>2
    <2>4. c = i
      BY <1>2, <1>3, <1>4, <2>3 DEF HasNames
    <2>5. VarsOf(s, path)[name] = path[c]
      BY <2>1, <2>2 DEF VarsOf
    <2>. QED
      BY <2>4, <2>5
  <1>5. PICK a : a = Served(entry, q.path)
    OBVIOUS
  <1>6. a.is = "served" /\ a.handler = entry.handler /\ a.vars = VarsOf(s, path)
    BY <1>1, <1>5 DEF Served
  <1>7. \A i \in DOMAIN path : s[i].name # "" => a.vars[s[i].name] = path[i]
    BY <1>4, <1>6
  <1>8. /\ a.is = "served" /\ a.handler = entry.handler
        /\ \A i \in DOMAIN q.path : entry.pattern[i].name # "" =>
               a.vars[entry.pattern[i].name] = q.path[i]
    BY <1>1, <1>6, <1>7
  <1>. QED
    BY <1>5, <1>8

AtRoute == at \in Routes /\ Current = RouteAt(at) /\ RouteOK(Current)

LEMMA LookingAt ==
    ASSUME Walk, Looking
    PROVE  \/ at = <<1>> /\ Current.use = "beforeHandler"
           \/ at = <<8>> /\ Current.use = "account.Add"
           \/ /\ AtRoute /\ Current.use = "" /\ Current.route = <<>>
              /\ \/ \E i \in Singles : at = <<i>>
                 \/ \E i \in Groups : \E j \in 1..Len(MustRoutes[i].route) : at = <<i, j>>
           \/ \E i \in Groups : at = <<i>> /\ Current = MustRoutes[i] /\ Current.use = ""
  <1>1. request \in Requests /\ Standing
    BY DEF Looking, Walk
  <1>2. CASE \E i \in 1..29 : at = <<i>>
    <2>1. PICK i \in 1..29 : at = <<i>>
      BY <1>2
    <2>2. Last(at) = i /\ Len(Within(at)) = 28 /\ Current = MustRoutes[i]
      BY <1>1, <2>1, AtSingle
    <2>3. i \in 1..28
      BY <2>2 DEF Looking
    <2>4. CASE i = 1
      BY <2>1, <2>2, <2>4, TableIs DEF TableOK, UseOK
    <2>5. CASE i = 8
      BY <2>1, <2>2, <2>5, TableIs DEF TableOK, UseOK
    <2>6. CASE i \in Groups
      BY <2>1, <2>2, <2>6, GroupRoutes
    <2>7. CASE i \in Singles
      <3>1. at \in Routes /\ RouteAt(at) = MustRoutes[i] /\ RouteOK(MustRoutes[i])
        BY <2>1, <2>7, RouteThere
      <3>2. Current.use = "" /\ Current.route = <<>>
        BY <2>2, <3>1 DEF RouteOK
      <3>. QED
        BY <2>1, <2>2, <2>7, <3>1, <3>2 DEF AtRoute
    <2>8. i = 1 \/ i = 8 \/ i \in Groups \/ i \in Singles
      BY <2>3 DEF Groups, Singles
    <2>. QED
      BY <2>4, <2>5, <2>6, <2>7, <2>8
  <1>3. CASE \E i \in Groups : \E j \in 1..(Len(MustRoutes[i].route) + 1) : at = <<i, j>>
    <2>1. PICK i \in Groups : \E j \in 1..(Len(MustRoutes[i].route) + 1) : at = <<i, j>>
      BY <1>3
    <2>2. PICK n : n = Len(MustRoutes[i].route)
      OBVIOUS
    <2>3. n \in Nat
      BY <2>2, GroupRoutes
    <2>4. PICK j \in 1..(n + 1) : at = <<i, j>>
      BY <2>1, <2>2
    <2>5. Last(at) = j /\ Within(at) = MustRoutes[i].route /\ Current = MustRoutes[i].route[j]
      BY <1>1, <2>3, <2>4, AtGroup
    <2>6. j \in 1..n
      BY <2>2, <2>3, <2>5 DEF Looking
    <2>7. /\ at \in Routes /\ RouteAt(at) = MustRoutes[i].route[j]
          /\ RouteOK(MustRoutes[i].route[j])
      BY <2>2, <2>4, <2>6, RouteThere
    <2>8. Current.use = "" /\ Current.route = <<>>
      BY <2>5, <2>7 DEF RouteOK
    <2>. QED
      BY <2>2, <2>4, <2>5, <2>6, <2>7, <2>8 DEF AtRoute
  <1>. QED
    BY <1>1, <1>2, <1>3 DEF Standing

LEMMA RequestKept ==
    ASSUME request' = request
    PROVE  Describing' = Describing /\ KnownUser' = KnownUser
  BY DEF Describing, KnownUser

LEMMA RemainingIs ==
    ASSUME Walk, Searching
    PROVE  Remaining = request.path
  <1>1. request \in Requests /\ Standing
    BY DEF Walk
  <1>2. CASE \E i \in 1..29 : at = <<i>>
    BY <1>1, <1>2, AtSingle
  <1>3. CASE \E i \in Groups : \E j \in 1..(Len(MustRoutes[i].route) + 1) : at = <<i, j>>
    <2>1. PICK i \in Groups : \E j \in 1..(Len(MustRoutes[i].route) + 1) : at = <<i, j>>
      BY <1>3
    <2>2. PICK n : n = Len(MustRoutes[i].route)
      OBVIOUS
    <2>3. n \in Nat
      BY <2>2, GroupRoutes
    <2>4. PICK j \in 1..(n + 1) : at = <<i, j>>
      BY <2>1, <2>2
    <2>5. j \in Nat
      BY <2>3
    <2>. QED
      BY <1>1, <2>4, <2>5, AtGroup
  <1>. QED
    BY <1>1, <1>2, <1>3 DEF Standing

(* A route fits when it describes the request. *)
LEMMA RouteFits ==
    ASSUME Walk, Searching, AtRoute
    PROVE  /\ Fits /\ Len(Current.pattern) = Len(Remaining) <=> Describes(Current, request)
           /\ ~Says(Current.guard, user)
  <1>1. request \in Requests /\ Remaining = request.path
    BY RemainingIs DEF Walk
  <1>. QED
    BY <1>1, FitsWhole DEF Fits, AtRoute

(* A route that is passed over does not describe the request. *)
LEMMA PassedOver ==
    ASSUME Walk, Searching, AtRoute, ~(Fits /\ Len(Current.pattern) = Len(Remaining))
    PROVE  at \notin Describing
  <1>1. ~Describes(RouteAt(at), request)
    BY RouteFits DEF AtRoute
  <1>. QED
    BY <1>1, DescribingIs

-----------------------------------------------------------------------------
(* The steps of the search. *)

LEMMA WalkOn ==
    ASSUME Walk, Searching, request' = request, Standing', at'[1] > 8 => user' = KnownUser,
           unauthorized' <=> Len(at') = 2 /\ at'[1] = 27 /\ user' = "none",
           Len(at') = 2 /\ at'[1] = 28 => user' = "admin",
           \A p \in Describing : ~Passed(p, at')
    PROVE  Walk'
  BY RequestKept DEF Walk

LEMMA Unanswered ==
    ASSUME answer' = Nothing \/ \E code : answer' = Terminated(code)
    PROVE  FirstFit'
  <1>1. \A code : Terminated(code).is = "terminated"
    BY DEF Terminated
  <1>2. ~Answered'
    BY <1>1 DEF Answered
  <1>. QED
    BY <1>2 DEF FirstFit

LEMMA Ended == ASSUME answer' # Nothing PROVE Walk'
  BY DEF Walk, Searching

LEMMA TerminatedIs == ASSUME NEW code PROVE Terminated(code) # Nothing
  <1>1. Terminated(code).is = "terminated" /\ Nothing.is = "nothing"
    BY DEF Terminated, Nothing
  <1>. QED
    BY <1>1

LEMMA NoUseThere ==
    ASSUME NEW p \in Describing
    PROVE  p[1] # 1 /\ p[1] # 8
  <1>1. \A i \in Singles \cup Groups : i # 1 /\ i # 8
    BY DEF Singles, Groups
  <1>. QED
    BY <1>1, DescribingWhere

LEMMA StepArrive ==
    ASSUME NEW q \in Requests, Arrive(q)
    PROVE  Walk' /\ FirstFit'
  <1>1. /\ request' = q /\ at' = <<1>> /\ unauthorized' = FALSE /\ answer' = Nothing
    BY DEF Arrive
  <1>2. at'[1] = 1 /\ Len(at') = 1 /\ Standing'
    BY <1>1 DEF Standing
  <1>3. ASSUME NEW p \in Describing'
        PROVE  ~Passed(p, at')
    <2>1. p \in Routes
      BY <1>3 DEF Describing
    <2>2. p[1] \in 1..28
      <3>1. \A i \in Singles \cup Groups : i \in 1..28
        BY DEF Singles, Groups
      <3>2. ASSUME NEW i \in Singles, p = <<i>>
            PROVE  p[1] \in 1..28
        <4>1. p[1] = i
          BY <3>2
        <4>. QED
          BY <3>1, <4>1
      <3>3. ASSUME NEW i \in Groups, NEW j, p = <<i, j>>
            PROVE  p[1] \in 1..28
        <4>1. p[1] = i
          BY <3>3
        <4>. QED
          BY <3>1, <4>1
      <3>. QED
        BY <2>1, <3>2, <3>3, RoutesWhere
    <2>. QED
      BY <1>2, <2>2 DEF Passed
  <1>4. Walk'
    BY <1>1, <1>2, <1>3 DEF Walk
  <1>. QED
    BY <1>1, <1>4, Unanswered

LEMMA StepBeforeHandler ==
    ASSUME Walk, BeforeHandler
    PROVE  Walk' /\ FirstFit'
  <1>1. Looking /\ Searching /\ answer = Nothing
    BY DEF BeforeHandler, Looking, Searching
  <1>2. at = <<1>>
    BY <1>1, LookingAt, GroupRoutes DEF BeforeHandler
  <1>3. at[1] = 1 /\ Len(at) = 1
    BY <1>2
  <1>4. CASE BeforeStatus = 0
    <2>1. at' = <<2>> /\ answer' = Nothing
      <3>1. Advance
        BY <1>4 DEF BeforeHandler
      <3>. QED
        BY <1>1, <1>2, <1>4, <3>1, AdvanceSingle DEF BeforeHandler
    <2>2. at'[1] = 2 /\ Len(at') = 1 /\ Standing'
      BY <2>1 DEF Standing
    <2>3. \A p \in Describing : ~Passed(p, at')
      <3>1. \A p \in Describing : ~Passed(p, at)
        BY <1>1 DEF Walk
      <3>2. \A p \in Describing : p[1] # 1
        BY NoUseThere
      <3>3. at' = <<1 + 1>>
        BY <2>1
      <3>. QED
        BY <1>2, <3>1, <3>2, <3>3, PastSingle
    <2>4. ~unauthorized /\ unauthorized' = unauthorized
      BY <1>1, <1>3 DEF Walk, BeforeHandler
    <2>5. request' = request
      BY DEF BeforeHandler
    <2>6. Walk'
      BY <1>1, <2>2, <2>3, <2>4, <2>5, WalkOn
    <2>. QED
      BY <2>1, <2>6, Unanswered
  <1>5. CASE BeforeStatus # 0
    <2>1. answer' = Terminated(BeforeStatus)
      BY <1>5 DEF BeforeHandler
    <2>. QED
      BY <2>1, Unanswered, Ended, TerminatedIs
  <1>. QED
    BY <1>4, <1>5

LEMMA StepAddAccount ==
    ASSUME Walk, AddAccount
    PROVE  Walk' /\ FirstFit'
  <1>1. Looking /\ Searching /\ answer = Nothing
    BY DEF AddAccount, Looking, Searching
  <1>2. at = <<8>>
    BY <1>1, LookingAt, GroupRoutes DEF AddAccount
  <1>3. at[1] = 8 /\ Len(at) = 1
    BY <1>2
  <1>4. CASE request.cookie # "unknown"
    <2>1. at' = <<9>> /\ answer' = Nothing /\ user' = KnownUser
      <3>1. Advance /\ user' = KnownUser
        BY <1>4 DEF AddAccount, KnownUser
      <3>. QED
        BY <1>1, <1>2, <1>4, <3>1, AdvanceSingle DEF AddAccount
    <2>2. at'[1] = 9 /\ Len(at') = 1 /\ Standing'
      BY <2>1 DEF Standing
    <2>3. \A p \in Describing : ~Passed(p, at')
      <3>1. \A p \in Describing : ~Passed(p, at)
        BY <1>1 DEF Walk
      <3>2. \A p \in Describing : p[1] # 8
        BY NoUseThere
      <3>3. at' = <<8 + 1>>
        BY <2>1
      <3>. QED
        BY <1>2, <3>1, <3>2, <3>3, PastSingle
    <2>4. ~unauthorized /\ unauthorized' = unauthorized
      BY <1>1, <1>3 DEF Walk, AddAccount
    <2>5. request' = request
      BY DEF AddAccount
    <2>6. Walk'
      BY <1>1, <2>1, <2>2, <2>3, <2>4, <2>5, WalkOn
    <2>. QED
      BY <2>1, <2>6, Unanswered
  <1>5. CASE request.cookie = "unknown"
    <2>1. answer' = Terminated(400)
      BY <1>5 DEF AddAccount
    <2>. QED
      BY <2>1, Unanswered, Ended, TerminatedIs
  <1>. QED
    BY <1>4, <1>5

(* A top-level entry is passed over. *)
LEMMA PassSingle ==
    ASSUME Walk, Searching, NEW i \in Singles \cup Groups, at = <<i>>, Advance,
           UNCHANGED <<request, user, unauthorized, answer>>, \A p \in Describing : p[1] # i
    PROVE  Walk' /\ FirstFit'
  <1>1. i \in 1..28 /\ i # 8 /\ i \in 1..29 /\ i + 1 \in 1..29
    BY DEF Singles, Groups
  <1>2. at' = <<i + 1>> /\ at[1] = i /\ Len(at) = 1
    BY <1>1, AdvanceSingle
  <1>3. at'[1] = i + 1 /\ Len(at') = 1 /\ Standing'
    BY <1>1, <1>2 DEF Standing
  <1>4. \A p \in Describing : ~Passed(p, at')
    BY <1>1, <1>2, PastSingle DEF Walk
  <1>5. at'[1] > 8 => user' = KnownUser
    <2>1. at'[1] > 8 => at[1] > 8
      BY <1>1, <1>2, <1>3
    <2>. QED
      BY <2>1 DEF Walk
  <1>6. ~unauthorized'
    BY <1>2 DEF Walk
  <1>7. Walk'
    BY <1>3, <1>4, <1>5, <1>6, WalkOn
  <1>. QED
    BY <1>7, Unanswered DEF Searching

(* An entry of a group is passed over. *)
LEMMA PassInGroup ==
    ASSUME Walk, Searching, NEW i \in Groups, NEW j \in 1..Len(MustRoutes[i].route),
           at = <<i, j>>, at \notin Describing, Advance,
           UNCHANGED <<request, user, unauthorized, answer>>
    PROVE  Walk' /\ FirstFit'
  <1>1. PICK n : n = Len(MustRoutes[i].route)
    OBVIOUS
  <1>2. n \in Nat /\ j \in 1..n /\ j \in Nat /\ j + 1 \in 1..(n + 1)
    <2>1. n \in Nat /\ j \in 1..n
      BY <1>1, GroupRoutes
    <2>. QED
      BY <2>1
  <1>3. at' = <<i, j + 1>> /\ at[1] = i /\ Len(at) = 2
    BY <1>2, AdvanceGroup
  <1>4. at'[1] = i /\ Len(at') = 2
    BY <1>3
  <1>5. Standing'
    BY <1>1, <1>2, <1>3 DEF Standing
  <1>6. \A p \in Describing : ~Passed(p, at')
    BY <1>2, <1>3, PastGroup DEF Walk
  <1>7. user' = KnownUser
    <2>1. at[1] > 8
      BY <1>3 DEF Groups
    <2>. QED
      BY <2>1 DEF Walk
  <1>8. /\ unauthorized <=> i = 27 /\ user = "none"
        /\ i = 28 => user = "admin"
    BY <1>3 DEF Walk
  <1>9. Walk'
    BY <1>4, <1>5, <1>6, <1>7, <1>8, WalkOn
  <1>. QED
    BY <1>9, Unanswered DEF Searching

(* A route is passed over. *)
LEMMA PassRoute ==
    ASSUME Walk, Looking, AtRoute, Current.use = "",
           ~(Fits /\ Len(Current.pattern) = Len(Remaining)), Advance,
           UNCHANGED <<request, user, unauthorized, answer>>
    PROVE  Walk' /\ FirstFit'
  <1>1. Searching /\ at \notin Describing
    BY PassedOver DEF Looking
  <1>2. CASE \E i \in Singles : at = <<i>>
    <2>1. PICK i \in Singles : at = <<i>>
      BY <1>2
    <2>2. \A p \in Describing : p[1] # i
      <3>1. i \notin Groups
        BY DEF Singles, Groups
      <3>. QED
        BY <1>1, <2>1, <3>1, DescribingWhere
    <2>. QED
      BY <1>1, <2>1, <2>2, PassSingle
  <1>3. CASE \E i \in Groups : \E j \in 1..Len(MustRoutes[i].route) : at = <<i, j>>
    <2>1. PICK i \in Groups : \E j \in 1..Len(MustRoutes[i].route) : at = <<i, j>>
      BY <1>3
    <2>2. PICK j \in 1..Len(MustRoutes[i].route) : at = <<i, j>>
      BY <2>1
    <2>. QED
      BY <1>1, <2>2, PassInGroup
  <1>4. ~\E i \in Groups : at = <<i>>
    BY GroupNoRoute DEF AtRoute
  <1>. QED
    BY <1>2, <1>3, <1>4, LookingAt

LEMMA StepPass ==
    ASSUME Walk, Pass
    PROVE  Walk' /\ FirstFit'
  <1>1. /\ Looking /\ Searching /\ Current.use = "" /\ ~Fits /\ Advance
        /\ UNCHANGED <<request, user, unauthorized, answer>>
    BY DEF Pass, Looking
  <1>2. CASE AtRoute
    BY <1>1, <1>2, PassRoute
  <1>3. CASE \E i \in Groups : at = <<i>> /\ Current = MustRoutes[i] /\ Current.use = ""
    <2>1. PICK i \in Groups : at = <<i>> /\ Current = MustRoutes[i]
      BY <1>3
    <2>2. request \in Requests /\ Remaining = request.path
      BY <1>1, RemainingIs DEF Walk
    <2>3. Matches(Current, Remaining) /\ Current.method = ""
      BY <2>1, <2>2, FitsGroup, GroupRoutes
    <2>4. Says(MustRoutes[i].skip, user)
      BY <1>1, <2>1, <2>3 DEF Fits
    <2>5. i = 28 /\ MustRoutes[i].skip = "NotAdmin" /\ user # "admin"
      BY <2>4, TableIs DEF Says, NotAdmin, TableOK, GroupOK, Groups
    <2>6. at[1] > 8
      BY <2>1, <2>5
    <2>7. user = KnownUser
      BY <1>1, <2>6 DEF Walk
    <2>8. request.cookie # "admin"
      BY <2>5, <2>7 DEF KnownUser
    <2>9. \A p \in Describing : p[1] # i
      BY <2>5, <2>8, DescribingIs
    <2>. QED
      BY <1>1, <2>1, <2>9, PassSingle
  <1>. QED
    BY <1>1, <1>2, <1>3, LookingAt

LEMMA AppendIs == ASSUME NEW i \in Nat PROVE Append(<<i>>, 1) = <<i, 1>>
  <1>1. PICK a, b, c : a = <<i>> /\ b = Append(a, 1) /\ c = <<i, 1>>
    OBVIOUS
  <1>2. a \in Seq(Nat) /\ Len(a) = 1 /\ a[1] = i
    BY <1>1
  <1>3. b \in Seq(Nat) /\ Len(b) = 2 /\ b[1] = i /\ b[2] = 1
    BY <1>1, <1>2
  <1>4. c \in Seq(Nat) /\ Len(c) = 2 /\ c[1] = i /\ c[2] = 1
    BY <1>1
  <1>5. \A k \in 1..2 : k = 1 \/ k = 2
    OBVIOUS
  <1>6. \A k \in 1..2 : b[k] = c[k]
    BY <1>3, <1>4, <1>5
  <1>7. DOMAIN b = 1..2 /\ DOMAIN c = 1..2
    BY <1>3, <1>4
  <1>8. b = [k \in 1..2 |-> b[k]] /\ c = [k \in 1..2 |-> c[k]]
    BY <1>3, <1>4, <1>7
  <1>9. b = c
    BY <1>6, <1>8
  <1>. QED
    BY <1>1, <1>9

LEMMA LengthsAre ==
    ASSUME Walk, Searching, AtRoute, Len(Current.pattern) < Len(Remaining)
    PROVE  Len(Current.pattern) # Len(Remaining)
  <1>1. PICK s, path : s = Current.pattern /\ path = Remaining
    OBVIOUS
  <1>2. PICK S : s \in Seq(S)
    BY <1>1 DEF AtRoute, RouteOK, HasNames
  <1>3. request \in Requests /\ path = request.path
    BY <1>1, RemainingIs DEF Walk
  <1>4. Len(s) \in Nat /\ Len(path) \in Nat
    <2>1. Len(s) \in Nat
      BY <1>2
    <2>. QED
      BY <1>3, <2>1, PathIs
  <1>. QED
    BY <1>1, <1>4

LEMMA StepEnter ==
    ASSUME Walk, Enter
    PROVE  Walk' /\ FirstFit'
  <1>1. /\ Looking /\ Searching /\ Current.use = "" /\ Fits /\ answer = Nothing
        /\ Len(Current.pattern) < Len(Remaining)
        /\ UNCHANGED <<request, user, answer>>
    BY DEF Enter, Looking, Searching
  <1>2. CASE AtRoute /\ Current.route = <<>>
    <2>1. Advance /\ UNCHANGED unauthorized
      BY <1>2 DEF Enter
    <2>2. Len(Current.pattern) # Len(Remaining)
      BY <1>1, <1>2, LengthsAre
    <2>. QED
      BY <1>1, <1>2, <2>1, <2>2, PassRoute
  <1>3. CASE \E i \in Groups : at = <<i>> /\ Current = MustRoutes[i] /\ Current.use = ""
    <2>1. PICK i \in Groups : at = <<i>> /\ Current = MustRoutes[i]
      BY <1>3
    <2>2. at[1] = i /\ Len(at) = 1 /\ i > 8 /\ i \in Nat
      BY <2>1 DEF Groups
    <2>3. at' = <<i, 1>>
      <3>1. at' = Append(at, 1)
        BY <2>1, GroupRoutes DEF Enter
      <3>. QED
        BY <2>1, <2>2, <3>1, AppendIs
    <2>4. at'[1] = i /\ Len(at') = 2
      BY <2>3
    <2>5. Standing'
      <3>1. PICK n : n = Len(MustRoutes[i].route)
        OBVIOUS
      <3>2. n \in Nat
        BY <3>1, GroupRoutes
      <3>3. 1 \in 1..(n + 1)
        BY <3>2
      <3>. QED
        BY <2>3, <3>1, <3>3 DEF Standing
    <2>6. \A p \in Describing : ~Passed(p, at')
      BY <1>1, <2>1, <2>3, PastEntrance DEF Walk
    <2>7. user = KnownUser /\ ~unauthorized
      BY <1>1, <2>2 DEF Walk
    <2>8. ~Says(MustRoutes[i].skip, user)
      BY <1>1, <2>1 DEF Fits
    <2>9. i = 28 => user = "admin"
      BY <2>8, TableIs DEF Says, NotAdmin, TableOK, GroupOK
    <2>10. Says(MustRoutes[i].guard, user) <=> i = 27 /\ user = "none"
      BY TableIs DEF Says, HasNone, TableOK, GroupOK, Groups
    <2>11. unauthorized' <=> i = 27 /\ user = "none"
      <3>1. unauthorized' = (unauthorized \/ Says(MustRoutes[i].guard, user))
        BY <2>1, GroupRoutes DEF Enter
      <3>. QED
        BY <2>7, <2>10, <3>1
    <2>12. Walk'
      BY <1>1, <2>4, <2>5, <2>6, <2>7, <2>9, <2>11, WalkOn
    <2>. QED
      BY <1>1, <2>12, Unanswered
  <1>. QED
    BY <1>1, <1>2, <1>3, LookingAt

LEMMA StepLeave ==
    ASSUME Walk, Leave
    PROVE  Walk' /\ FirstFit'
  <1>1. /\ Searching /\ Len(at) > 1 /\ Last(at) > Len(Within(at)) /\ answer = Nothing
        /\ at' = <<at[1] + 1>> /\ unauthorized' = FALSE
        /\ UNCHANGED <<request, user, answer>>
    BY DEF Leave, Searching
  <1>2. request \in Requests /\ Standing
    BY <1>1 DEF Walk
  <1>3. ~\E i \in 1..29 : at = <<i>>
    <2>1. ASSUME NEW i \in 1..29, at = <<i>>
          PROVE  FALSE
      <3>1. Len(at) = 1
        BY <2>1
      <3>. QED
        BY <1>1, <3>1
    <2>. QED
      BY <2>1
  <1>4. PICK i \in Groups : \E j \in 1..(Len(MustRoutes[i].route) + 1) : at = <<i, j>>
    BY <1>2, <1>3 DEF Standing
  <1>5. PICK n : n = Len(MustRoutes[i].route)
    OBVIOUS
  <1>6. n \in Nat
    BY <1>5, GroupRoutes
  <1>7. PICK j \in 1..(n + 1) : at = <<i, j>>
    BY <1>4, <1>5
  <1>8. j \in Nat
    BY <1>6
  <1>9. at[1] = i /\ n < j
    BY <1>1, <1>2, <1>5, <1>7, <1>8, AtGroup
  <1>10. at' = <<i + 1>> /\ at'[1] = i + 1 /\ Len(at') = 1
    BY <1>1, <1>9
  <1>11. Standing'
    <2>1. i + 1 \in 1..29
      BY DEF Groups
    <2>. QED
      BY <1>10, <2>1 DEF Standing
  <1>12. \A p \in Describing : ~Passed(p, at')
    BY <1>1, <1>5, <1>7, <1>8, <1>9, <1>10, PastExit DEF Walk
  <1>13. user' = KnownUser
    <2>1. at[1] > 8
      BY <1>9 DEF Groups
    <2>. QED
      BY <1>1, <2>1 DEF Walk
  <1>14. Walk'
    BY <1>1, <1>10, <1>11, <1>12, <1>13, WalkOn
  <1>. QED
    BY <1>1, <1>14, Unanswered

LEMMA StatusIs ==
    ASSUME NEW code
    PROVE  Status(code) # Nothing /\ Status(code).is = "status"
  <1>1. Status(code).is = "status" /\ Nothing.is = "nothing"
    BY DEF Status, Nothing
  <1>. QED
    BY <1>1

LEMMA ServedNothing ==
    ASSUME NEW entry, NEW path
    PROVE  Served(entry, path) # Nothing
  <1>1. Served(entry, path).is = "served" /\ Nothing.is = "nothing"
    BY DEF Served, Nothing
  <1>. QED
    BY <1>1

LEMMA StepNotFound ==
    ASSUME Walk, NotFound
    PROVE  Walk' /\ FirstFit'
  <1>1. /\ Searching /\ Len(at) = 1 /\ Last(at) > Len(Within(at))
        /\ answer' = Status(404) /\ request' = request
    BY DEF NotFound
  <1>2. request \in Requests /\ Standing
    BY <1>1 DEF Walk
  <1>3. PICK i \in 1..29 : at = <<i>>
    <2>1. ASSUME NEW i, NEW j, at = <<i, j>>
          PROVE  FALSE
      <3>1. Len(at) = 2
        BY <2>1
      <3>. QED
        BY <1>1, <3>1
    <2>. QED
      BY <1>2, <2>1 DEF Standing
  <1>4. at[1] = 29
    <2>1. Last(at) = i /\ Len(Within(at)) = 28 /\ at[1] = i
      BY <1>2, <1>3, AtSingle
    <2>. QED
      BY <1>1, <2>1
  <1>5. Describing = {}
    <2>1. ASSUME NEW p \in Describing
          PROVE  FALSE
      <3>1. \A k \in Singles \cup Groups : k < 29
        BY DEF Singles, Groups
      <3>2. p[1] < at[1]
        BY <1>4, <3>1, DescribingWhere
      <3>. QED
        BY <1>1, <3>2 DEF Walk, Passed
    <2>. QED
      BY <2>1
  <1>6. Describing' = {}
    BY <1>1, <1>5, RequestKept
  <1>7. FirstFit'
    BY <1>1, <1>6 DEF FirstFit
  <1>8. Walk'
    BY <1>1, Ended, StatusIs
  <1>. QED
    BY <1>7, <1>8

(* The entry whose handler is called, or 401 answered for, is the first    *)
(* that describes the request.                                             *)
LEMMA ServeWhere ==
    ASSUME Walk, Serve
    PROVE  /\ Searching /\ AtRoute /\ at \in Describing /\ request' = request
           /\ request \in Requests /\ Remaining = request.path
           /\ Describes(RouteAt(at), request) /\ ~Says(Current.guard, user)
           /\ \/ at[1] \in Singles /\ Len(at) = 1
              \/ at[1] \in Groups /\ Len(at) = 2
           /\ at[1] \in Groups => user = KnownUser
           /\ MustRoutes[at[1]].guard = "HasNone" <=> at[1] = 27
           /\ \A p \in Describing : ~Passed(p, at)
  <1>1. /\ Looking /\ Searching /\ Current.use = "" /\ Fits
        /\ Len(Current.pattern) = Len(Remaining) /\ request' = request
    BY DEF Serve, Looking
  <1>2. request \in Requests /\ Remaining = request.path
    BY <1>1, RemainingIs DEF Walk
  <1>3. AtRoute
    <2>1. ASSUME NEW i \in Groups, at = <<i>>, Current = MustRoutes[i]
          PROVE  FALSE
      <3>1. PICK path : path = request.path
        OBVIOUS
      <3>2. Len(path) \in Nat /\ Len(path) # 0
        BY <1>2, <3>1, PathIs
      <3>3. Current.pattern = <<>>
        BY <2>1, GroupRoutes
      <3>4. Len(Current.pattern) = 0
        BY <3>3
      <3>. QED
        BY <1>1, <1>2, <3>1, <3>2, <3>4
    <2>. QED
      BY <1>1, <2>1, LookingAt
  <1>4. Describes(RouteAt(at), request) /\ ~Says(Current.guard, user)
    BY <1>1, <1>3, RouteFits DEF AtRoute
  <1>5. \/ at[1] \in Singles /\ Len(at) = 1
        \/ at[1] \in Groups /\ Len(at) = 2
    <2>1. at \in Routes
      BY <1>3 DEF AtRoute
    <2>2. ASSUME NEW i \in Singles, at = <<i>>
          PROVE  at[1] \in Singles /\ Len(at) = 1
      BY <2>2
    <2>3. ASSUME NEW i \in Groups, NEW j, at = <<i, j>>
          PROVE  at[1] \in Groups /\ Len(at) = 2
      BY <2>3
    <2>. QED
      BY <2>1, <2>2, <2>3, RoutesWhere
  <1>6. ASSUME at[1] \in Groups
        PROVE  user = KnownUser
    <2>1. at[1] > 8
      BY <1>6 DEF Groups
    <2>. QED
      BY <1>1, <2>1 DEF Walk
  <1>7. /\ MustRoutes[at[1]].skip = "NotAdmin" => at[1] = 28
        /\ MustRoutes[at[1]].guard = "HasNone" <=> at[1] = 27
    <2>1. CASE at[1] \in Singles
      <3>1. MustRoutes[at[1]].skip = "" /\ MustRoutes[at[1]].guard = ""
        BY <2>1, TableIs DEF TableOK, RouteOK
      <3>2. at[1] # 27
        BY <2>1 DEF Singles
      <3>. QED
        BY <3>1, <3>2
    <2>2. CASE at[1] \in Groups
      BY <2>2, TableIs DEF TableOK, GroupOK, Groups
    <2>. QED
      BY <1>5, <2>1, <2>2
  <1>8. at \in Describing
    <2>1. ASSUME at[1] = 28
          PROVE  request.cookie = "admin"
      <3>1. Len(at) = 2 /\ at[1] \in Groups
        BY <1>5, <2>1 DEF Singles, Groups
      <3>2. user = "admin"
        BY <1>1, <2>1, <3>1 DEF Walk
      <3>. QED
        BY <1>6, <3>1, <3>2 DEF KnownUser
    <2>. QED
      BY <1>3, <1>4, <1>7, <2>1, DescribingIs DEF AtRoute
  <1>. QED
    BY <1>1, <1>2, <1>3, <1>4, <1>5, <1>6, <1>7, <1>8 DEF Walk

LEMMA StepServe ==
    ASSUME Walk, Serve
    PROVE  Walk' /\ FirstFit'
  <1>1. /\ Searching /\ AtRoute /\ request' = request
        /\ request \in Requests /\ Remaining = request.path
        /\ Describes(RouteAt(at), request) /\ ~Says(Current.guard, user)
    BY ServeWhere
  <1>2. /\ \/ at[1] \in Singles /\ Len(at) = 1
           \/ at[1] \in Groups /\ Len(at) = 2
        /\ at[1] \in Groups => user = KnownUser
        /\ MustRoutes[at[1]].guard = "HasNone" <=> at[1] = 27
    BY ServeWhere
  <1>3. at \in Describing /\ \A p \in Describing : ~Passed(p, at)
    BY ServeWhere
  <1>4. First(Describing) = at
    BY <1>3, FirstIs
  <1>5. unauthorized <=> /\ MustRoutes[at[1]].guard = "HasNone"
                         /\ request.cookie \notin {"member", "admin"}
    <2>1. at[1] = 27 => Len(at) = 2 /\ at[1] \in Groups
      BY <1>2 DEF Singles, Groups
    <2>2. at[1] = 27 => (user = "none" <=> request.cookie \notin {"member", "admin"})
      BY <1>2, <2>1 DEF KnownUser
    <2>. QED
      BY <1>1, <1>2, <2>1, <2>2 DEF Walk
  <1>6. WholePattern(at) = RouteAt(at).pattern
    BY <1>1, RoutesWhere, RouteThere DEF AtRoute
  <1>7. Describing' = Describing
    BY <1>1, RequestKept
  <1>8. CASE unauthorized
    <2>1. answer' = Status(401)
      BY <1>8 DEF Serve
    <2>2. MustRoutes[at[1]].guard = "HasNone" /\ request'.cookie \notin {"member", "admin"}
      BY <1>1, <1>5, <1>8
    <2>3. Describing' # {} /\ First(Describing') = at
      BY <1>3, <1>4, <1>7
    <2>4. FirstFit'
      BY <2>1, <2>2, <2>3 DEF FirstFit
    <2>. QED
      BY <2>1, <2>4, Ended, StatusIs
  <1>9. CASE ~unauthorized
    <2>1. answer' = Served(RouteAt(at), request.path)
      BY <1>1, <1>9 DEF Serve, AtRoute
    <2>2. /\ answer'.is = "served" /\ answer'.handler = RouteAt(at).handler
          /\ \A i \in DOMAIN request.path : RouteAt(at).pattern[i].name # "" =>
                 answer'.vars[RouteAt(at).pattern[i].name] = request.path[i]
      <3>1. /\ RouteOK(RouteAt(at)) /\ request \in Requests
            /\ Len(RouteAt(at).pattern) = Len(request.path)
        BY <1>1 DEF AtRoute, Describes
      <3>. QED
        BY <2>1, <3>1, ServedIs
    <2>3. FirstFit'
      BY <1>1, <1>3, <1>4, <1>5, <1>6, <1>7, <1>9, <2>2 DEF FirstFit
    <2>. QED
      BY <2>1, <2>3, Ended, ServedNothing
  <1>. QED
    BY <1>8, <1>9

LEMMA StepFinish ==
    ASSUME Finish
    PROVE  Walk' /\ FirstFit'
  BY Unanswered DEF Finish, Walk, Searching

-----------------------------------------------------------------------------
(* The table is searched as one list. *)

LEMMA WalkStarts == Init => Walk /\ FirstFit
  BY DEF Init, Walk, Searching, FirstFit, Answered

LEMMA WalkStep ==
    ASSUME Walk, FirstFit, [Next]_vars
    PROVE  Walk' /\ FirstFit'
  <1>1. CASE \E q \in Requests : Arrive(q)
    BY <1>1, StepArrive
  <1>2. CASE BeforeHandler
    BY <1>2, StepBeforeHandler
  <1>3. CASE AddAccount
    BY <1>3, StepAddAccount
  <1>4. CASE Pass
    BY <1>4, StepPass
  <1>5. CASE Serve
    BY <1>5, StepServe
  <1>6. CASE Enter
    BY <1>6, StepEnter
  <1>7. CASE Leave
    BY <1>7, StepLeave
  <1>8. CASE NotFound
    BY <1>8, StepNotFound
  <1>9. CASE Finish
    BY <1>9, StepFinish
  <1>10. CASE UNCHANGED vars
    <2>1. UNCHANGED <<request, at, user, unauthorized, answer>>
      BY <1>10 DEF vars
    <2>2. Describing' = Describing /\ KnownUser' = KnownUser
      BY <2>1, RequestKept
    <2>3. Walk'
      BY <2>1, <2>2 DEF Walk, Searching, Standing
    <2>4. FirstFit'
      BY <2>1, <2>2 DEF FirstFit, Answered
    <2>. QED
      BY <2>3, <2>4
  <1>. QED
    BY <1>1, <1>2, <1>3, <1>4, <1>5, <1>6, <1>7, <1>8, <1>9, <1>10 DEF Next

(* Whatever requests are made, each is answered as if all routes stood in  *)
(* one list, in the order in which they were written: FirstFit, what       *)
(* iterateRoutes of internal/router/router.go does with the table of       *)
(* setup/routes.go, its groups, their guards and account.Add.              *)
THEOREM FirstFitAlways == Spec => []FirstFit
  <1>1. Init => Walk /\ FirstFit
    BY WalkStarts
  <1>2. Walk /\ FirstFit /\ [Next]_vars => Walk' /\ FirstFit'
    BY WalkStep
  <1>. QED
    BY <1>1, <1>2, PTL DEF Spec

-----------------------------------------------------------------------------
(* What the patterns say, segment by segment. *)

IsList(p, n) == (\E S : p \in Seq(S)) /\ Len(p) = n
Says1(p, a) == IsList(p, 1) /\ p[1].matches = a
Says2(p, a, b) == IsList(p, 2) /\ p[1].matches = a /\ p[2].matches = b
Says3(p, a, b, c) ==
    IsList(p, 3) /\ p[1].matches = a /\ p[2].matches = b /\ p[3].matches = c
Says4(p, a, b, c, d) ==
    /\ IsList(p, 4)
    /\ p[1].matches = a /\ p[2].matches = b /\ p[3].matches = c /\ p[4].matches = d
Says5(p, a, b, c, d, e) ==
    /\ IsList(p, 5) /\ p[1].matches = a /\ p[2].matches = b /\ p[3].matches = c
    /\ p[4].matches = d /\ p[5].matches = e

LEMMA OneSays ==
    ASSUME NEW x, NEW a, x.matches = a
    PROVE  Says1(<<x>>, a)
  <1>1. PICK s : s = <<x>>
    OBVIOUS
  <1>2. s \in Seq({x}) /\ Len(s) = 1 /\ s[1] = x
    BY <1>1
  <1>3. Says1(s, a)
    BY <1>2 DEF Says1, IsList
  <1>. QED
    BY <1>1, <1>3

LEMMA TwoSay ==
    ASSUME NEW x, NEW y, NEW a, NEW b, x.matches = a, y.matches = b
    PROVE  Says2(<<x, y>>, a, b)
  <1>1. PICK s : s = <<x, y>>
    OBVIOUS
  <1>2. s \in Seq({x, y}) /\ Len(s) = 2 /\ s[1] = x /\ s[2] = y
    BY <1>1
  <1>3. Says2(s, a, b)
    BY <1>2 DEF Says2, IsList
  <1>. QED
    BY <1>1, <1>3

LEMMA ThreeSay ==
    ASSUME NEW x, NEW y, NEW z, NEW a, NEW b, NEW c, x.matches = a, y.matches = b, z.matches = c
    PROVE  Says3(<<x, y, z>>, a, b, c)
  <1>1. PICK s : s = <<x, y, z>>
    OBVIOUS
  <1>2. s \in Seq({x, y, z}) /\ Len(s) = 3 /\ s[1] = x /\ s[2] = y /\ s[3] = z
    BY <1>1
  <1>3. Says3(s, a, b, c)
    BY <1>2 DEF Says3, IsList
  <1>. QED
    BY <1>1, <1>3

(* Where the segments of a longer pattern come from. *)
LEMMA ListParts ==
    ASSUME NEW p, NEW q, NEW m \in Nat, NEW n \in Nat, IsList(p, m), IsList(q, n),
           NEW l, IsSum(l, m, n), NEW r, Joined(r, p, q)
    PROVE  /\ IsList(r, l)
           /\ \A i \in 1..m : r[i] = p[i]
           /\ \A i \in 1..n : r[m + i] = q[i]
  <1>1. PICK S : p \in Seq(S)
    BY DEF IsList
  <1>2. PICK T : q \in Seq(T)
    BY DEF IsList
  <1>3. p \in Seq(S \cup T) /\ q \in Seq(S \cup T)
    BY <1>1, <1>2
  <1>4. IsSeq(p, S \cup T, m) /\ IsSeq(q, S \cup T, n)
    BY <1>3 DEF IsList, IsSeq
  <1>. QED
    BY <1>4, Concatenation DEF IsSeq, IsList

LEMMA OneAndOne ==
    ASSUME NEW p, NEW q, NEW a, NEW b, Says1(p, a), Says1(q, b)
    PROVE  Says2(p \o q, a, b)
  <1>1. PICK r : Joined(r, p, q)
    BY DEF Joined
  <1>2. IsList(r, 2) /\ r[1] = p[1] /\ r[1 + 1] = q[1]
    BY <1>1, ListParts, IsSum(2, 1, 1) DEF Says1, IsSum
  <1>3. Says2(r, a, b)
    BY <1>2 DEF Says1, Says2
  <1>. QED
    BY <1>1, <1>3 DEF Joined

LEMMA OneAndTwo ==
    ASSUME NEW p, NEW q, NEW a, NEW b, NEW c, Says1(p, a), Says2(q, b, c)
    PROVE  Says3(p \o q, a, b, c)
  <1>1. PICK r : Joined(r, p, q)
    BY DEF Joined
  <1>2. IsList(r, 3) /\ r[1] = p[1] /\ r[1 + 1] = q[1] /\ r[1 + 2] = q[2]
    BY <1>1, ListParts, IsSum(3, 1, 2) DEF Says1, Says2, IsSum
  <1>3. Says3(r, a, b, c)
    BY <1>2 DEF Says1, Says2, Says3
  <1>. QED
    BY <1>1, <1>3 DEF Joined

LEMMA OneAndThree ==
    ASSUME NEW p, NEW q, NEW a, NEW b, NEW c, NEW d, Says1(p, a), Says3(q, b, c, d)
    PROVE  Says4(p \o q, a, b, c, d)
  <1>1. PICK r : Joined(r, p, q)
    BY DEF Joined
  <1>2. IsList(r, 4) /\ r[1] = p[1] /\ r[1 + 1] = q[1] /\ r[1 + 2] = q[2] /\ r[1 + 3] = q[3]
    BY <1>1, ListParts, IsSum(4, 1, 3) DEF Says1, Says3, IsSum
  <1>3. Says4(r, a, b, c, d)
    BY <1>2 DEF Says1, Says3, Says4
  <1>. QED
    BY <1>1, <1>3 DEF Joined

LEMMA TwoAndOne ==
    ASSUME NEW p, NEW q, NEW a, NEW b, NEW c, Says2(p, a, b), Says1(q, c)
    PROVE  Says3(p \o q, a, b, c)
  <1>1. PICK r : Joined(r, p, q)
    BY DEF Joined
  <1>2. IsList(r, 3) /\ r[1] = p[1] /\ r[2] = p[2] /\ r[2 + 1] = q[1]
    BY <1>1, ListParts, IsSum(3, 2, 1) DEF Says1, Says2, IsSum
  <1>3. Says3(r, a, b, c)
    BY <1>2 DEF Says1, Says2, Says3
  <1>. QED
    BY <1>1, <1>3 DEF Joined

LEMMA TwoAndTwo ==
    ASSUME NEW p, NEW q, NEW a, NEW b, NEW c, NEW d, Says2(p, a, b), Says2(q, c, d)
    PROVE  Says4(p \o q, a, b, c, d)
  <1>1. PICK r : Joined(r, p, q)
    BY DEF Joined
  <1>2. IsList(r, 4) /\ r[1] = p[1] /\ r[2] = p[2] /\ r[2 + 1] = q[1] /\ r[2 + 2] = q[2]
    BY <1>1, ListParts, IsSum(4, 2, 2) DEF Says2, IsSum
  <1>3. Says4(r, a, b, c, d)
    BY <1>2 DEF Says2, Says4
  <1>. QED
    BY <1>1, <1>3 DEF Joined

LEMMA ThreeAndOne ==
    ASSUME NEW p, NEW q, NEW a, NEW b, NEW c, NEW d, Says3(p, a, b, c), Says1(q, d)
    PROVE  Says4(p \o q, a, b, c, d)
  <1>1. PICK r : Joined(r, p, q)
    BY DEF Joined
  <1>2. IsList(r, 4) /\ r[1] = p[1] /\ r[2] = p[2] /\ r[3] = p[3] /\ r[3 + 1] = q[1]
    BY <1>1, ListParts, IsSum(4, 3, 1) DEF Says1, Says3, IsSum
  <1>3. Says4(r, a, b, c, d)
    BY <1>2 DEF Says1, Says3, Says4
  <1>. QED
    BY <1>1, <1>3 DEF Joined

LEMMA FourAndOne ==
    ASSUME NEW p, NEW q, NEW a, NEW b, NEW c, NEW d, NEW e, Says4(p, a, b, c, d), Says1(q, e)
    PROVE  Says5(p \o q, a, b, c, d, e)
  <1>1. PICK r : Joined(r, p, q)
    BY DEF Joined
  <1>2. /\ IsList(r, 5) /\ r[1] = p[1] /\ r[2] = p[2] /\ r[3] = p[3] /\ r[4] = p[4]
        /\ r[4 + 1] = q[1]
    BY <1>1, ListParts, IsSum(5, 4, 1) DEF Says1, Says4, IsSum
  <1>3. Says5(r, a, b, c, d, e)
    BY <1>2 DEF Says1, Says4, Says5
  <1>. QED
    BY <1>1, <1>3 DEF Joined

ModalWords == {"register", "login", "forgot", "reserve", "mailing"}
AccModalWords == {"delete", "email", "password", "persona", "delete_account"}
ConfirmWords == {"register", "forgot", "reserve", "mailing", "email", "password"}
SubNames == ModeNames \cup {"settings"}
Roots == {""}
Homes == {"home", ""}

LEMMA LiteralsSay ==
    /\ \A word : Literal(word).matches = {word} /\ Says1(<<Literal(word)>>, {word})
    /\ \A name : Variable(name).matches = {} /\ Says1(<<Variable(name)>>, {})
    /\ \A name, words : OneOf(name, words).matches = words /\ Says1(<<OneOf(name, words)>>, words)
  <1>1. /\ \A word : Literal(word).matches = {word}
        /\ \A name : Variable(name).matches = {}
        /\ \A name, words : OneOf(name, words).matches = words
    BY DEF Literal, Variable, OneOf
  <1>. QED
    BY <1>1, OneSays

LEMMA PatternsSay ==
    /\ Says1(Partial, {"partial"}) /\ Says1(Resource, {}) /\ Says1(Modes, ModeNames)
    /\ Says1(Repliers, {"forums"}) /\ Says1(InAccount, {"account"}) /\ Says1(InAdmin, {"admin"})
    /\ Says1(Modals, ModalWords) /\ Says1(AccModals, AccModalWords) /\ Says1(Confirms, ConfirmWords)
  BY LiteralsSay
     DEF Partial, Resource, Modes, Repliers, InAccount, InAdmin, Modals, AccModals, Confirms,
         ModalWords, AccModalWords, ConfirmWords

LEMMA LongerPatternsSay ==
    /\ Says2(Edit, {}, {"edit"}) /\ Says2(Reply, {}, {"reply"})
    /\ Says2(Submodes, {"account"}, SubNames) /\ Says2(SubRepliers, {"account"}, {"forums"})
    /\ Says2(AdminSubs, {"admin"}, ModeNames)
  <1>1. Says2(Edit, {}, {"edit"}) /\ Says2(Reply, {}, {"reply"})
    BY PatternsSay, LiteralsSay, OneAndOne DEF Edit, Reply
  <1>2. /\ Says2(Submodes, {"account"}, SubNames) /\ Says2(SubRepliers, {"account"}, {"forums"})
        /\ Says2(AdminSubs, {"admin"}, ModeNames)
    BY PatternsSay, LiteralsSay, OneAndOne DEF Submodes, SubRepliers, AdminSubs, SubNames
  <1>. QED
    BY <1>1, <1>2

(* What may follow a mode, and a mode in an account. *)
LEMMA AfterOne ==
    ASSUME NEW p, NEW a, Says1(p, a)
    PROVE  /\ Says2(p \o Partial, a, {"partial"})
           /\ Says2(p \o Resource, a, {}) /\ Says3((p \o Resource) \o Partial, a, {}, {"partial"})
           /\ Says3(p \o Edit, a, {}, {"edit"})
           /\ Says4((p \o Edit) \o Partial, a, {}, {"edit"}, {"partial"})
           /\ Says3(p \o Reply, a, {}, {"reply"})
           /\ Says4((p \o Reply) \o Partial, a, {}, {"reply"}, {"partial"})
  <1>1. /\ Says2(p \o Partial, a, {"partial"}) /\ Says2(p \o Resource, a, {})
        /\ Says3(p \o Edit, a, {}, {"edit"}) /\ Says3(p \o Reply, a, {}, {"reply"})
    BY PatternsSay, LongerPatternsSay, OneAndOne, OneAndTwo
  <1>. QED
    BY <1>1, PatternsSay, TwoAndOne, ThreeAndOne

LEMMA AfterTwo ==
    ASSUME NEW p, NEW a, NEW b, Says2(p, a, b)
    PROVE  /\ Says3(p \o Partial, a, b, {"partial"})
           /\ Says3(p \o Resource, a, b, {})
           /\ Says4((p \o Resource) \o Partial, a, b, {}, {"partial"})
           /\ Says4(p \o Edit, a, b, {}, {"edit"})
           /\ Says5((p \o Edit) \o Partial, a, b, {}, {"edit"}, {"partial"})
           /\ Says4(p \o Reply, a, b, {}, {"reply"})
           /\ Says5((p \o Reply) \o Partial, a, b, {}, {"reply"}, {"partial"})
  <1>1. /\ Says3(p \o Partial, a, b, {"partial"}) /\ Says3(p \o Resource, a, b, {})
        /\ Says4(p \o Edit, a, b, {}, {"edit"}) /\ Says4(p \o Reply, a, b, {}, {"reply"})
    BY PatternsSay, LongerPatternsSay, TwoAndOne, TwoAndTwo
  <1>. QED
    BY <1>1, PatternsSay, ThreeAndOne, FourAndOne

LEMMA FieldSays ==
    Says5((Modes \o <<OneOf("section", {"search", "editor"}), Literal("field"), Variable("name")>>)
              \o Partial, ModeNames, {"search", "editor"}, {"field"}, {}, {"partial"})
  <1>1. Says3(<<OneOf("section", {"search", "editor"}), Literal("field"), Variable("name")>>,
              {"search", "editor"}, {"field"}, {})
    <2>1. ASSUME NEW x, x = OneOf("section", {"search", "editor"}), NEW y, y = Literal("field"),
                 NEW z, z = Variable("name")
          PROVE  Says3(<<x, y, z>>, {"search", "editor"}, {"field"}, {})
      <3>1. x.matches = {"search", "editor"}
        BY <2>1, LiteralsSay
      <3>2. y.matches = {"field"} /\ z.matches = {}
        BY <2>1, LiteralsSay
      <3>. QED
        BY <3>1, <3>2, ThreeSay
    <2>. QED
      BY <2>1
  <1>. QED
    BY <1>1, PatternsSay, OneAndThree, FourAndOne

LEMMA WordsSay ==
    /\ \A w, v : Says2(<<Literal(w), Literal(v)>>, {w}, {v})
    /\ \A w, name : Says2(<<Literal(w), Variable(name)>>, {w}, {})
    /\ \A words, name, n : Says2(<<OneOf(n, words), Variable(name)>>, words, {})
    /\ \A w, v : Says3(<<Literal(w), Literal(v)>> \o Resource, {w}, {v}, {})
    /\ \A words, n : Says2(<<OneOf(n, words)>> \o Partial, words, {"partial"})
    /\ Says2(Confirms \o <<Literal("confirm")>>, ConfirmWords, {"confirm"})
    /\ Says2(Confirms \o <<Variable("code")>>, ConfirmWords, {})
  <1>1. \A w, v : Says2(<<Literal(w), Literal(v)>>, {w}, {v})
    BY TwoSay, LiteralsSay
  <1>2. \A w, name : Says2(<<Literal(w), Variable(name)>>, {w}, {})
    BY TwoSay, LiteralsSay
  <1>3. \A words, name, n : Says2(<<OneOf(n, words), Variable(name)>>, words, {})
    BY TwoSay, LiteralsSay
  <1>4. \A w, v : Says3(<<Literal(w), Literal(v)>> \o Resource, {w}, {v}, {})
    BY <1>1, PatternsSay, TwoAndOne
  <1>5. \A words, n : Says2(<<OneOf(n, words)>> \o Partial, words, {"partial"})
    BY PatternsSay, LiteralsSay, OneAndOne
  <1>. QED
    BY <1>1, <1>2, <1>3, <1>4, <1>5, PatternsSay, LiteralsSay, OneAndOne

-----------------------------------------------------------------------------
(* What the entries of the lists are. *)

Is(entry, method, pattern) == entry.method = method /\ entry.pattern = pattern

(* The elements of s stand in u after the first o. *)
Part(u, o, s, n) == \A i \in 1..n : u[o + i] = s[i]

LEMMA EntriesAre ==
    ASSUME NEW p, NEW h
    PROVE  /\ Is(Get(p, h), "GET", p) /\ Is(Pst(p, h), "POST", p)
           /\ Is(Put(p, h), "PUT", p) /\ Is(Del(p, h), "DELETE", p)
  <1>1. ASSUME NEW m, NEW e, e = Entry(m, p, h)
        PROVE  Is(e, m, p)
    <2>1. e.method = m /\ e.pattern = p
      BY <1>1 DEF Entry, Blank
    <2>. QED
      BY <2>1 DEF Is
  <1>. QED
    BY <1>1 DEF Get, Pst, Put, Del

LEMMA FullAndPartialAre ==
    ASSUME NEW p, NEW s, s = FullAndPartial(p)
    PROVE  IsList(s, 2) /\ Is(s[1], "GET", p) /\ Is(s[2], "GET", p \o Partial)
  <1>1. PICK a, b : a = Get(p, "mode.Full") /\ b = Get(p \o Partial, "mode.Partial")
    OBVIOUS
  <1>2. s = <<a, b>>
    BY <1>1 DEF FullAndPartial
  <1>3. s \in Seq({a, b}) /\ Len(s) = 2 /\ s[1] = a /\ s[2] = b
    BY <1>2
  <1>4. Is(a, "GET", p) /\ Is(b, "GET", p \o Partial)
    BY <1>1, EntriesAre
  <1>. QED
    BY <1>3, <1>4 DEF IsList

LEMMA JoinedParts ==
    ASSUME NEW w, NEW s, NEW t, NEW m \in Nat, NEW n \in Nat, IsList(s, m), IsList(t, n),
           NEW l, IsSum(l, m, n), NEW u, Joined(u, s, t), Part(w, 0, u, l)
    PROVE  Part(w, 0, s, m) /\ Part(w, m, t, n)
  <1>1. /\ \A i \in 1..m : u[i] = s[i]
        /\ \A i \in 1..n : u[m + i] = t[i]
    BY ListParts
  <1>2. \A i \in 1..l : w[i] = u[i]
    <2>1. ASSUME NEW i \in 1..l
          PROVE  w[i] = u[i]
      <3>1. w[0 + i] = u[i] /\ 0 + i = i
        BY DEF Part, IsSum
      <3>. QED
        BY <3>1
    <2>. QED
      BY <2>1
  <1>3. ASSUME NEW i \in 1..m
        PROVE  w[0 + i] = s[i]
    <2>1. i \in 1..l /\ 0 + i = i
      BY DEF IsSum
    <2>. QED
      BY <1>1, <1>2, <2>1
  <1>4. ASSUME NEW i \in 1..n
        PROVE  w[m + i] = t[i]
    <2>1. m + i \in 1..l
      BY DEF IsSum
    <2>. QED
      BY <1>1, <1>2, <2>1
  <1>. QED
    BY <1>3, <1>4 DEF Part

LEMMA WholePart == ASSUME NEW w, NEW l \in Nat PROVE Part(w, 0, w, l)
  BY DEF Part

LEMMA ThreeIs ==
    ASSUME NEW a, NEW b, NEW c, NEW s, s = <<a, b, c>>
    PROVE  IsList(s, 3) /\ s[1] = a /\ s[2] = b /\ s[3] = c
  <1>1. s \in Seq({a, b, c}) /\ Len(s) = 3 /\ s[1] = a /\ s[2] = b /\ s[3] = c
    OBVIOUS
  <1>. QED
    BY <1>1 DEF IsList

LEMMA AdminEntries ==
    LET r == AdminRoutes
    IN  /\ Is(r[1], "GET", InAdmin) /\ Is(r[2], "GET", InAdmin \o Partial)
        /\ Is(r[3], "GET", AdminSubs) /\ Is(r[4], "GET", AdminSubs \o Partial)
        /\ Is(r[5], "GET", AdminSubs \o Resource)
        /\ Is(r[6], "GET", (AdminSubs \o Resource) \o Partial)
        /\ Is(r[7], "GET", AdminSubs \o Edit) /\ Is(r[8], "GET", (AdminSubs \o Edit) \o Partial)
        /\ Is(r[9], "PUT", AdminSubs) /\ Is(r[10], "PUT", AdminSubs \o Resource)
        /\ Is(r[11], "DELETE", AdminSubs \o Resource)
  <1>1. PICK a, b, c, d : /\ a = FullAndPartial(InAdmin) /\ b = FullAndPartial(AdminSubs)
                          /\ c = FullAndPartial(AdminSubs \o Resource)
                          /\ d = FullAndPartial(AdminSubs \o Edit)
    OBVIOUS
  <1>2. PICK e : e = << Put(AdminSubs, "mode.Create"), Put(AdminSubs \o Resource, "mode.Update"),
                        Del(AdminSubs \o Resource, "mode.Delete") >>
    OBVIOUS
  <1>3. IsList(a, 2) /\ IsList(b, 2) /\ IsList(c, 2) /\ IsList(d, 2)
    BY <1>1, FullAndPartialAre
  <1>4. /\ IsList(e, 3) /\ Is(e[1], "PUT", AdminSubs) /\ Is(e[2], "PUT", AdminSubs \o Resource)
        /\ Is(e[3], "DELETE", AdminSubs \o Resource)
    BY <1>2, ThreeIs, EntriesAre
  <1>5. PICK u : Joined(u, a, b)
    BY DEF Joined
  <1>6. PICK v : Joined(v, u, c)
    BY DEF Joined
  <1>7. PICK w : Joined(w, v, d)
    BY DEF Joined
  <1>8. IsList(u, 4)
    BY <1>3, <1>5, ListParts, Sums
  <1>9. IsList(v, 6)
    BY <1>3, <1>6, <1>8, ListParts, Sums
  <1>10. IsList(w, 8)
    BY <1>3, <1>7, <1>9, ListParts, Sums
  <1>11. PICK r : Joined(r, w, e)
    BY DEF Joined
  <1>12. r = AdminRoutes
    BY <1>1, <1>2, <1>5, <1>6, <1>7, <1>11 DEF AdminRoutes, Joined
  <1>13. Part(r, 0, w, 8) /\ Part(r, 8, e, 3)
    BY <1>4, <1>10, <1>11, WholePart, JoinedParts, Sums
  <1>14. Part(r, 0, v, 6) /\ Part(r, 6, d, 2)
    BY <1>3, <1>7, <1>9, <1>13, JoinedParts, Sums
  <1>15. Part(r, 0, u, 4) /\ Part(r, 4, c, 2)
    BY <1>3, <1>6, <1>8, <1>14, JoinedParts, Sums
  <1>16. Part(r, 0, a, 2) /\ Part(r, 2, b, 2)
    BY <1>3, <1>5, <1>15, JoinedParts, Sums
  <1>17. r[1] = a[1] /\ r[2] = a[2] /\ r[3] = b[1] /\ r[4] = b[2] /\ r[5] = c[1] /\ r[6] = c[2]
    BY <1>15, <1>16 DEF Part
  <1>18. r[7] = d[1] /\ r[8] = d[2] /\ r[9] = e[1] /\ r[10] = e[2] /\ r[11] = e[3]
    BY <1>13, <1>14 DEF Part
  <1>19. /\ Is(r[1], "GET", InAdmin) /\ Is(r[2], "GET", InAdmin \o Partial)
         /\ Is(r[3], "GET", AdminSubs) /\ Is(r[4], "GET", AdminSubs \o Partial)
         /\ Is(r[5], "GET", AdminSubs \o Resource)
         /\ Is(r[6], "GET", (AdminSubs \o Resource) \o Partial)
         /\ Is(r[7], "GET", AdminSubs \o Edit) /\ Is(r[8], "GET", (AdminSubs \o Edit) \o Partial)
    BY <1>1, <1>17, <1>18, FullAndPartialAre
  <1>. QED
    BY <1>4, <1>12, <1>18, <1>19

LEMMA SixAre ==
    ASSUME NEW a, NEW b, NEW c, NEW d, NEW e, NEW f, NEW s, s = <<a, b, c, d, e, f>>
    PROVE  /\ IsList(s, 6) /\ s[1] = a /\ s[2] = b /\ s[3] = c
           /\ s[4] = d /\ s[5] = e /\ s[6] = f
  <1>1. /\ s \in Seq({a, b, c, d, e, f}) /\ Len(s) = 6 /\ s[1] = a /\ s[2] = b /\ s[3] = c
        /\ s[4] = d /\ s[5] = e /\ s[6] = f
    OBVIOUS
  <1>. QED
    BY <1>1 DEF IsList

LEMMA SevenAre ==
    ASSUME NEW a, NEW b, NEW c, NEW d, NEW e, NEW f, NEW g, NEW s, s = <<a, b, c, d, e, f, g>>
    PROVE  /\ IsList(s, 7) /\ s[1] = a /\ s[2] = b /\ s[3] = c
           /\ s[4] = d /\ s[5] = e /\ s[6] = f /\ s[7] = g
  <1>1. /\ s \in Seq({a, b, c, d, e, f, g}) /\ Len(s) = 7 /\ s[1] = a /\ s[2] = b /\ s[3] = c
        /\ s[4] = d /\ s[5] = e /\ s[6] = f /\ s[7] = g
    OBVIOUS
  <1>. QED
    BY <1>1 DEF IsList

LEMMA AccountEntries ==
    LET r == AccountRoutes
    IN
        /\ Is(r[1], "PUT", <<Literal("switch"), Variable("persona")>>)
        /\ Is(r[2], "DELETE", <<Literal("persona"), Variable("persona")>>)
        /\ Is(r[3], "DELETE", <<Literal("logout")>>)
        /\ Is(r[4], "POST", <<Literal("email")>>)
        /\ Is(r[5], "POST", <<Literal("password")>>)
        /\ Is(r[6], "POST", <<Literal("persona")>>)
        /\ Is(r[7], "DELETE", <<Literal("delete_account")>>)
        /\ Is(r[8], "GET", Modes \o Edit)
        /\ Is(r[9], "GET", (Modes \o Edit) \o Partial)
        /\ Is(r[10], "GET", Repliers \o Reply)
        /\ Is(r[11], "GET", (Repliers \o Reply) \o Partial)
        /\ Is(r[12], "PUT", Modes)
        /\ Is(r[13], "PUT", Modes \o Resource)
        /\ Is(r[14], "DELETE", Modes \o Resource)
        /\ Is(r[15], "GET",
              (Modes \o <<OneOf("section", {"search", "editor"}), Literal("field"), Variable("name")>>) \o Partial)
        /\ Is(r[16], "PUT", <<Literal("account"), Literal("settings")>>)
        /\ Is(r[17], "DELETE", <<Literal("account"), Literal("settings")>> \o Resource)
        /\ Is(r[18], "GET", InAccount)
        /\ Is(r[19], "GET", InAccount \o Partial)
        /\ Is(r[20], "GET", Submodes)
        /\ Is(r[21], "GET", Submodes \o Partial)
        /\ Is(r[22], "GET", Submodes \o Resource)
        /\ Is(r[23], "GET", (Submodes \o Resource) \o Partial)
        /\ Is(r[24], "GET", SubRepliers \o Reply)
        /\ Is(r[25], "GET", (SubRepliers \o Reply) \o Partial)
        /\ Is(r[26], "GET", Submodes \o Edit)
        /\ Is(r[27], "GET", (Submodes \o Edit) \o Partial)
        /\ Is(r[28], "PUT", Submodes)
        /\ Is(r[29], "PUT", Submodes \o Resource)
        /\ Is(r[30], "DELETE", Submodes \o Resource)
  <1>1. PICK a : a = << Put(<<Literal("switch"), Variable("persona")>>, "account.Switch"),
                        Del(<<Literal("persona"), Variable("persona")>>, "account.DeletePersona"),
                        Del(<<Literal("logout")>>, "account.Logout"),
                        Pst(<<Literal("email")>>, "Email"),
                        Pst(<<Literal("password")>>, "Password"),
                        Pst(<<Literal("persona")>>, "Persona"),
                        Del(<<Literal("delete_account")>>, "DeleteAccount") >>
    OBVIOUS
  <1>2. PICK b, c : /\ b = FullAndPartial(Modes \o Edit)
                    /\ c = FullAndPartial(Repliers \o Reply)
    OBVIOUS
  <1>3. PICK d : d = << Put(Modes, "mode.Create"),
                        Put(Modes \o Resource, "mode.Update"),
                        Del(Modes \o Resource, "mode.Delete"),
                        Get(Modes \o <<OneOf("section", {"search", "editor"}), Literal("field"),
                                       Variable("name")>> \o Partial, "mode.Field"),
                        Put(<<Literal("account"), Literal("settings")>>, "account.CreateSettings"),
                        Del(<<Literal("account"), Literal("settings")>> \o Resource,
                            "account.DeleteSettings") >>
    OBVIOUS
  <1>4. PICK e, f, g, h, i : /\ e = FullAndPartial(InAccount)
                             /\ f = FullAndPartial(Submodes)
                             /\ g = FullAndPartial(Submodes \o Resource)
                             /\ h = FullAndPartial(SubRepliers \o Reply)
                             /\ i = FullAndPartial(Submodes \o Edit)
    OBVIOUS
  <1>5. PICK j : j = << Put(Submodes, "mode.Create"),
                        Put(Submodes \o Resource, "mode.Update"),
                        Del(Submodes \o Resource, "mode.Delete") >>
    OBVIOUS
  <1>6. /\ IsList(a, 7)
        /\ Is(a[1], "PUT", <<Literal("switch"), Variable("persona")>>)
        /\ Is(a[2], "DELETE", <<Literal("persona"), Variable("persona")>>)
        /\ Is(a[3], "DELETE", <<Literal("logout")>>)
        /\ Is(a[4], "POST", <<Literal("email")>>)
        /\ Is(a[5], "POST", <<Literal("password")>>)
        /\ Is(a[6], "POST", <<Literal("persona")>>)
        /\ Is(a[7], "DELETE", <<Literal("delete_account")>>)
    BY <1>1, SevenAre, EntriesAre
  <1>7. /\ IsList(d, 6)
        /\ Is(d[1], "PUT", Modes)
        /\ Is(d[2], "PUT", Modes \o Resource)
        /\ Is(d[3], "DELETE", Modes \o Resource)
        /\ Is(d[4], "GET",
              (Modes \o <<OneOf("section", {"search", "editor"}), Literal("field"), Variable("name")>>) \o Partial)
        /\ Is(d[5], "PUT", <<Literal("account"), Literal("settings")>>)
        /\ Is(d[6], "DELETE", <<Literal("account"), Literal("settings")>> \o Resource)
    BY <1>3, SixAre, EntriesAre
  <1>8. /\ IsList(j, 3)
        /\ Is(j[1], "PUT", Submodes)
        /\ Is(j[2], "PUT", Submodes \o Resource)
        /\ Is(j[3], "DELETE", Submodes \o Resource)
    BY <1>5, ThreeIs, EntriesAre
  <1>9. /\ IsList(b, 2) /\ IsList(c, 2) /\ IsList(e, 2) /\ IsList(f, 2)
        /\ IsList(g, 2) /\ IsList(h, 2) /\ IsList(i, 2)
    BY <1>2, <1>4, FullAndPartialAre
  <1>10. PICK k : Joined(k, a, b)
    BY DEF Joined
  <1>11. PICK l : Joined(l, k, c)
    BY DEF Joined
  <1>12. PICK m : Joined(m, l, d)
    BY DEF Joined
  <1>13. PICK n : Joined(n, m, e)
    BY DEF Joined
  <1>14. PICK o : Joined(o, n, f)
    BY DEF Joined
  <1>15. PICK p : Joined(p, o, g)
    BY DEF Joined
  <1>16. PICK q : Joined(q, p, h)
    BY DEF Joined
  <1>17. PICK z : Joined(z, q, i)
    BY DEF Joined
  <1>18. PICK r : Joined(r, z, j)
    BY DEF Joined
  <1>19. r = AccountRoutes
    BY <1>1, <1>2, <1>3, <1>4, <1>5, <1>10, <1>11, <1>12, <1>13, <1>14, <1>15, <1>16, <1>17, <1>18
       DEF AccountRoutes, Joined
  <1>20. IsList(k, 9)
    BY <1>10, <1>6, <1>9, ListParts, Sums
  <1>21. IsList(l, 11)
    BY <1>11, <1>20, <1>9, ListParts, Sums
  <1>22. IsList(m, 17)
    BY <1>12, <1>21, <1>7, ListParts, Sums
  <1>23. IsList(n, 19)
    BY <1>13, <1>22, <1>9, ListParts, Sums
  <1>24. IsList(o, 21)
    BY <1>14, <1>23, <1>9, ListParts, Sums
  <1>25. IsList(p, 23)
    BY <1>15, <1>24, <1>9, ListParts, Sums
  <1>26. IsList(q, 25)
    BY <1>16, <1>25, <1>9, ListParts, Sums
  <1>27. IsList(z, 27)
    BY <1>17, <1>26, <1>9, ListParts, Sums
  <1>28. Part(r, 0, z, 27) /\ Part(r, 27, j, 3)
    BY <1>8, <1>18, <1>27, WholePart, JoinedParts, Sums
  <1>29. Part(r, 0, q, 25) /\ Part(r, 25, i, 2)
    BY <1>9, <1>17, <1>26, <1>28, JoinedParts, Sums
  <1>30. Part(r, 0, p, 23) /\ Part(r, 23, h, 2)
    BY <1>9, <1>16, <1>25, <1>29, JoinedParts, Sums
  <1>31. Part(r, 0, o, 21) /\ Part(r, 21, g, 2)
    BY <1>9, <1>15, <1>24, <1>30, JoinedParts, Sums
  <1>32. Part(r, 0, n, 19) /\ Part(r, 19, f, 2)
    BY <1>9, <1>14, <1>23, <1>31, JoinedParts, Sums
  <1>33. Part(r, 0, m, 17) /\ Part(r, 17, e, 2)
    BY <1>9, <1>13, <1>22, <1>32, JoinedParts, Sums
  <1>34. Part(r, 0, l, 11) /\ Part(r, 11, d, 6)
    BY <1>7, <1>12, <1>21, <1>33, JoinedParts, Sums
  <1>35. Part(r, 0, k, 9) /\ Part(r, 9, c, 2)
    BY <1>9, <1>11, <1>20, <1>34, JoinedParts, Sums
  <1>36. Part(r, 0, a, 7) /\ Part(r, 7, b, 2)
    BY <1>6, <1>9, <1>10, <1>35, JoinedParts, Sums
  <1>37. /\ r[1] = a[1] /\ r[2] = a[2] /\ r[3] = a[3] /\ r[4] = a[4]
        /\ r[5] = a[5] /\ r[6] = a[6] /\ r[7] = a[7]
    BY <1>36 DEF Part
  <1>38. r[8] = b[1] /\ r[9] = b[2]
    BY <1>36 DEF Part
  <1>39. r[10] = c[1] /\ r[11] = c[2]
    BY <1>35 DEF Part
  <1>40. /\ r[12] = d[1] /\ r[13] = d[2] /\ r[14] = d[3] /\ r[15] = d[4]
        /\ r[16] = d[5] /\ r[17] = d[6]
    BY <1>34 DEF Part
  <1>41. r[18] = e[1] /\ r[19] = e[2]
    BY <1>33 DEF Part
  <1>42. r[20] = f[1] /\ r[21] = f[2]
    BY <1>32 DEF Part
  <1>43. r[22] = g[1] /\ r[23] = g[2]
    BY <1>31 DEF Part
  <1>44. r[24] = h[1] /\ r[25] = h[2]
    BY <1>30 DEF Part
  <1>45. r[26] = i[1] /\ r[27] = i[2]
    BY <1>29 DEF Part
  <1>46. r[28] = j[1] /\ r[29] = j[2] /\ r[30] = j[3]
    BY <1>28 DEF Part
  <1>47. Is(r[8], "GET", Modes \o Edit) /\ Is(r[9], "GET", (Modes \o Edit) \o Partial)
    BY <1>2, <1>38, FullAndPartialAre
  <1>48. Is(r[10], "GET", Repliers \o Reply) /\ Is(r[11], "GET", (Repliers \o Reply) \o Partial)
    BY <1>2, <1>39, FullAndPartialAre
  <1>49. Is(r[18], "GET", InAccount) /\ Is(r[19], "GET", InAccount \o Partial)
    BY <1>4, <1>41, FullAndPartialAre
  <1>50. Is(r[20], "GET", Submodes) /\ Is(r[21], "GET", Submodes \o Partial)
    BY <1>4, <1>42, FullAndPartialAre
  <1>51. Is(r[22], "GET", Submodes \o Resource) /\ Is(r[23], "GET", (Submodes \o Resource) \o Partial)
    BY <1>4, <1>43, FullAndPartialAre
  <1>52. Is(r[24], "GET", SubRepliers \o Reply) /\ Is(r[25], "GET", (SubRepliers \o Reply) \o Partial)
    BY <1>4, <1>44, FullAndPartialAre
  <1>53. Is(r[26], "GET", Submodes \o Edit) /\ Is(r[27], "GET", (Submodes \o Edit) \o Partial)
    BY <1>4, <1>45, FullAndPartialAre
  <1>. QED
    BY <1>6, <1>7, <1>8, <1>19, <1>37, <1>40, <1>46,
       <1>47, <1>48, <1>49, <1>50, <1>51, <1>52, <1>53

LEMMA EightAre ==
    ASSUME NEW a, NEW b, NEW c, NEW d, NEW e, NEW f, NEW g, NEW h,
           NEW s, s = <<a, b, c, d, e, f, g, h>>
    PROVE  /\ IsList(s, 8) /\ s[1] = a /\ s[2] = b /\ s[3] = c /\ s[4] = d
           /\ s[5] = e /\ s[6] = f /\ s[7] = g /\ s[8] = h
  <1>1. /\ s \in Seq({a, b, c, d, e, f, g, h}) /\ Len(s) = 8
        /\ s[1] = a /\ s[2] = b /\ s[3] = c /\ s[4] = d
        /\ s[5] = e /\ s[6] = f /\ s[7] = g /\ s[8] = h
    OBVIOUS
  <1>. QED
    BY <1>1 DEF IsList

LEMMA FourteenAre ==
    ASSUME NEW a, NEW b, NEW c, NEW d, NEW e, NEW f, NEW g, NEW h, NEW i, NEW j, NEW k, NEW l,
           NEW m, NEW n, NEW s, s = <<a, b, c, d, e, f, g, h, i, j, k, l, m, n>>
    PROVE  /\ IsList(s, 14)
           /\ s[1] = a /\ s[2] = b /\ s[3] = c /\ s[4] = d /\ s[5] = e /\ s[6] = f /\ s[7] = g
           /\ s[8] = h /\ s[9] = i /\ s[10] = j /\ s[11] = k /\ s[12] = l /\ s[13] = m /\ s[14] = n
  <1>1. s \in Seq({a, b, c, d, e, f, g, h, i, j, k, l, m, n}) /\ Len(s) = 14
    OBVIOUS
  <1>2. /\ s[1] = a /\ s[2] = b /\ s[3] = c /\ s[4] = d /\ s[5] = e /\ s[6] = f /\ s[7] = g
        /\ s[8] = h /\ s[9] = i /\ s[10] = j /\ s[11] = k /\ s[12] = l /\ s[13] = m /\ s[14] = n
    OBVIOUS
  <1>. QED
    BY <1>1, <1>2 DEF IsList

LEMMA BeforeEntries ==
    LET r == Before
    IN  /\ IsList(r, 8)
        /\ Is(r[2], "GET", <<Literal("api"), Literal("event")>> \o Resource)
        /\ Is(r[3], "GET", <<Literal("favicon.ico")>>)
        /\ Is(r[4], "GET", <<Literal("robots.txt")>>)
        /\ Is(r[5], "GET", <<OneOf("", {"gfx", "fonts"}), Variable("file")>>)
        /\ Is(r[6], "GET", <<Literal("user"), Variable("file")>>)
        /\ Is(r[7], "GET", <<OneOf("", {"svg", "js", "css"}), Variable("file")>>)
  <1>1. PICK a, b, c, d, e, f, g, h :
            /\ a = Use("beforeHandler")
            /\ b = Get(<<Literal("api"), Literal("event")>> \o Resource, "api.Event")
            /\ c = Get(<<Literal("favicon.ico")>>, "static.Media")
            /\ d = Get(<<Literal("robots.txt")>>, "static.Robots")
            /\ e = Get(<<OneOf("", {"gfx", "fonts"}), Variable("file")>>, "static.Media")
            /\ f = Get(<<Literal("user"), Variable("file")>>, "static.User")
            /\ g = Get(<<OneOf("", {"svg", "js", "css"}), Variable("file")>>, "static.Handler")
            /\ h = Use("account.Add")
    OBVIOUS
  <1>2. /\ Is(b, "GET", <<Literal("api"), Literal("event")>> \o Resource)
        /\ Is(c, "GET", <<Literal("favicon.ico")>>)
        /\ Is(d, "GET", <<Literal("robots.txt")>>)
        /\ Is(e, "GET", <<OneOf("", {"gfx", "fonts"}), Variable("file")>>)
        /\ Is(f, "GET", <<Literal("user"), Variable("file")>>)
        /\ Is(g, "GET", <<OneOf("", {"svg", "js", "css"}), Variable("file")>>)
    BY <1>1, EntriesAre
  <1>3. PICK r : r = <<a, b, c, d, e, f, g, h>>
    OBVIOUS
  <1>4. /\ IsList(r, 8)
        /\ r[1] = a /\ r[2] = b /\ r[3] = c /\ r[4] = d
        /\ r[5] = e /\ r[6] = f /\ r[7] = g /\ r[8] = h
    BY <1>3, EightAre
  <1>5. r = Before
    BY <1>1, <1>3 DEF Before
  <1>. QED
    BY <1>2, <1>4, <1>5

LEMMA PageEntries ==
    LET r == PagesAndModals
    IN  /\ IsList(r, 14)
        /\ Is(r[1], "GET", <<OneOf("page", {""})>>)
        /\ Is(r[2], "GET", <<OneOf("page", {"home", ""})>> \o Partial)
        /\ Is(r[3], "GET", Modals)
        /\ Is(r[4], "GET", Modals \o Partial)
        /\ Is(r[5], "POST", <<Literal("register")>>)
        /\ Is(r[6], "POST", <<Literal("login")>>)
        /\ Is(r[7], "POST", <<Literal("forgot")>>)
        /\ Is(r[8], "POST", <<Literal("mailing")>>)
        /\ Is(r[9], "POST", <<Literal("reserve")>>)
        /\ Is(r[10], "POST", Confirms \o <<Literal("confirm")>>)
        /\ Is(r[11], "GET", AccModals)
        /\ Is(r[12], "GET", AccModals \o Partial)
        /\ Is(r[13], "GET", Confirms \o <<Variable("code")>>)
        /\ Is(r[14], "GET", <<OneOf("kind", {"reserve_handle"}), Variable("code")>>)
  <1>1. PICK a, b, c, d, e :
            /\ a = Get(<<OneOf("page", {""})>>, "page.Full")
            /\ b = Get(<<OneOf("page", {"home", ""})>> \o Partial, "page.Partial")
            /\ c = Get(Modals, "modal.Full")
            /\ d = Get(Modals \o Partial, "modal.Partial")
            /\ e = Pst(<<Literal("register")>>, "Register")
    OBVIOUS
  <1>2. /\ Is(a, "GET", <<OneOf("page", {""})>>)
        /\ Is(b, "GET", <<OneOf("page", {"home", ""})>> \o Partial)
        /\ Is(c, "GET", Modals)
        /\ Is(d, "GET", Modals \o Partial)
        /\ Is(e, "POST", <<Literal("register")>>)
    BY <1>1, EntriesAre
  <1>3. PICK f, g, h, i, j :
            /\ f = Pst(<<Literal("login")>>, "Login")
            /\ g = Pst(<<Literal("forgot")>>, "ForgotPassword")
            /\ h = Pst(<<Literal("mailing")>>, "Mailing")
            /\ i = Pst(<<Literal("reserve")>>, "Reserve")
            /\ j = Pst(Confirms \o <<Literal("confirm")>>, "ConfirmPartial")
    OBVIOUS
  <1>4. /\ Is(f, "POST", <<Literal("login")>>)
        /\ Is(g, "POST", <<Literal("forgot")>>)
        /\ Is(h, "POST", <<Literal("mailing")>>)
        /\ Is(i, "POST", <<Literal("reserve")>>)
        /\ Is(j, "POST", Confirms \o <<Literal("confirm")>>)
    BY <1>3, EntriesAre
  <1>5. PICK k, l, m, n :
            /\ k = Get(AccModals, "modal.Full")
            /\ l = Get(AccModals \o Partial, "modal.Partial")
            /\ m = Get(Confirms \o <<Variable("code")>>, "ConfirmFull")
            /\ n = Get(<<OneOf("kind", {"reserve_handle"}), Variable("code")>>, "ConfirmFull")
    OBVIOUS
  <1>6. /\ Is(k, "GET", AccModals)
        /\ Is(l, "GET", AccModals \o Partial)
        /\ Is(m, "GET", Confirms \o <<Variable("code")>>)
        /\ Is(n, "GET", <<OneOf("kind", {"reserve_handle"}), Variable("code")>>)
    BY <1>5, EntriesAre
  <1>7. PICK r : r = <<a, b, c, d, e, f, g, h, i, j, k, l, m, n>>
    OBVIOUS
  <1>8. /\ IsList(r, 14)
        /\ r[1] = a /\ r[2] = b /\ r[3] = c /\ r[4] = d /\ r[5] = e /\ r[6] = f /\ r[7] = g
        /\ r[8] = h /\ r[9] = i /\ r[10] = j /\ r[11] = k /\ r[12] = l /\ r[13] = m /\ r[14] = n
    BY <1>7, FourteenAre
  <1>9. r = PagesAndModals
    BY <1>1, <1>3, <1>5, <1>7 DEF PagesAndModals
  <1>. QED
    BY <1>2, <1>4, <1>6, <1>8, <1>9

LEMMA PublicEntries ==
    LET r == PublicModes
    IN  /\ IsList(r, 4)
        /\ Is(r[1], "GET", Modes) /\ Is(r[2], "GET", Modes \o Partial)
        /\ Is(r[3], "GET", Modes \o Resource) /\ Is(r[4], "GET", (Modes \o Resource) \o Partial)
  <1>1. PICK a, b : a = FullAndPartial(Modes) /\ b = FullAndPartial(Modes \o Resource)
    OBVIOUS
  <1>2. PICK r : Joined(r, a, b)
    BY DEF Joined
  <1>3. r = PublicModes
    BY <1>1, <1>2 DEF PublicModes, Joined
  <1>4. IsList(a, 2) /\ IsList(b, 2)
    BY <1>1, FullAndPartialAre
  <1>5. IsList(r, 4)
    BY <1>2, <1>4, ListParts, Sums
  <1>6. Part(r, 0, a, 2) /\ Part(r, 2, b, 2)
    BY <1>2, <1>4, WholePart, JoinedParts, Sums
  <1>7. r[1] = a[1] /\ r[2] = a[2] /\ r[3] = b[1] /\ r[4] = b[2]
    BY <1>6 DEF Part
  <1>8. /\ Is(r[1], "GET", Modes) /\ Is(r[2], "GET", Modes \o Partial)
        /\ Is(r[3], "GET", Modes \o Resource) /\ Is(r[4], "GET", (Modes \o Resource) \o Partial)
    BY <1>1, <1>7, FullAndPartialAre
  <1>. QED
    BY <1>3, <1>5, <1>8

(* Where the lists stand in the table. *)
LEMMA TableParts ==
    /\ Part(MustRoutes, 0, Before, 8) /\ Part(MustRoutes, 8, PagesAndModals, 14)
    /\ Part(MustRoutes, 22, PublicModes, 4)
    /\ MustRoutes[27].route = AccountRoutes /\ MustRoutes[28].route = AdminRoutes
  <1>1. PICK b, p, q : b = Before /\ p = PagesAndModals /\ q = PublicModes
    OBVIOUS
  <1>2. PICK c, d : c = Group("", "HasNone", AccountRoutes) /\ d = Group("NotAdmin", "", AdminRoutes)
    OBVIOUS
  <1>3. PICK g : g = <<c, d>>
    OBVIOUS
  <1>4. IsList(b, 8) /\ IsList(p, 14) /\ IsList(q, 4)
    BY <1>1, BeforeEntries, PageEntries, PublicEntries
  <1>5. IsList(g, 2) /\ g[1] = c /\ g[2] = d
    <2>1. g \in Seq({c, d}) /\ Len(g) = 2 /\ g[1] = c /\ g[2] = d
      BY <1>3
    <2>. QED
      BY <2>1 DEF IsList
  <1>6. PICK s : Joined(s, b, p)
    BY DEF Joined
  <1>7. PICK t : Joined(t, s, q)
    BY DEF Joined
  <1>8. PICK u : Joined(u, t, g)
    BY DEF Joined
  <1>9. u = MustRoutes
    <2>1. u = ((b \o p) \o q) \o g
      BY <1>6, <1>7, <1>8 DEF Joined
    <2>. QED
      BY <1>1, <1>2, <1>3, <2>1 DEF MustRoutes
  <1>10. IsSum(22, 8, 14) /\ IsSum(26, 22, 4) /\ IsSum(28, 26, 2)
    BY DEF IsSum
  <1>11. IsList(s, 22)
    BY <1>4, <1>6, <1>10, ListParts
  <1>12. IsList(t, 26)
    BY <1>4, <1>7, <1>10, <1>11, ListParts
  <1>13. Part(u, 0, t, 26) /\ Part(u, 26, g, 2)
    BY <1>5, <1>8, <1>10, <1>12, WholePart, JoinedParts
  <1>14. Part(u, 0, s, 22) /\ Part(u, 22, q, 4)
    BY <1>4, <1>7, <1>10, <1>11, <1>13, JoinedParts
  <1>15. Part(u, 0, b, 8) /\ Part(u, 8, p, 14)
    BY <1>4, <1>6, <1>10, <1>14, JoinedParts
  <1>16. u[27] = c /\ u[28] = d
    <2>1. u[26 + 1] = g[1] /\ u[26 + 2] = g[2]
      BY <1>13 DEF Part
    <2>. QED
      BY <1>5, <2>1
  <1>17. c.route = AccountRoutes /\ d.route = AdminRoutes
    <2>1. ASSUME NEW x, NEW y, NEW r
          PROVE  Group(x, y, r).route = r
      BY DEF Group, Blank
    <2>. QED
      BY <1>2, <2>1
  <1>. QED
    BY <1>1, <1>9, <1>14, <1>15, <1>16, <1>17

-----------------------------------------------------------------------------
(* What the entries ask of a request. *)

Asks1(e, m, a) == e.method = m /\ Says1(e.pattern, a)
Asks2(e, m, a, b) == e.method = m /\ Says2(e.pattern, a, b)
Asks3(e, m, a, b, c) == e.method = m /\ Says3(e.pattern, a, b, c)
Asks4(e, m, a, b, c, d) == e.method = m /\ Says4(e.pattern, a, b, c, d)
Asks5(e, m, a, b, c, d, f) == e.method = m /\ Says5(e.pattern, a, b, c, d, f)

LEMMA Asking ==
    ASSUME NEW e, NEW m, NEW p, Is(e, m, p)
    PROVE  /\ \A a : Says1(p, a) => Asks1(e, m, a)
           /\ \A a, b : Says2(p, a, b) => Asks2(e, m, a, b)
           /\ \A a, b, c : Says3(p, a, b, c) => Asks3(e, m, a, b, c)
           /\ \A a, b, c, d : Says4(p, a, b, c, d) => Asks4(e, m, a, b, c, d)
           /\ \A a, b, c, d, f : Says5(p, a, b, c, d, f) => Asks5(e, m, a, b, c, d, f)
  BY DEF Is, Asks1, Asks2, Asks3, Asks4, Asks5

LEMMA BeforeAsks ==
    /\ Asks3(MustRoutes[2], "GET", {"api"}, {"event"}, {})
    /\ Asks1(MustRoutes[3], "GET", {"favicon.ico"})
    /\ Asks1(MustRoutes[4], "GET", {"robots.txt"})
    /\ Asks2(MustRoutes[5], "GET", {"gfx", "fonts"}, {})
    /\ Asks2(MustRoutes[6], "GET", {"user"}, {})
    /\ Asks2(MustRoutes[7], "GET", {"svg", "js", "css"}, {})
  <1>1. PICK r : r = Before
    OBVIOUS
  <1>2. /\ MustRoutes[2] = r[2] /\ MustRoutes[3] = r[3] /\ MustRoutes[4] = r[4]
        /\ MustRoutes[5] = r[5] /\ MustRoutes[6] = r[6] /\ MustRoutes[7] = r[7]
    BY <1>1, TableParts DEF Part
  <1>3. /\ Asks3(r[2], "GET", {"api"}, {"event"}, {})
        /\ Asks1(r[3], "GET", {"favicon.ico"})
        /\ Asks1(r[4], "GET", {"robots.txt"})
    BY <1>1, BeforeEntries, Asking, WordsSay, LiteralsSay
  <1>4. /\ Asks2(r[5], "GET", {"gfx", "fonts"}, {})
        /\ Asks2(r[6], "GET", {"user"}, {})
        /\ Asks2(r[7], "GET", {"svg", "js", "css"}, {})
    BY <1>1, BeforeEntries, Asking, WordsSay
  <1>. QED
    BY <1>2, <1>3, <1>4

LEMMA PagesAsk ==
    /\ Asks1(MustRoutes[9], "GET", Roots)
    /\ Asks2(MustRoutes[10], "GET", Homes, {"partial"})
    /\ Asks1(MustRoutes[11], "GET", ModalWords)
    /\ Asks2(MustRoutes[12], "GET", ModalWords, {"partial"})
    /\ Asks1(MustRoutes[13], "POST", {"register"})
    /\ Asks1(MustRoutes[14], "POST", {"login"})
    /\ Asks1(MustRoutes[15], "POST", {"forgot"})
    /\ Asks1(MustRoutes[16], "POST", {"mailing"})
    /\ Asks1(MustRoutes[17], "POST", {"reserve"})
    /\ Asks2(MustRoutes[18], "POST", ConfirmWords, {"confirm"})
    /\ Asks1(MustRoutes[19], "GET", AccModalWords)
    /\ Asks2(MustRoutes[20], "GET", AccModalWords, {"partial"})
    /\ Asks2(MustRoutes[21], "GET", ConfirmWords, {})
    /\ Asks2(MustRoutes[22], "GET", {"reserve_handle"}, {})
  <1>1. PICK r : r = PagesAndModals
    OBVIOUS
  <1>2. /\ MustRoutes[9] = r[1] /\ MustRoutes[10] = r[2] /\ MustRoutes[11] = r[3]
        /\ MustRoutes[12] = r[4] /\ MustRoutes[13] = r[5] /\ MustRoutes[14] = r[6]
        /\ MustRoutes[15] = r[7] /\ MustRoutes[16] = r[8] /\ MustRoutes[17] = r[9]
        /\ MustRoutes[18] = r[10] /\ MustRoutes[19] = r[11] /\ MustRoutes[20] = r[12]
        /\ MustRoutes[21] = r[13] /\ MustRoutes[22] = r[14]
    BY <1>1, TableParts DEF Part
  <1>3. /\ Asks1(r[1], "GET", Roots)
        /\ Asks2(r[2], "GET", Homes, {"partial"})
        /\ Asks1(r[3], "GET", ModalWords)
        /\ Asks2(r[4], "GET", ModalWords, {"partial"})
    BY <1>1, PageEntries, Asking, WordsSay, LiteralsSay, PatternsSay, AfterOne DEF Roots, Homes
  <1>4. /\ Asks1(r[5], "POST", {"register"})
        /\ Asks1(r[6], "POST", {"login"})
        /\ Asks1(r[7], "POST", {"forgot"})
        /\ Asks1(r[8], "POST", {"mailing"})
        /\ Asks1(r[9], "POST", {"reserve"})
    BY <1>1, PageEntries, Asking, LiteralsSay
  <1>5. /\ Asks2(r[10], "POST", ConfirmWords, {"confirm"})
        /\ Asks1(r[11], "GET", AccModalWords)
        /\ Asks2(r[12], "GET", AccModalWords, {"partial"})
        /\ Asks2(r[13], "GET", ConfirmWords, {})
        /\ Asks2(r[14], "GET", {"reserve_handle"}, {})
    BY <1>1, PageEntries, Asking, WordsSay, PatternsSay, AfterOne
  <1>. QED
    BY <1>2, <1>3, <1>4, <1>5

LEMMA ModesAsk ==
    /\ Asks1(MustRoutes[23], "GET", ModeNames)
    /\ Asks2(MustRoutes[24], "GET", ModeNames, {"partial"})
    /\ Asks2(MustRoutes[25], "GET", ModeNames, {})
    /\ Asks3(MustRoutes[26], "GET", ModeNames, {}, {"partial"})
  <1>1. PICK r : r = PublicModes
    OBVIOUS
  <1>2. /\ MustRoutes[23] = r[1] /\ MustRoutes[24] = r[2] /\ MustRoutes[25] = r[3]
        /\ MustRoutes[26] = r[4]
    BY <1>1, TableParts DEF Part
  <1>3. /\ Asks1(r[1], "GET", ModeNames)
        /\ Asks2(r[2], "GET", ModeNames, {"partial"})
        /\ Asks2(r[3], "GET", ModeNames, {})
        /\ Asks3(r[4], "GET", ModeNames, {}, {"partial"})
    BY <1>1, PublicEntries, Asking, PatternsSay, AfterOne
  <1>. QED
    BY <1>2, <1>3

LEMMA AccountAsks ==
    /\ Asks2(MustRoutes[27].route[1], "PUT", {"switch"}, {})
    /\ Asks2(MustRoutes[27].route[2], "DELETE", {"persona"}, {})
    /\ Asks1(MustRoutes[27].route[3], "DELETE", {"logout"})
    /\ Asks1(MustRoutes[27].route[4], "POST", {"email"})
    /\ Asks1(MustRoutes[27].route[5], "POST", {"password"})
    /\ Asks1(MustRoutes[27].route[6], "POST", {"persona"})
    /\ Asks1(MustRoutes[27].route[7], "DELETE", {"delete_account"})
    /\ Asks3(MustRoutes[27].route[8], "GET", ModeNames, {}, {"edit"})
    /\ Asks4(MustRoutes[27].route[9], "GET", ModeNames, {}, {"edit"}, {"partial"})
    /\ Asks3(MustRoutes[27].route[10], "GET", {"forums"}, {}, {"reply"})
    /\ Asks4(MustRoutes[27].route[11], "GET", {"forums"}, {}, {"reply"}, {"partial"})
    /\ Asks1(MustRoutes[27].route[12], "PUT", ModeNames)
    /\ Asks2(MustRoutes[27].route[13], "PUT", ModeNames, {})
    /\ Asks2(MustRoutes[27].route[14], "DELETE", ModeNames, {})
    /\ Asks5(MustRoutes[27].route[15], "GET", ModeNames, {"search", "editor"}, {"field"}, {}, {"partial"})
    /\ Asks2(MustRoutes[27].route[16], "PUT", {"account"}, {"settings"})
    /\ Asks3(MustRoutes[27].route[17], "DELETE", {"account"}, {"settings"}, {})
    /\ Asks1(MustRoutes[27].route[18], "GET", {"account"})
    /\ Asks2(MustRoutes[27].route[19], "GET", {"account"}, {"partial"})
    /\ Asks2(MustRoutes[27].route[20], "GET", {"account"}, SubNames)
    /\ Asks3(MustRoutes[27].route[21], "GET", {"account"}, SubNames, {"partial"})
    /\ Asks3(MustRoutes[27].route[22], "GET", {"account"}, SubNames, {})
    /\ Asks4(MustRoutes[27].route[23], "GET", {"account"}, SubNames, {}, {"partial"})
    /\ Asks4(MustRoutes[27].route[24], "GET", {"account"}, {"forums"}, {}, {"reply"})
    /\ Asks5(MustRoutes[27].route[25], "GET", {"account"}, {"forums"}, {}, {"reply"}, {"partial"})
    /\ Asks4(MustRoutes[27].route[26], "GET", {"account"}, SubNames, {}, {"edit"})
    /\ Asks5(MustRoutes[27].route[27], "GET", {"account"}, SubNames, {}, {"edit"}, {"partial"})
    /\ Asks2(MustRoutes[27].route[28], "PUT", {"account"}, SubNames)
    /\ Asks3(MustRoutes[27].route[29], "PUT", {"account"}, SubNames, {})
    /\ Asks3(MustRoutes[27].route[30], "DELETE", {"account"}, SubNames, {})
  <1>1. PICK r : r = AccountRoutes
    OBVIOUS
  <1>2. /\ MustRoutes[27].route[1] = r[1] /\ MustRoutes[27].route[2] = r[2] /\ MustRoutes[27].route[3] = r[3]
        /\ MustRoutes[27].route[4] = r[4] /\ MustRoutes[27].route[5] = r[5] /\ MustRoutes[27].route[6] = r[6]
        /\ MustRoutes[27].route[7] = r[7] /\ MustRoutes[27].route[8] = r[8] /\ MustRoutes[27].route[9] = r[9]
        /\ MustRoutes[27].route[10] = r[10] /\ MustRoutes[27].route[11] = r[11] /\ MustRoutes[27].route[12] = r[12]
        /\ MustRoutes[27].route[13] = r[13] /\ MustRoutes[27].route[14] = r[14] /\ MustRoutes[27].route[15] = r[15]
        /\ MustRoutes[27].route[16] = r[16] /\ MustRoutes[27].route[17] = r[17] /\ MustRoutes[27].route[18] = r[18]
        /\ MustRoutes[27].route[19] = r[19] /\ MustRoutes[27].route[20] = r[20] /\ MustRoutes[27].route[21] = r[21]
        /\ MustRoutes[27].route[22] = r[22] /\ MustRoutes[27].route[23] = r[23] /\ MustRoutes[27].route[24] = r[24]
        /\ MustRoutes[27].route[25] = r[25] /\ MustRoutes[27].route[26] = r[26] /\ MustRoutes[27].route[27] = r[27]
        /\ MustRoutes[27].route[28] = r[28] /\ MustRoutes[27].route[29] = r[29] /\ MustRoutes[27].route[30] = r[30]
    BY <1>1, TableParts
  <1>3. /\ Asks2(r[1], "PUT", {"switch"}, {})
        /\ Asks2(r[2], "DELETE", {"persona"}, {})
    BY <1>1, AccountEntries, Asking, WordsSay
  <1>4. /\ Asks1(r[3], "DELETE", {"logout"})
        /\ Asks1(r[4], "POST", {"email"})
        /\ Asks1(r[5], "POST", {"password"})
        /\ Asks1(r[6], "POST", {"persona"})
        /\ Asks1(r[7], "DELETE", {"delete_account"})
    BY <1>1, AccountEntries, Asking, LiteralsSay
  <1>5. /\ Asks3(r[8], "GET", ModeNames, {}, {"edit"})
        /\ Asks4(r[9], "GET", ModeNames, {}, {"edit"}, {"partial"})
        /\ Asks3(r[10], "GET", {"forums"}, {}, {"reply"})
        /\ Asks4(r[11], "GET", {"forums"}, {}, {"reply"}, {"partial"})
    BY <1>1, AccountEntries, Asking, PatternsSay, AfterOne
  <1>6. /\ Asks1(r[12], "PUT", ModeNames)
        /\ Asks2(r[13], "PUT", ModeNames, {})
        /\ Asks2(r[14], "DELETE", ModeNames, {})
        /\ Asks5(r[15], "GET", ModeNames, {"search", "editor"}, {"field"}, {}, {"partial"})
    BY <1>1, AccountEntries, Asking, PatternsSay, AfterOne, FieldSays
  <1>7. /\ Asks2(r[16], "PUT", {"account"}, {"settings"})
        /\ Asks3(r[17], "DELETE", {"account"}, {"settings"}, {})
    BY <1>1, AccountEntries, Asking, WordsSay
  <1>8. /\ Asks1(r[18], "GET", {"account"})
        /\ Asks2(r[19], "GET", {"account"}, {"partial"})
    BY <1>1, AccountEntries, Asking, PatternsSay, AfterOne
  <1>9. /\ Asks2(r[20], "GET", {"account"}, SubNames)
        /\ Asks3(r[21], "GET", {"account"}, SubNames, {"partial"})
        /\ Asks3(r[22], "GET", {"account"}, SubNames, {})
        /\ Asks4(r[23], "GET", {"account"}, SubNames, {}, {"partial"})
    BY <1>1, AccountEntries, Asking, LongerPatternsSay, AfterTwo
  <1>10. /\ Asks4(r[24], "GET", {"account"}, {"forums"}, {}, {"reply"})
        /\ Asks5(r[25], "GET", {"account"}, {"forums"}, {}, {"reply"}, {"partial"})
        /\ Asks4(r[26], "GET", {"account"}, SubNames, {}, {"edit"})
        /\ Asks5(r[27], "GET", {"account"}, SubNames, {}, {"edit"}, {"partial"})
    BY <1>1, AccountEntries, Asking, LongerPatternsSay, AfterTwo
  <1>11. /\ Asks2(r[28], "PUT", {"account"}, SubNames)
        /\ Asks3(r[29], "PUT", {"account"}, SubNames, {})
        /\ Asks3(r[30], "DELETE", {"account"}, SubNames, {})
    BY <1>1, AccountEntries, Asking, LongerPatternsSay, AfterTwo
  <1>. QED
    BY <1>2, <1>3, <1>4, <1>5, <1>6, <1>7, <1>8, <1>9, <1>10, <1>11

LEMMA AdminAsks ==
    /\ Asks1(MustRoutes[28].route[1], "GET", {"admin"})
    /\ Asks2(MustRoutes[28].route[2], "GET", {"admin"}, {"partial"})
    /\ Asks2(MustRoutes[28].route[3], "GET", {"admin"}, ModeNames)
    /\ Asks3(MustRoutes[28].route[4], "GET", {"admin"}, ModeNames, {"partial"})
    /\ Asks3(MustRoutes[28].route[5], "GET", {"admin"}, ModeNames, {})
    /\ Asks4(MustRoutes[28].route[6], "GET", {"admin"}, ModeNames, {}, {"partial"})
    /\ Asks4(MustRoutes[28].route[7], "GET", {"admin"}, ModeNames, {}, {"edit"})
    /\ Asks5(MustRoutes[28].route[8], "GET", {"admin"}, ModeNames, {}, {"edit"}, {"partial"})
    /\ Asks2(MustRoutes[28].route[9], "PUT", {"admin"}, ModeNames)
    /\ Asks3(MustRoutes[28].route[10], "PUT", {"admin"}, ModeNames, {})
    /\ Asks3(MustRoutes[28].route[11], "DELETE", {"admin"}, ModeNames, {})
  <1>1. PICK r : r = AdminRoutes
    OBVIOUS
  <1>2. /\ MustRoutes[28].route[1] = r[1] /\ MustRoutes[28].route[2] = r[2] /\ MustRoutes[28].route[3] = r[3]
        /\ MustRoutes[28].route[4] = r[4] /\ MustRoutes[28].route[5] = r[5] /\ MustRoutes[28].route[6] = r[6]
        /\ MustRoutes[28].route[7] = r[7] /\ MustRoutes[28].route[8] = r[8] /\ MustRoutes[28].route[9] = r[9]
        /\ MustRoutes[28].route[10] = r[10] /\ MustRoutes[28].route[11] = r[11]
    BY <1>1, TableParts
  <1>3. /\ Asks1(r[1], "GET", {"admin"})
        /\ Asks2(r[2], "GET", {"admin"}, {"partial"})
    BY <1>1, AdminEntries, Asking, PatternsSay, AfterOne
  <1>4. /\ Asks2(r[3], "GET", {"admin"}, ModeNames)
        /\ Asks3(r[4], "GET", {"admin"}, ModeNames, {"partial"})
        /\ Asks3(r[5], "GET", {"admin"}, ModeNames, {})
        /\ Asks4(r[6], "GET", {"admin"}, ModeNames, {}, {"partial"})
        /\ Asks4(r[7], "GET", {"admin"}, ModeNames, {}, {"edit"})
        /\ Asks5(r[8], "GET", {"admin"}, ModeNames, {}, {"edit"}, {"partial"})
    BY <1>1, AdminEntries, Asking, LongerPatternsSay, AfterTwo
  <1>5. /\ Asks2(r[9], "PUT", {"admin"}, ModeNames)
        /\ Asks3(r[10], "PUT", {"admin"}, ModeNames, {})
        /\ Asks3(r[11], "DELETE", {"admin"}, ModeNames, {})
    BY <1>1, AdminEntries, Asking, LongerPatternsSay, AfterTwo
  <1>. QED
    BY <1>2, <1>3, <1>4, <1>5

-----------------------------------------------------------------------------
(* What is known of a request that an entry describes: its method, the     *)
(* number of its segments, its first segment, and the segment that tells   *)
(* the entry from its neighbours.                                          *)

(* A request of this method and length, with its first segment in words. *)
Form(q, m, n, words) == q.method = m /\ Len(q.path) = n /\ q.path[1] \in words

BeforeWords == {"api", "favicon.ico", "robots.txt", "gfx", "fonts", "user", "svg", "js", "css"}
PageWords ==
    Homes \cup {"reserve_handle", "switch", "logout"} \cup ModalWords \cup AccModalWords

BeforeKey(i, q) ==
    /\ i = 2 => Form(q, "GET", 3, {"api"})
    /\ i = 3 => Form(q, "GET", 1, {"favicon.ico"})
    /\ i = 4 => Form(q, "GET", 1, {"robots.txt"})
    /\ i = 5 => Form(q, "GET", 2, {"gfx", "fonts"})
    /\ i = 6 => Form(q, "GET", 2, {"user"})
    /\ i = 7 => Form(q, "GET", 2, {"svg", "js", "css"})

PageKey(i, q) ==
    /\ i = 9 => Form(q, "GET", 1, Roots)
    /\ i = 10 => Form(q, "GET", 2, Homes)
    /\ i = 11 => Form(q, "GET", 1, ModalWords)
    /\ i = 12 => Form(q, "GET", 2, ModalWords)
    /\ i = 13 => Form(q, "POST", 1, {"register"})
    /\ i = 14 => Form(q, "POST", 1, {"login"})
    /\ i = 15 => Form(q, "POST", 1, {"forgot"})
    /\ i = 16 => Form(q, "POST", 1, {"mailing"})
    /\ i = 17 => Form(q, "POST", 1, {"reserve"})
    /\ i = 18 => Form(q, "POST", 2, ConfirmWords)
    /\ i = 19 => Form(q, "GET", 1, AccModalWords)
    /\ i = 20 => Form(q, "GET", 2, AccModalWords)
    /\ i = 21 => Form(q, "GET", 2, ConfirmWords)
    /\ i = 22 => Form(q, "GET", 2, {"reserve_handle"})

ModeKey(i, q) ==
    /\ i = 23 => Form(q, "GET", 1, ModeNames)
    /\ i = 24 => Form(q, "GET", 2, ModeNames) /\ q.path[2] \in {"partial"}
    /\ i = 25 => Form(q, "GET", 2, ModeNames)
    /\ i = 26 => Form(q, "GET", 3, ModeNames) /\ q.path[3] \in {"partial"}

AccountWordKey(i, q) ==
    /\ i = 1 => Form(q, "PUT", 2, {"switch"})
    /\ i = 2 => Form(q, "DELETE", 2, {"persona"})
    /\ i = 3 => Form(q, "DELETE", 1, {"logout"})
    /\ i = 4 => Form(q, "POST", 1, {"email"})
    /\ i = 5 => Form(q, "POST", 1, {"password"})
    /\ i = 6 => Form(q, "POST", 1, {"persona"})
    /\ i = 7 => Form(q, "DELETE", 1, {"delete_account"})

AccountModeKey(i, q) ==
    /\ i = 8 => Form(q, "GET", 3, ModeNames) /\ q.path[3] \in {"edit"}
    /\ i = 9 => Form(q, "GET", 4, ModeNames) /\ q.path[3] \in {"edit"}
    /\ i = 10 => Form(q, "GET", 3, {"forums"}) /\ q.path[3] \in {"reply"}
    /\ i = 11 => Form(q, "GET", 4, {"forums"}) /\ q.path[3] \in {"reply"}
    /\ i = 12 => Form(q, "PUT", 1, ModeNames)
    /\ i = 13 => Form(q, "PUT", 2, ModeNames)
    /\ i = 14 => Form(q, "DELETE", 2, ModeNames)
    /\ i = 15 => Form(q, "GET", 5, ModeNames)

AccountPageKey(i, q) ==
    /\ i = 16 => Form(q, "PUT", 2, {"account"})
    /\ i = 17 => Form(q, "DELETE", 3, {"account"})
    /\ i = 18 => Form(q, "GET", 1, {"account"})
    /\ i = 19 => Form(q, "GET", 2, {"account"}) /\ q.path[2] \in {"partial"}
    /\ i = 20 => Form(q, "GET", 2, {"account"}) /\ q.path[2] \in SubNames
    /\ i = 21 => Form(q, "GET", 3, {"account"}) /\ q.path[3] \in {"partial"}
    /\ i = 22 => Form(q, "GET", 3, {"account"})
    /\ i = 23 => Form(q, "GET", 4, {"account"}) /\ q.path[4] \in {"partial"}
    /\ i = 24 => Form(q, "GET", 4, {"account"}) /\ q.path[4] \in {"reply"}
    /\ i = 25 => Form(q, "GET", 5, {"account"}) /\ q.path[4] \in {"reply"}
    /\ i = 26 => Form(q, "GET", 4, {"account"}) /\ q.path[4] \in {"edit"}
    /\ i = 27 => Form(q, "GET", 5, {"account"}) /\ q.path[4] \in {"edit"}
    /\ i = 28 => Form(q, "PUT", 2, {"account"})
    /\ i = 29 => Form(q, "PUT", 3, {"account"})
    /\ i = 30 => Form(q, "DELETE", 3, {"account"})

AdminKey(i, q) ==
    /\ i = 1 => Form(q, "GET", 1, {"admin"})
    /\ i = 2 => Form(q, "GET", 2, {"admin"}) /\ q.path[2] \in {"partial"}
    /\ i = 3 => Form(q, "GET", 2, {"admin"}) /\ q.path[2] \in ModeNames
    /\ i = 4 => Form(q, "GET", 3, {"admin"}) /\ q.path[3] \in {"partial"}
    /\ i = 5 => Form(q, "GET", 3, {"admin"})
    /\ i = 6 => Form(q, "GET", 4, {"admin"}) /\ q.path[4] \in {"partial"}
    /\ i = 7 => Form(q, "GET", 4, {"admin"}) /\ q.path[4] \in {"edit"}
    /\ i = 8 => Form(q, "GET", 5, {"admin"})
    /\ i = 9 => Form(q, "PUT", 2, {"admin"})
    /\ i = 10 => Form(q, "PUT", 3, {"admin"})
    /\ i = 11 => Form(q, "DELETE", 3, {"admin"})

LEMMA Asked1 ==
    ASSUME NEW q \in Requests, NEW e, Describes(e, q), NEW m, NEW a,
           a # {}, Asks1(e, m, a)
    PROVE  Form(q, m, 1, a)
  <1>1. PICK p, path : p = e.pattern /\ path = q.path
    OBVIOUS
  <1>2. Len(path) \in Nat /\ DOMAIN path = 1..Len(path)
    BY <1>1, PathIs
  <1>3. /\ e.method = q.method /\ Len(p) = Len(path)
        /\ \A i \in 1..Len(path) : p[i].matches # {} => path[i] \in p[i].matches
    BY <1>1, <1>2 DEF Describes, Accepts
  <1>. QED
    BY <1>1, <1>2, <1>3 DEF Asks1, Says1, IsList, Form

LEMMA Asked2 ==
    ASSUME NEW q \in Requests, NEW e, Describes(e, q), NEW m, NEW a, NEW b,
           a # {}, Asks2(e, m, a, b)
    PROVE  Form(q, m, 2, a) /\ (b # {} => q.path[2] \in b)
  <1>1. PICK p, path : p = e.pattern /\ path = q.path
    OBVIOUS
  <1>2. Len(path) \in Nat /\ DOMAIN path = 1..Len(path)
    BY <1>1, PathIs
  <1>3. /\ e.method = q.method /\ Len(p) = Len(path)
        /\ \A i \in 1..Len(path) : p[i].matches # {} => path[i] \in p[i].matches
    BY <1>1, <1>2 DEF Describes, Accepts
  <1>. QED
    BY <1>1, <1>2, <1>3 DEF Asks2, Says2, IsList, Form

LEMMA Asked3 ==
    ASSUME NEW q \in Requests, NEW e, Describes(e, q), NEW m, NEW a, NEW b, NEW c,
           a # {}, Asks3(e, m, a, b, c)
    PROVE  Form(q, m, 3, a) /\ (b # {} => q.path[2] \in b) /\ (c # {} => q.path[3] \in c)
  <1>1. PICK p, path : p = e.pattern /\ path = q.path
    OBVIOUS
  <1>2. Len(path) \in Nat /\ DOMAIN path = 1..Len(path)
    BY <1>1, PathIs
  <1>3. /\ e.method = q.method /\ Len(p) = Len(path)
        /\ \A i \in 1..Len(path) : p[i].matches # {} => path[i] \in p[i].matches
    BY <1>1, <1>2 DEF Describes, Accepts
  <1>. QED
    BY <1>1, <1>2, <1>3 DEF Asks3, Says3, IsList, Form

LEMMA Asked4 ==
    ASSUME NEW q \in Requests, NEW e, Describes(e, q), NEW m, NEW a, NEW b, NEW c, NEW d,
           a # {}, Asks4(e, m, a, b, c, d)
    PROVE  Form(q, m, 4, a) /\ (b # {} => q.path[2] \in b) /\ (c # {} => q.path[3] \in c)
           /\ (d # {} => q.path[4] \in d)
  <1>1. PICK p, path : p = e.pattern /\ path = q.path
    OBVIOUS
  <1>2. Len(path) \in Nat /\ DOMAIN path = 1..Len(path)
    BY <1>1, PathIs
  <1>3. /\ e.method = q.method /\ Len(p) = Len(path)
        /\ \A i \in 1..Len(path) : p[i].matches # {} => path[i] \in p[i].matches
    BY <1>1, <1>2 DEF Describes, Accepts
  <1>. QED
    BY <1>1, <1>2, <1>3 DEF Asks4, Says4, IsList, Form

LEMMA Asked5 ==
    ASSUME NEW q \in Requests, NEW e, Describes(e, q), NEW m, NEW a, NEW b, NEW c, NEW d, NEW f,
           a # {}, Asks5(e, m, a, b, c, d, f)
    PROVE  Form(q, m, 5, a) /\ (b # {} => q.path[2] \in b) /\ (c # {} => q.path[3] \in c)
           /\ (d # {} => q.path[4] \in d) /\ (f # {} => q.path[5] \in f)
  <1>1. PICK p, path : p = e.pattern /\ path = q.path
    OBVIOUS
  <1>2. Len(path) \in Nat /\ DOMAIN path = 1..Len(path)
    BY <1>1, PathIs
  <1>3. /\ e.method = q.method /\ Len(p) = Len(path)
        /\ \A i \in 1..Len(path) : p[i].matches # {} => path[i] \in p[i].matches
    BY <1>1, <1>2 DEF Describes, Accepts
  <1>. QED
    BY <1>1, <1>2, <1>3 DEF Asks5, Says5, IsList, Form

LEMMA NotEmpty ==
    /\ \A x : {x} # {}
    /\ \A x, y : {x, y} # {}
    /\ \A x, y, z : {x, y, z} # {}
    /\ ModeNames # {} /\ SubNames # {} /\ Roots # {} /\ Homes # {}
    /\ ModalWords # {} /\ AccModalWords # {} /\ ConfirmWords # {}
  BY DEF ModeNames, SubNames, Roots, Homes, ModalWords, AccModalWords, ConfirmWords

LEMMA BeforeKeyHolds ==
    ASSUME NEW q \in Requests, NEW i \in 2..7, Describes(MustRoutes[i], q)
    PROVE  BeforeKey(i, q)
  <1>1. ASSUME i = 2
        PROVE  Form(q, "GET", 3, {"api"})
    <2>1. Asks3(MustRoutes[i], "GET", {"api"}, {"event"}, {})
      BY <1>1, BeforeAsks
    <2>. QED
      BY <2>1, Asked3, NotEmpty
  <1>2. ASSUME i = 3
        PROVE  Form(q, "GET", 1, {"favicon.ico"})
    <2>1. Asks1(MustRoutes[i], "GET", {"favicon.ico"})
      BY <1>2, BeforeAsks
    <2>. QED
      BY <2>1, Asked1, NotEmpty
  <1>3. ASSUME i = 4
        PROVE  Form(q, "GET", 1, {"robots.txt"})
    <2>1. Asks1(MustRoutes[i], "GET", {"robots.txt"})
      BY <1>3, BeforeAsks
    <2>. QED
      BY <2>1, Asked1, NotEmpty
  <1>4. ASSUME i = 5
        PROVE  Form(q, "GET", 2, {"gfx", "fonts"})
    <2>1. Asks2(MustRoutes[i], "GET", {"gfx", "fonts"}, {})
      BY <1>4, BeforeAsks
    <2>. QED
      BY <2>1, Asked2, NotEmpty
  <1>5. ASSUME i = 6
        PROVE  Form(q, "GET", 2, {"user"})
    <2>1. Asks2(MustRoutes[i], "GET", {"user"}, {})
      BY <1>5, BeforeAsks
    <2>. QED
      BY <2>1, Asked2, NotEmpty
  <1>6. ASSUME i = 7
        PROVE  Form(q, "GET", 2, {"svg", "js", "css"})
    <2>1. Asks2(MustRoutes[i], "GET", {"svg", "js", "css"}, {})
      BY <1>6, BeforeAsks
    <2>. QED
      BY <2>1, Asked2, NotEmpty
  <1>. QED
    BY <1>1, <1>2, <1>3, <1>4, <1>5, <1>6 DEF BeforeKey

LEMMA PageKeyHolds ==
    ASSUME NEW q \in Requests, NEW i \in 9..22, Describes(MustRoutes[i], q)
    PROVE  PageKey(i, q)
  <1>1. ASSUME i = 9
        PROVE  Form(q, "GET", 1, Roots)
    <2>1. Asks1(MustRoutes[i], "GET", Roots)
      BY <1>1, PagesAsk
    <2>. QED
      BY <2>1, Asked1, NotEmpty
  <1>2. ASSUME i = 10
        PROVE  Form(q, "GET", 2, Homes)
    <2>1. Asks2(MustRoutes[i], "GET", Homes, {"partial"})
      BY <1>2, PagesAsk
    <2>. QED
      BY <2>1, Asked2, NotEmpty
  <1>3. ASSUME i = 11
        PROVE  Form(q, "GET", 1, ModalWords)
    <2>1. Asks1(MustRoutes[i], "GET", ModalWords)
      BY <1>3, PagesAsk
    <2>. QED
      BY <2>1, Asked1, NotEmpty
  <1>4. ASSUME i = 12
        PROVE  Form(q, "GET", 2, ModalWords)
    <2>1. Asks2(MustRoutes[i], "GET", ModalWords, {"partial"})
      BY <1>4, PagesAsk
    <2>. QED
      BY <2>1, Asked2, NotEmpty
  <1>5. ASSUME i = 13
        PROVE  Form(q, "POST", 1, {"register"})
    <2>1. Asks1(MustRoutes[i], "POST", {"register"})
      BY <1>5, PagesAsk
    <2>. QED
      BY <2>1, Asked1, NotEmpty
  <1>6. ASSUME i = 14
        PROVE  Form(q, "POST", 1, {"login"})
    <2>1. Asks1(MustRoutes[i], "POST", {"login"})
      BY <1>6, PagesAsk
    <2>. QED
      BY <2>1, Asked1, NotEmpty
  <1>7. ASSUME i = 15
        PROVE  Form(q, "POST", 1, {"forgot"})
    <2>1. Asks1(MustRoutes[i], "POST", {"forgot"})
      BY <1>7, PagesAsk
    <2>. QED
      BY <2>1, Asked1, NotEmpty
  <1>8. ASSUME i = 16
        PROVE  Form(q, "POST", 1, {"mailing"})
    <2>1. Asks1(MustRoutes[i], "POST", {"mailing"})
      BY <1>8, PagesAsk
    <2>. QED
      BY <2>1, Asked1, NotEmpty
  <1>9. ASSUME i = 17
        PROVE  Form(q, "POST", 1, {"reserve"})
    <2>1. Asks1(MustRoutes[i], "POST", {"reserve"})
      BY <1>9, PagesAsk
    <2>. QED
      BY <2>1, Asked1, NotEmpty
  <1>10. ASSUME i = 18
        PROVE  Form(q, "POST", 2, ConfirmWords)
    <2>1. Asks2(MustRoutes[i], "POST", ConfirmWords, {"confirm"})
      BY <1>10, PagesAsk
    <2>. QED
      BY <2>1, Asked2, NotEmpty
  <1>11. ASSUME i = 19
        PROVE  Form(q, "GET", 1, AccModalWords)
    <2>1. Asks1(MustRoutes[i], "GET", AccModalWords)
      BY <1>11, PagesAsk
    <2>. QED
      BY <2>1, Asked1, NotEmpty
  <1>12. ASSUME i = 20
        PROVE  Form(q, "GET", 2, AccModalWords)
    <2>1. Asks2(MustRoutes[i], "GET", AccModalWords, {"partial"})
      BY <1>12, PagesAsk
    <2>. QED
      BY <2>1, Asked2, NotEmpty
  <1>13. ASSUME i = 21
        PROVE  Form(q, "GET", 2, ConfirmWords)
    <2>1. Asks2(MustRoutes[i], "GET", ConfirmWords, {})
      BY <1>13, PagesAsk
    <2>. QED
      BY <2>1, Asked2, NotEmpty
  <1>14. ASSUME i = 22
        PROVE  Form(q, "GET", 2, {"reserve_handle"})
    <2>1. Asks2(MustRoutes[i], "GET", {"reserve_handle"}, {})
      BY <1>14, PagesAsk
    <2>. QED
      BY <2>1, Asked2, NotEmpty
  <1>. QED
    BY <1>1, <1>2, <1>3, <1>4, <1>5, <1>6, <1>7, <1>8, <1>9, <1>10, <1>11, <1>12, <1>13, <1>14 DEF PageKey

LEMMA ModeKeyHolds ==
    ASSUME NEW q \in Requests, NEW i \in 23..26, Describes(MustRoutes[i], q)
    PROVE  ModeKey(i, q)
  <1>1. ASSUME i = 23
        PROVE  Form(q, "GET", 1, ModeNames)
    <2>1. Asks1(MustRoutes[i], "GET", ModeNames)
      BY <1>1, ModesAsk
    <2>. QED
      BY <2>1, Asked1, NotEmpty
  <1>2. ASSUME i = 24
        PROVE  Form(q, "GET", 2, ModeNames) /\ q.path[2] \in {"partial"}
    <2>1. Asks2(MustRoutes[i], "GET", ModeNames, {"partial"})
      BY <1>2, ModesAsk
    <2>. QED
      BY <2>1, Asked2, NotEmpty
  <1>3. ASSUME i = 25
        PROVE  Form(q, "GET", 2, ModeNames)
    <2>1. Asks2(MustRoutes[i], "GET", ModeNames, {})
      BY <1>3, ModesAsk
    <2>. QED
      BY <2>1, Asked2, NotEmpty
  <1>4. ASSUME i = 26
        PROVE  Form(q, "GET", 3, ModeNames) /\ q.path[3] \in {"partial"}
    <2>1. Asks3(MustRoutes[i], "GET", ModeNames, {}, {"partial"})
      BY <1>4, ModesAsk
    <2>. QED
      BY <2>1, Asked3, NotEmpty
  <1>. QED
    BY <1>1, <1>2, <1>3, <1>4 DEF ModeKey

LEMMA AccountWordKeyHolds ==
    ASSUME NEW q \in Requests, NEW i \in 1..7, Describes(MustRoutes[27].route[i], q)
    PROVE  AccountWordKey(i, q)
  <1>1. ASSUME i = 1
        PROVE  Form(q, "PUT", 2, {"switch"})
    <2>1. Asks2(MustRoutes[27].route[i], "PUT", {"switch"}, {})
      BY <1>1, AccountAsks
    <2>. QED
      BY <2>1, Asked2, NotEmpty
  <1>2. ASSUME i = 2
        PROVE  Form(q, "DELETE", 2, {"persona"})
    <2>1. Asks2(MustRoutes[27].route[i], "DELETE", {"persona"}, {})
      BY <1>2, AccountAsks
    <2>. QED
      BY <2>1, Asked2, NotEmpty
  <1>3. ASSUME i = 3
        PROVE  Form(q, "DELETE", 1, {"logout"})
    <2>1. Asks1(MustRoutes[27].route[i], "DELETE", {"logout"})
      BY <1>3, AccountAsks
    <2>. QED
      BY <2>1, Asked1, NotEmpty
  <1>4. ASSUME i = 4
        PROVE  Form(q, "POST", 1, {"email"})
    <2>1. Asks1(MustRoutes[27].route[i], "POST", {"email"})
      BY <1>4, AccountAsks
    <2>. QED
      BY <2>1, Asked1, NotEmpty
  <1>5. ASSUME i = 5
        PROVE  Form(q, "POST", 1, {"password"})
    <2>1. Asks1(MustRoutes[27].route[i], "POST", {"password"})
      BY <1>5, AccountAsks
    <2>. QED
      BY <2>1, Asked1, NotEmpty
  <1>6. ASSUME i = 6
        PROVE  Form(q, "POST", 1, {"persona"})
    <2>1. Asks1(MustRoutes[27].route[i], "POST", {"persona"})
      BY <1>6, AccountAsks
    <2>. QED
      BY <2>1, Asked1, NotEmpty
  <1>7. ASSUME i = 7
        PROVE  Form(q, "DELETE", 1, {"delete_account"})
    <2>1. Asks1(MustRoutes[27].route[i], "DELETE", {"delete_account"})
      BY <1>7, AccountAsks
    <2>. QED
      BY <2>1, Asked1, NotEmpty
  <1>. QED
    BY <1>1, <1>2, <1>3, <1>4, <1>5, <1>6, <1>7 DEF AccountWordKey

LEMMA AccountModeKeyHolds ==
    ASSUME NEW q \in Requests, NEW i \in 8..15, Describes(MustRoutes[27].route[i], q)
    PROVE  AccountModeKey(i, q)
  <1>1. ASSUME i = 8
        PROVE  Form(q, "GET", 3, ModeNames) /\ q.path[3] \in {"edit"}
    <2>1. Asks3(MustRoutes[27].route[i], "GET", ModeNames, {}, {"edit"})
      BY <1>1, AccountAsks
    <2>. QED
      BY <2>1, Asked3, NotEmpty
  <1>2. ASSUME i = 9
        PROVE  Form(q, "GET", 4, ModeNames) /\ q.path[3] \in {"edit"}
    <2>1. Asks4(MustRoutes[27].route[i], "GET", ModeNames, {}, {"edit"}, {"partial"})
      BY <1>2, AccountAsks
    <2>. QED
      BY <2>1, Asked4, NotEmpty
  <1>3. ASSUME i = 10
        PROVE  Form(q, "GET", 3, {"forums"}) /\ q.path[3] \in {"reply"}
    <2>1. Asks3(MustRoutes[27].route[i], "GET", {"forums"}, {}, {"reply"})
      BY <1>3, AccountAsks
    <2>. QED
      BY <2>1, Asked3, NotEmpty
  <1>4. ASSUME i = 11
        PROVE  Form(q, "GET", 4, {"forums"}) /\ q.path[3] \in {"reply"}
    <2>1. Asks4(MustRoutes[27].route[i], "GET", {"forums"}, {}, {"reply"}, {"partial"})
      BY <1>4, AccountAsks
    <2>. QED
      BY <2>1, Asked4, NotEmpty
  <1>5. ASSUME i = 12
        PROVE  Form(q, "PUT", 1, ModeNames)
    <2>1. Asks1(MustRoutes[27].route[i], "PUT", ModeNames)
      BY <1>5, AccountAsks
    <2>. QED
      BY <2>1, Asked1, NotEmpty
  <1>6. ASSUME i = 13
        PROVE  Form(q, "PUT", 2, ModeNames)
    <2>1. Asks2(MustRoutes[27].route[i], "PUT", ModeNames, {})
      BY <1>6, AccountAsks
    <2>. QED
      BY <2>1, Asked2, NotEmpty
  <1>7. ASSUME i = 14
        PROVE  Form(q, "DELETE", 2, ModeNames)
    <2>1. Asks2(MustRoutes[27].route[i], "DELETE", ModeNames, {})
      BY <1>7, AccountAsks
    <2>. QED
      BY <2>1, Asked2, NotEmpty
  <1>8. ASSUME i = 15
        PROVE  Form(q, "GET", 5, ModeNames)
    <2>1. Asks5(MustRoutes[27].route[i], "GET", ModeNames, {"search", "editor"}, {"field"}, {}, {"partial"})
      BY <1>8, AccountAsks
    <2>. QED
      BY <2>1, Asked5, NotEmpty
  <1>. QED
    BY <1>1, <1>2, <1>3, <1>4, <1>5, <1>6, <1>7, <1>8 DEF AccountModeKey

LEMMA AccountPageKeyHolds ==
    ASSUME NEW q \in Requests, NEW i \in 16..30, Describes(MustRoutes[27].route[i], q)
    PROVE  AccountPageKey(i, q)
  <1>1. ASSUME i = 16
        PROVE  Form(q, "PUT", 2, {"account"})
    <2>1. Asks2(MustRoutes[27].route[i], "PUT", {"account"}, {"settings"})
      BY <1>1, AccountAsks
    <2>. QED
      BY <2>1, Asked2, NotEmpty
  <1>2. ASSUME i = 17
        PROVE  Form(q, "DELETE", 3, {"account"})
    <2>1. Asks3(MustRoutes[27].route[i], "DELETE", {"account"}, {"settings"}, {})
      BY <1>2, AccountAsks
    <2>. QED
      BY <2>1, Asked3, NotEmpty
  <1>3. ASSUME i = 18
        PROVE  Form(q, "GET", 1, {"account"})
    <2>1. Asks1(MustRoutes[27].route[i], "GET", {"account"})
      BY <1>3, AccountAsks
    <2>. QED
      BY <2>1, Asked1, NotEmpty
  <1>4. ASSUME i = 19
        PROVE  Form(q, "GET", 2, {"account"}) /\ q.path[2] \in {"partial"}
    <2>1. Asks2(MustRoutes[27].route[i], "GET", {"account"}, {"partial"})
      BY <1>4, AccountAsks
    <2>. QED
      BY <2>1, Asked2, NotEmpty
  <1>5. ASSUME i = 20
        PROVE  Form(q, "GET", 2, {"account"}) /\ q.path[2] \in SubNames
    <2>1. Asks2(MustRoutes[27].route[i], "GET", {"account"}, SubNames)
      BY <1>5, AccountAsks
    <2>. QED
      BY <2>1, Asked2, NotEmpty
  <1>6. ASSUME i = 21
        PROVE  Form(q, "GET", 3, {"account"}) /\ q.path[3] \in {"partial"}
    <2>1. Asks3(MustRoutes[27].route[i], "GET", {"account"}, SubNames, {"partial"})
      BY <1>6, AccountAsks
    <2>. QED
      BY <2>1, Asked3, NotEmpty
  <1>7. ASSUME i = 22
        PROVE  Form(q, "GET", 3, {"account"})
    <2>1. Asks3(MustRoutes[27].route[i], "GET", {"account"}, SubNames, {})
      BY <1>7, AccountAsks
    <2>. QED
      BY <2>1, Asked3, NotEmpty
  <1>8. ASSUME i = 23
        PROVE  Form(q, "GET", 4, {"account"}) /\ q.path[4] \in {"partial"}
    <2>1. Asks4(MustRoutes[27].route[i], "GET", {"account"}, SubNames, {}, {"partial"})
      BY <1>8, AccountAsks
    <2>. QED
      BY <2>1, Asked4, NotEmpty
  <1>9. ASSUME i = 24
        PROVE  Form(q, "GET", 4, {"account"}) /\ q.path[4] \in {"reply"}
    <2>1. Asks4(MustRoutes[27].route[i], "GET", {"account"}, {"forums"}, {}, {"reply"})
      BY <1>9, AccountAsks
    <2>. QED
      BY <2>1, Asked4, NotEmpty
  <1>10. ASSUME i = 25
        PROVE  Form(q, "GET", 5, {"account"}) /\ q.path[4] \in {"reply"}
    <2>1. Asks5(MustRoutes[27].route[i], "GET", {"account"}, {"forums"}, {}, {"reply"}, {"partial"})
      BY <1>10, AccountAsks
    <2>. QED
      BY <2>1, Asked5, NotEmpty
  <1>11. ASSUME i = 26
        PROVE  Form(q, "GET", 4, {"account"}) /\ q.path[4] \in {"edit"}
    <2>1. Asks4(MustRoutes[27].route[i], "GET", {"account"}, SubNames, {}, {"edit"})
      BY <1>11, AccountAsks
    <2>. QED
      BY <2>1, Asked4, NotEmpty
  <1>12. ASSUME i = 27
        PROVE  Form(q, "GET", 5, {"account"}) /\ q.path[4] \in {"edit"}
    <2>1. Asks5(MustRoutes[27].route[i], "GET", {"account"}, SubNames, {}, {"edit"}, {"partial"})
      BY <1>12, AccountAsks
    <2>. QED
      BY <2>1, Asked5, NotEmpty
  <1>13. ASSUME i = 28
        PROVE  Form(q, "PUT", 2, {"account"})
    <2>1. Asks2(MustRoutes[27].route[i], "PUT", {"account"}, SubNames)
      BY <1>13, AccountAsks
    <2>. QED
      BY <2>1, Asked2, NotEmpty
  <1>14. ASSUME i = 29
        PROVE  Form(q, "PUT", 3, {"account"})
    <2>1. Asks3(MustRoutes[27].route[i], "PUT", {"account"}, SubNames, {})
      BY <1>14, AccountAsks
    <2>. QED
      BY <2>1, Asked3, NotEmpty
  <1>15. ASSUME i = 30
        PROVE  Form(q, "DELETE", 3, {"account"})
    <2>1. Asks3(MustRoutes[27].route[i], "DELETE", {"account"}, SubNames, {})
      BY <1>15, AccountAsks
    <2>. QED
      BY <2>1, Asked3, NotEmpty
  <1>. QED
    BY <1>1, <1>2, <1>3, <1>4, <1>5, <1>6, <1>7, <1>8, <1>9, <1>10, <1>11, <1>12, <1>13, <1>14, <1>15 DEF AccountPageKey

LEMMA AdminKeyHolds ==
    ASSUME NEW q \in Requests, NEW i \in 1..11, Describes(MustRoutes[28].route[i], q)
    PROVE  AdminKey(i, q)
  <1>1. ASSUME i = 1
        PROVE  Form(q, "GET", 1, {"admin"})
    <2>1. Asks1(MustRoutes[28].route[i], "GET", {"admin"})
      BY <1>1, AdminAsks
    <2>. QED
      BY <2>1, Asked1, NotEmpty
  <1>2. ASSUME i = 2
        PROVE  Form(q, "GET", 2, {"admin"}) /\ q.path[2] \in {"partial"}
    <2>1. Asks2(MustRoutes[28].route[i], "GET", {"admin"}, {"partial"})
      BY <1>2, AdminAsks
    <2>. QED
      BY <2>1, Asked2, NotEmpty
  <1>3. ASSUME i = 3
        PROVE  Form(q, "GET", 2, {"admin"}) /\ q.path[2] \in ModeNames
    <2>1. Asks2(MustRoutes[28].route[i], "GET", {"admin"}, ModeNames)
      BY <1>3, AdminAsks
    <2>. QED
      BY <2>1, Asked2, NotEmpty
  <1>4. ASSUME i = 4
        PROVE  Form(q, "GET", 3, {"admin"}) /\ q.path[3] \in {"partial"}
    <2>1. Asks3(MustRoutes[28].route[i], "GET", {"admin"}, ModeNames, {"partial"})
      BY <1>4, AdminAsks
    <2>. QED
      BY <2>1, Asked3, NotEmpty
  <1>5. ASSUME i = 5
        PROVE  Form(q, "GET", 3, {"admin"})
    <2>1. Asks3(MustRoutes[28].route[i], "GET", {"admin"}, ModeNames, {})
      BY <1>5, AdminAsks
    <2>. QED
      BY <2>1, Asked3, NotEmpty
  <1>6. ASSUME i = 6
        PROVE  Form(q, "GET", 4, {"admin"}) /\ q.path[4] \in {"partial"}
    <2>1. Asks4(MustRoutes[28].route[i], "GET", {"admin"}, ModeNames, {}, {"partial"})
      BY <1>6, AdminAsks
    <2>. QED
      BY <2>1, Asked4, NotEmpty
  <1>7. ASSUME i = 7
        PROVE  Form(q, "GET", 4, {"admin"}) /\ q.path[4] \in {"edit"}
    <2>1. Asks4(MustRoutes[28].route[i], "GET", {"admin"}, ModeNames, {}, {"edit"})
      BY <1>7, AdminAsks
    <2>. QED
      BY <2>1, Asked4, NotEmpty
  <1>8. ASSUME i = 8
        PROVE  Form(q, "GET", 5, {"admin"})
    <2>1. Asks5(MustRoutes[28].route[i], "GET", {"admin"}, ModeNames, {}, {"edit"}, {"partial"})
      BY <1>8, AdminAsks
    <2>. QED
      BY <2>1, Asked5, NotEmpty
  <1>9. ASSUME i = 9
        PROVE  Form(q, "PUT", 2, {"admin"})
    <2>1. Asks2(MustRoutes[28].route[i], "PUT", {"admin"}, ModeNames)
      BY <1>9, AdminAsks
    <2>. QED
      BY <2>1, Asked2, NotEmpty
  <1>10. ASSUME i = 10
        PROVE  Form(q, "PUT", 3, {"admin"})
    <2>1. Asks3(MustRoutes[28].route[i], "PUT", {"admin"}, ModeNames, {})
      BY <1>10, AdminAsks
    <2>. QED
      BY <2>1, Asked3, NotEmpty
  <1>11. ASSUME i = 11
        PROVE  Form(q, "DELETE", 3, {"admin"})
    <2>1. Asks3(MustRoutes[28].route[i], "DELETE", {"admin"}, ModeNames, {})
      BY <1>11, AdminAsks
    <2>. QED
      BY <2>1, Asked3, NotEmpty
  <1>. QED
    BY <1>1, <1>2, <1>3, <1>4, <1>5, <1>6, <1>7, <1>8, <1>9, <1>10, <1>11 DEF AdminKey

-----------------------------------------------------------------------------
(* Which entries of a block describe the same request. *)

LEMMA BeforePairs ==
    ASSUME NEW q, NEW i \in 2..7, NEW j \in 2..7, BeforeKey(i, q), BeforeKey(j, q)
    PROVE  i = j /\ q.path[1] \in BeforeWords
  BY DEF BeforeKey, Form, BeforeWords

LEMMA HomesApart ==
    /\ Roots \subseteq Homes
    /\ \A w \in Homes : /\ w \notin ModalWords /\ w \notin AccModalWords /\ w \notin ConfirmWords
                        /\ w # "reserve_handle"
  BY DEF Roots, Homes, ModalWords, AccModalWords, ConfirmWords

LEMMA PagePairs ==
    ASSUME NEW q, NEW i \in 9..22, NEW j \in 9..22, PageKey(i, q), PageKey(j, q), i < j
    PROVE  i \in {12, 20} /\ j = 21 /\ Len(q.path) = 2
  BY HomesApart DEF PageKey, Form, ModalWords, AccModalWords, ConfirmWords

LEMMA PageFirst ==
    ASSUME NEW q, NEW i \in 9..22, PageKey(i, q)
    PROVE  q.path[1] \in PageWords
  BY HomesApart DEF PageKey, Form, PageWords, ModalWords, AccModalWords, ConfirmWords

LEMMA WordPairs ==
    ASSUME NEW q, NEW j \in 1..7, AccountWordKey(j, q)
    PROVE  /\ q.path[1] \in PageWords
           /\ \A i \in 1..7 : AccountWordKey(i, q) => i = j
           /\ \A i \in 9..22 : ~PageKey(i, q)
  <1>1. q.path[1] \in PageWords
    BY DEF AccountWordKey, Form, PageWords, AccModalWords
  <1>2. \A i \in 1..7 : AccountWordKey(i, q) => i = j
    BY DEF AccountWordKey, Form
  <1>3. \A i \in 9..22 : ~PageKey(i, q)
    BY DEF AccountWordKey, PageKey, Form, ModalWords, AccModalWords, ConfirmWords
  <1>. QED
    BY <1>1, <1>2, <1>3

LEMMA ModePairs ==
    ASSUME NEW q, NEW i \in 23..26, NEW j \in 23..26, ModeKey(i, q), ModeKey(j, q), i < j
    PROVE  i = 24 /\ j = 25 /\ Len(q.path) = 2
  BY DEF ModeKey, Form

LEMMA ModeFirst ==
    ASSUME NEW q, NEW i \in 23..26, ModeKey(i, q)
    PROVE  q.path[1] \in ModeNames
  BY DEF ModeKey, Form

LEMMA AccountModePairs ==
    ASSUME NEW q, NEW j \in 8..15, AccountModeKey(j, q)
    PROVE  /\ q.path[1] \in ModeNames
           /\ \A i \in 8..15 : AccountModeKey(i, q) => i = j
           /\ \A i \in 23..26 : ~ModeKey(i, q)
  <1>1. q.path[1] \in ModeNames
    BY DEF AccountModeKey, Form, ModeNames
  <1>2. \A i \in 8..15 : AccountModeKey(i, q) => i = j
    BY DEF AccountModeKey, Form
  <1>3. \A i \in 23..26 : ~ModeKey(i, q)
    BY DEF AccountModeKey, ModeKey, Form
  <1>. QED
    BY <1>1, <1>2, <1>3

LEMMA AccountPagePairs ==
    ASSUME NEW q, NEW i \in 16..30, NEW j \in 16..30,
           AccountPageKey(i, q), AccountPageKey(j, q), i < j
    PROVE  \/ i = 21 /\ j = 22 /\ Len(q.path) = 3
           \/ i = 16 /\ j = 28 /\ Len(q.path) = 2
           \/ i = 17 /\ j = 30 /\ Len(q.path) = 3
  BY DEF AccountPageKey, Form, SubNames, ModeNames

LEMMA AccountPageFirst ==
    ASSUME NEW q, NEW i \in 16..30, AccountPageKey(i, q)
    PROVE  q.path[1] = "account"
  BY DEF AccountPageKey, Form

LEMMA AdminPairs ==
    ASSUME NEW q, NEW i \in 1..11, NEW j \in 1..11, AdminKey(i, q), AdminKey(j, q), i < j
    PROVE  i = 4 /\ j = 5 /\ Len(q.path) = 3
  BY DEF AdminKey, Form, ModeNames

LEMMA AdminFirst ==
    ASSUME NEW q, NEW i \in 1..11, AdminKey(i, q)
    PROVE  q.path[1] = "admin"
  BY DEF AdminKey, Form

(* The blocks are told apart by the first segment. *)
LEMMA WordsApart ==
    /\ BeforeWords \cap PageWords = {} /\ BeforeWords \cap ModeNames = {}
    /\ PageWords \cap ModeNames = {}
    /\ "account" \notin (BeforeWords \cup PageWords) \cup ModeNames
    /\ "admin" \notin (BeforeWords \cup PageWords) \cup ModeNames
    /\ ((BeforeWords \cup PageWords) \cup ModeNames) \cup {"account", "admin"}
           \subseteq CouldBeStoryDevsPath
  <1>1. BeforeWords \cap PageWords = {}
    BY DEF BeforeWords, PageWords, Homes, ModalWords, AccModalWords
  <1>2. BeforeWords \cap ModeNames = {} /\ PageWords \cap ModeNames = {}
    BY DEF BeforeWords, PageWords, Homes, ModalWords, AccModalWords, ModeNames
  <1>3. "account" \notin (BeforeWords \cup PageWords) \cup ModeNames
    BY DEF BeforeWords, PageWords, Homes, ModalWords, AccModalWords, ModeNames
  <1>4. "admin" \notin (BeforeWords \cup PageWords) \cup ModeNames
    BY DEF BeforeWords, PageWords, Homes, ModalWords, AccModalWords, ModeNames
  <1>5. BeforeWords \subseteq CouldBeStoryDevsPath
    BY DEF BeforeWords, CouldBeStoryDevsPath
  <1>6. PageWords \subseteq CouldBeStoryDevsPath
    BY DEF PageWords, Homes, ModalWords, AccModalWords, CouldBeStoryDevsPath
  <1>7. ModeNames \cup {"account", "admin"} \subseteq CouldBeStoryDevsPath
    BY DEF ModeNames, CouldBeStoryDevsPath
  <1>. QED
    BY <1>1, <1>2, <1>3, <1>4, <1>5, <1>6, <1>7

(* Where a route that describes the request is, and what it asked. *)
LEMMA Placed ==
    ASSUME request \in Requests, NEW p \in Describing
    PROVE  \/ \E i \in 2..7 : p = <<i>> /\ BeforeKey(i, request)
           \/ \E i \in 9..22 : p = <<i>> /\ PageKey(i, request)
           \/ \E j \in 1..7 : p = <<27, j>> /\ AccountWordKey(j, request)
           \/ \E i \in 23..26 : p = <<i>> /\ ModeKey(i, request)
           \/ \E j \in 8..15 : p = <<27, j>> /\ AccountModeKey(j, request)
           \/ \E j \in 16..30 : p = <<27, j>> /\ AccountPageKey(j, request)
           \/ \E j \in 1..11 : p = <<28, j>> /\ AdminKey(j, request)
  <1>1. p \in Routes /\ Describes(RouteAt(p), request)
    BY DescribingIs
  <1>2. CASE \E i \in Singles : p = <<i>>
    <2>1. PICK i \in Singles : p = <<i>>
      BY <1>2
    <2>2. Describes(MustRoutes[i], request)
      BY <1>1, <2>1, RouteThere
    <2>3. i \in 2..7 \/ i \in 9..22 \/ i \in 23..26
      BY DEF Singles
    <2>. QED
      BY <2>1, <2>2, <2>3, BeforeKeyHolds, PageKeyHolds, ModeKeyHolds
  <1>3. CASE \E i \in Groups : \E j \in 1..Len(MustRoutes[i].route) : p = <<i, j>>
    <2>1. PICK i \in Groups : \E j \in 1..Len(MustRoutes[i].route) : p = <<i, j>>
      BY <1>3
    <2>2. PICK j \in 1..Len(MustRoutes[i].route) : p = <<i, j>>
      BY <2>1
    <2>3. Describes(MustRoutes[i].route[j], request)
      BY <1>1, <2>2, RouteThere
    <2>4. CASE i = 27
      <3>1. j \in 1..30
        BY <2>4, TableParts, AccountRoutesOK
      <3>2. j \in 1..7 \/ j \in 8..15 \/ j \in 16..30
        BY <3>1
      <3>. QED
        BY <2>2, <2>3, <2>4, <3>2, AccountWordKeyHolds, AccountModeKeyHolds, AccountPageKeyHolds
    <2>5. CASE i = 28
      <3>1. j \in 1..11
        BY <2>5, TableParts, AdminRoutesOK
      <3>. QED
        BY <2>2, <2>3, <2>5, <3>1, AdminKeyHolds
    <2>. QED
      BY <2>4, <2>5 DEF Groups
  <1>. QED
    BY <1>1, <1>2, <1>3, RoutesWhere

-----------------------------------------------------------------------------
(* How broad the segments are. *)

LEMMA ListedTwice == Cardinality(SubNames) # 1
  <1>1. IsFiniteSet({"talent"})
    BY FS_Singleton
  <1>2. IsFiniteSet({"talent"} \cup {"forums"})
    BY <1>1, FS_AddElement
  <1>3. IsFiniteSet(({"talent"} \cup {"forums"}) \cup {"event"})
    BY <1>2, FS_AddElement
  <1>4. IsFiniteSet((({"talent"} \cup {"forums"}) \cup {"event"}) \cup {"settings"})
    BY <1>3, FS_AddElement
  <1>5. SubNames = (({"talent"} \cup {"forums"}) \cup {"event"}) \cup {"settings"}
    BY DEF SubNames, ModeNames
  <1>6. "talent" \in SubNames /\ "forums" \in SubNames /\ "talent" # "forums"
    BY DEF SubNames, ModeNames
  <1>7. ~\E x : SubNames = {x}
    BY <1>6
  <1>. QED
    BY <1>4, <1>5, <1>7, FS_Singleton

LEMMA Breadths ==
    ASSUME NEW s
    PROVE  /\ (\E x : s.matches = {x}) => Breadth(s) = 1
           /\ s.matches = SubNames => Breadth(s) = 2
           /\ s.matches = {} => Breadth(s) = 3
  <1>1. \A x : {x} # {} /\ Cardinality({x}) = 1
    BY FS_Singleton
  <1>2. SubNames # {}
    BY NotEmpty
  <1>. QED
    BY <1>1, <1>2, ListedTwice DEF Breadth

(* Whether the k-th segment of a is narrower than that of b. *)
Narrower(a, b, k) == Breadth(a.pattern[k]) < Breadth(b.pattern[k])

LEMMA Narrow ==
    /\ Narrower(MustRoutes[12], MustRoutes[21], 2)
    /\ Narrower(MustRoutes[20], MustRoutes[21], 2)
    /\ Narrower(MustRoutes[24], MustRoutes[25], 2)
    /\ Narrower(MustRoutes[27].route[21], MustRoutes[27].route[22], 3)
    /\ Narrower(MustRoutes[27].route[16], MustRoutes[27].route[28], 2)
    /\ Narrower(MustRoutes[27].route[17], MustRoutes[27].route[30], 2)
    /\ Narrower(MustRoutes[28].route[4], MustRoutes[28].route[5], 3)
  <1>1. ASSUME NEW a, NEW b, NEW k, NEW x, a.pattern[k].matches = {x},
               b.pattern[k].matches = {} \/ b.pattern[k].matches = SubNames
        PROVE  Narrower(a, b, k)
    <2>1. Breadth(a.pattern[k]) = 1
      BY <1>1, Breadths
    <2>2. Breadth(b.pattern[k]) = 3 \/ Breadth(b.pattern[k]) = 2
      BY <1>1, Breadths
    <2>. QED
      BY <2>1, <2>2 DEF Narrower
  <1>2. /\ MustRoutes[12].pattern[2].matches = {"partial"}
        /\ MustRoutes[20].pattern[2].matches = {"partial"}
        /\ MustRoutes[21].pattern[2].matches = {}
    BY PagesAsk DEF Asks2, Says2
  <1>3. /\ MustRoutes[24].pattern[2].matches = {"partial"}
        /\ MustRoutes[25].pattern[2].matches = {}
    BY ModesAsk DEF Asks2, Says2
  <1>4. /\ MustRoutes[27].route[21].pattern[3].matches = {"partial"}
        /\ MustRoutes[27].route[22].pattern[3].matches = {}
    BY AccountAsks DEF Asks3, Says3
  <1>5. /\ MustRoutes[27].route[16].pattern[2].matches = {"settings"}
        /\ MustRoutes[27].route[28].pattern[2].matches = SubNames
    BY AccountAsks DEF Asks2, Says2
  <1>6. /\ MustRoutes[27].route[17].pattern[2].matches = {"settings"}
        /\ MustRoutes[27].route[30].pattern[2].matches = SubNames
    BY AccountAsks DEF Asks3, Says3
  <1>7. /\ MustRoutes[28].route[4].pattern[3].matches = {"partial"}
        /\ MustRoutes[28].route[5].pattern[3].matches = {}
    BY AdminAsks DEF Asks3, Says3
  <1>. QED
    BY <1>1, <1>2, <1>3, <1>4, <1>5, <1>6, <1>7

(* The first segment says in which block the routes are. *)
LEMMA Blocks ==
    ASSUME request \in Requests, NEW p \in Describing
    PROVE  \/ /\ request.path[1] \in BeforeWords
              /\ \E i \in 2..7 : p = <<i>> /\ BeforeKey(i, request)
           \/ /\ request.path[1] \in PageWords
              /\ \/ \E i \in 9..22 : p = <<i>> /\ PageKey(i, request)
                 \/ \E j \in 1..7 : p = <<27, j>> /\ AccountWordKey(j, request)
           \/ /\ request.path[1] \in ModeNames
              /\ \/ \E i \in 23..26 : p = <<i>> /\ ModeKey(i, request)
                 \/ \E j \in 8..15 : p = <<27, j>> /\ AccountModeKey(j, request)
           \/ /\ request.path[1] = "account"
              /\ \E j \in 16..30 : p = <<27, j>> /\ AccountPageKey(j, request)
           \/ /\ request.path[1] = "admin"
              /\ \E j \in 1..11 : p = <<28, j>> /\ AdminKey(j, request)
  <1>1. \A i \in 2..7 : BeforeKey(i, request) => request.path[1] \in BeforeWords
    BY BeforePairs
  <1>2. \A i \in 9..22 : PageKey(i, request) => request.path[1] \in PageWords
    BY PageFirst
  <1>3. \A j \in 1..7 : AccountWordKey(j, request) => request.path[1] \in PageWords
    BY WordPairs
  <1>4. \A i \in 23..26 : ModeKey(i, request) => request.path[1] \in ModeNames
    BY ModeFirst
  <1>5. \A j \in 8..15 : AccountModeKey(j, request) => request.path[1] \in ModeNames
    BY AccountModePairs
  <1>6. \A j \in 16..30 : AccountPageKey(j, request) => request.path[1] = "account"
    BY AccountPageFirst
  <1>7. \A j \in 1..11 : AdminKey(j, request) => request.path[1] = "admin"
    BY AdminFirst
  <1>. QED
    BY <1>1, <1>2, <1>3, <1>4, <1>5, <1>6, <1>7, Placed

LEMMA BlocksFirst ==
    ASSUME request \in Requests, NEW p \in Describing
    PROVE  request.path[1] \in CouldBeStoryDevsPath
  BY Blocks, WordsApart

(* Two that describe one request are in one block. *)
LEMMA OneBlock ==
    ASSUME request \in Requests, NEW a \in Describing, NEW p \in Describing
    PROVE  \/ /\ \E i \in 2..7 : a = <<i>> /\ BeforeKey(i, request)
              /\ \E i \in 2..7 : p = <<i>> /\ BeforeKey(i, request)
           \/ /\ \E i \in 9..22 : a = <<i>> /\ PageKey(i, request)
              /\ \E i \in 9..22 : p = <<i>> /\ PageKey(i, request)
           \/ /\ \E j \in 1..7 : a = <<27, j>> /\ AccountWordKey(j, request)
              /\ \E j \in 1..7 : p = <<27, j>> /\ AccountWordKey(j, request)
           \/ /\ \E i \in 23..26 : a = <<i>> /\ ModeKey(i, request)
              /\ \E i \in 23..26 : p = <<i>> /\ ModeKey(i, request)
           \/ /\ \E j \in 8..15 : a = <<27, j>> /\ AccountModeKey(j, request)
              /\ \E j \in 8..15 : p = <<27, j>> /\ AccountModeKey(j, request)
           \/ /\ \E j \in 16..30 : a = <<27, j>> /\ AccountPageKey(j, request)
              /\ \E j \in 16..30 : p = <<27, j>> /\ AccountPageKey(j, request)
           \/ /\ \E j \in 1..11 : a = <<28, j>> /\ AdminKey(j, request)
              /\ \E j \in 1..11 : p = <<28, j>> /\ AdminKey(j, request)
  <1>1. CASE request.path[1] \in BeforeWords
    BY <1>1, Blocks, WordsApart
  <1>2. CASE request.path[1] \in PageWords
    BY <1>2, Blocks, WordsApart, WordPairs
  <1>3. CASE request.path[1] \in ModeNames
    BY <1>3, Blocks, WordsApart, AccountModePairs
  <1>4. CASE request.path[1] = "account"
    BY <1>4, Blocks, WordsApart
  <1>5. CASE request.path[1] = "admin"
    <2>1. "admin" # "account"
      OBVIOUS
    <2>. QED
      BY <1>5, <2>1, Blocks, WordsApart
  <1>. QED
    BY <1>1, <1>2, <1>3, <1>4, <1>5, Blocks

(* The routes that describe a request and come after the one it is given:  *)
(* each is broader at some segment.                                        *)
Broader(p, a) ==
    \E k \in DOMAIN request.path : Breadth(WholePattern(a)[k]) < Breadth(WholePattern(p)[k])

LEMMA NarrowSingle ==
    ASSUME NEW i \in Singles, NEW j \in Singles, NEW k \in DOMAIN request.path,
           Narrower(MustRoutes[i], MustRoutes[j], k)
    PROVE  Broader(<<j>>, <<i>>)
  BY RouteThere DEF Broader, Narrower

LEMMA NarrowInGroup ==
    ASSUME NEW g \in Groups, NEW i \in 1..Len(MustRoutes[g].route),
           NEW j \in 1..Len(MustRoutes[g].route), NEW k \in DOMAIN request.path,
           Narrower(MustRoutes[g].route[i], MustRoutes[g].route[j], k)
    PROVE  Broader(<<g, j>>, <<g, i>>)
  BY RouteThere DEF Broader, Narrower

LEMMA NotSooner ==
    /\ \A i, j \in 1..30 : ~Passed(<<j>>, <<i>>) /\ <<j>> # <<i>> => i < j
    /\ \A g \in Groups : \A i, j \in 1..30 :
           ~Passed(<<g, j>>, <<g, i>>) /\ <<g, j>> # <<g, i>> => i < j
  <1>1. ASSUME NEW i \in 1..30, NEW j \in 1..30, NEW a, a = <<i>>, NEW p, p = <<j>>,
               ~Passed(p, a), p # a
        PROVE  i < j
    <2>1. a[1] = i /\ p[1] = j /\ i # j
      BY <1>1
    <2>. QED
      BY <1>1, <2>1 DEF Passed
  <1>2. ASSUME NEW g \in Groups, NEW i \in 1..30, NEW j \in 1..30, NEW a, a = <<g, i>>,
               NEW p, p = <<g, j>>, ~Passed(p, a), p # a
        PROVE  i < j
    <2>1. a[1] = g /\ p[1] = g /\ a[2] = i /\ p[2] = j /\ Len(a) = 2 /\ i # j
      BY <1>2
    <2>. QED
      BY <1>2, <2>1 DEF Passed
  <1>. QED
    BY <1>1, <1>2

LEMMA LaterBroader ==
    ASSUME request \in Requests, NEW a \in Describing, NEW p \in Describing,
           ~Passed(p, a), p # a
    PROVE  Broader(p, a)
  <1>0. /\ Len(request.path) = 2 => 2 \in DOMAIN request.path
        /\ Len(request.path) = 3 => 2 \in DOMAIN request.path /\ 3 \in DOMAIN request.path
    <2>1. PICK path : path = request.path
      OBVIOUS
    <2>2. DOMAIN path = 1..Len(path) /\ Len(path) \in Nat
      BY <2>1, PathIs
    <2>3. /\ Len(path) = 2 => 2 \in DOMAIN path
          /\ Len(path) = 3 => 2 \in DOMAIN path /\ 3 \in DOMAIN path
      BY <2>2
    <2>. QED
      BY <2>1, <2>3
  <1>1. CASE /\ \E i \in 2..7 : a = <<i>> /\ BeforeKey(i, request)
             /\ \E i \in 2..7 : p = <<i>> /\ BeforeKey(i, request)
    BY <1>1, BeforePairs
  <1>2. CASE /\ \E i \in 9..22 : a = <<i>> /\ PageKey(i, request)
             /\ \E i \in 9..22 : p = <<i>> /\ PageKey(i, request)
    <2>1. PICK i \in 9..22 : a = <<i>> /\ PageKey(i, request)
      BY <1>2
    <2>2. PICK j \in 9..22 : p = <<j>> /\ PageKey(j, request)
      BY <1>2
    <2>3. i < j
      <3>1. i \in 1..30 /\ j \in 1..30
        OBVIOUS
      <3>. QED
        BY <2>1, <2>2, <3>1, NotSooner
    <2>4. i \in {12, 20} /\ j = 21 /\ Len(request.path) = 2
      BY <2>1, <2>2, <2>3, PagePairs
    <2>5. i \in Singles /\ j \in Singles
      BY <2>4 DEF Singles
    <2>6. Narrower(MustRoutes[i], MustRoutes[j], 2)
      BY <2>4, Narrow
    <2>. QED
      BY <1>0, <2>1, <2>2, <2>4, <2>5, <2>6, NarrowSingle
  <1>3. CASE /\ \E j \in 1..7 : a = <<27, j>> /\ AccountWordKey(j, request)
             /\ \E j \in 1..7 : p = <<27, j>> /\ AccountWordKey(j, request)
    BY <1>3, WordPairs
  <1>4. CASE /\ \E i \in 23..26 : a = <<i>> /\ ModeKey(i, request)
             /\ \E i \in 23..26 : p = <<i>> /\ ModeKey(i, request)
    <2>1. PICK i \in 23..26 : a = <<i>> /\ ModeKey(i, request)
      BY <1>4
    <2>2. PICK j \in 23..26 : p = <<j>> /\ ModeKey(j, request)
      BY <1>4
    <2>3. i < j
      <3>1. i \in 1..30 /\ j \in 1..30
        OBVIOUS
      <3>. QED
        BY <2>1, <2>2, <3>1, NotSooner
    <2>4. i = 24 /\ j = 25 /\ Len(request.path) = 2
      BY <2>1, <2>2, <2>3, ModePairs
    <2>5. i \in Singles /\ j \in Singles
      BY <2>4 DEF Singles
    <2>6. Narrower(MustRoutes[i], MustRoutes[j], 2)
      BY <2>4, Narrow
    <2>. QED
      BY <1>0, <2>1, <2>2, <2>4, <2>5, <2>6, NarrowSingle
  <1>5. CASE /\ \E j \in 8..15 : a = <<27, j>> /\ AccountModeKey(j, request)
             /\ \E j \in 8..15 : p = <<27, j>> /\ AccountModeKey(j, request)
    BY <1>5, AccountModePairs
  <1>6. CASE /\ \E j \in 16..30 : a = <<27, j>> /\ AccountPageKey(j, request)
             /\ \E j \in 16..30 : p = <<27, j>> /\ AccountPageKey(j, request)
    <2>1. PICK i \in 16..30 : a = <<27, i>> /\ AccountPageKey(i, request)
      BY <1>6
    <2>2. PICK j \in 16..30 : p = <<27, j>> /\ AccountPageKey(j, request)
      BY <1>6
    <2>3. 27 \in Groups /\ i \in 1..30 /\ j \in 1..30 /\ Len(MustRoutes[27].route) = 30
      BY TableParts, AccountRoutesOK DEF Groups
    <2>4. i < j
      BY <2>1, <2>2, <2>3, NotSooner
    <2>5. \/ i = 21 /\ j = 22 /\ Len(request.path) = 3
          \/ i = 16 /\ j = 28 /\ Len(request.path) = 2
          \/ i = 17 /\ j = 30 /\ Len(request.path) = 3
      BY <2>1, <2>2, <2>4, AccountPagePairs
    <2>6. \E k \in DOMAIN request.path :
              Narrower(MustRoutes[27].route[i], MustRoutes[27].route[j], k)
      BY <1>0, <2>5, Narrow
    <2>. QED
      BY <2>1, <2>2, <2>3, <2>6, NarrowInGroup
  <1>7. CASE /\ \E j \in 1..11 : a = <<28, j>> /\ AdminKey(j, request)
             /\ \E j \in 1..11 : p = <<28, j>> /\ AdminKey(j, request)
    <2>1. PICK i \in 1..11 : a = <<28, i>> /\ AdminKey(i, request)
      BY <1>7
    <2>2. PICK j \in 1..11 : p = <<28, j>> /\ AdminKey(j, request)
      BY <1>7
    <2>3. 28 \in Groups /\ i \in 1..30 /\ j \in 1..30 /\ Len(MustRoutes[28].route) = 11
      BY TableParts, AdminRoutesOK DEF Groups
    <2>4. i < j
      BY <2>1, <2>2, <2>3, NotSooner
    <2>5. i = 4 /\ j = 5 /\ Len(request.path) = 3
      BY <2>1, <2>2, <2>4, AdminPairs
    <2>6. Narrower(MustRoutes[28].route[i], MustRoutes[28].route[j], 3)
      BY <2>5, Narrow
    <2>. QED
      BY <1>0, <2>1, <2>2, <2>3, <2>5, <2>6, NarrowInGroup
  <1>. QED
    BY <1>1, <1>2, <1>3, <1>4, <1>5, <1>6, <1>7, OneBlock

LEMMA BreadthIs == ASSUME NEW s PROVE Breadth(s) \in Int
  BY DEF Breadth

LEMMA FirstMostSpecific ==
    ASSUME request \in Requests, at \in Describing, NEW p \in Describing, ~Passed(p, at)
    PROVE  ~MoreSpecific(p, at)
  <1>1. CASE p = at
    BY <1>1 DEF MoreSpecific
  <1>2. CASE p # at
    <2>1. PICK k \in DOMAIN request.path :
              Breadth(WholePattern(at)[k]) < Breadth(WholePattern(p)[k])
      BY <1>2, LaterBroader DEF Broader
    <2>2. ~(Breadth(WholePattern(p)[k]) <= Breadth(WholePattern(at)[k]))
      BY <2>1, BreadthIs
    <2>. QED
      BY <2>2 DEF MoreSpecific
  <1>. QED
    BY <1>1, <1>2

-----------------------------------------------------------------------------
(* No general route takes what a more specific one describes. *)

LEMMA AnswersAre ==
    /\ \A code : Status(code).is = "status"
    /\ \A code : Terminated(code).is = "terminated" /\ Terminated(code).code = code
    /\ \A e, path : Served(e, path).is = "served"
  BY DEF Status, Terminated, Served

LEMMA OtherAnswer ==
    ASSUME answer' = Nothing \/ \E code : answer' = Status(code)
    PROVE  SpecificFirst'
  <1>1. answer' # Nothing => answer'.is = "status"
    BY AnswersAre
  <1>. QED
    BY <1>1 DEF SpecificFirst

LEMMA SpecificKept ==
    ASSUME SpecificFirst, UNCHANGED <<request, at, answer>>
    PROVE  SpecificFirst'
  <1>1. Describing' = Describing
    BY RequestKept
  <1>2. \A p : MoreSpecific(p, at)' <=> MoreSpecific(p, at)
    BY DEF MoreSpecific
  <1>. QED
    BY <1>1, <1>2 DEF SpecificFirst

LEMMA SpecificServe ==
    ASSUME Walk, Serve
    PROVE  SpecificFirst'
  <1>1. at \in Describing /\ request \in Requests /\ \A p \in Describing : ~Passed(p, at)
    BY ServeWhere
  <1>2. \A p \in Describing : ~MoreSpecific(p, at)
    BY <1>1, FirstMostSpecific
  <1>3. request' = request /\ at' = at
    BY DEF Serve
  <1>4. Describing' = Describing
    BY <1>3, RequestKept
  <1>5. \A p : MoreSpecific(p, at)' <=> MoreSpecific(p, at)
    BY <1>3 DEF MoreSpecific
  <1>6. answer'.is # "terminated"
    BY AnswersAre DEF Serve
  <1>. QED
    BY <1>2, <1>4, <1>5, <1>6 DEF SpecificFirst

LEMMA SpecificBefore ==
    ASSUME Walk, BeforeHandler
    PROVE  SpecificFirst'
  <1>1. answer = Nothing /\ request' = request /\ request \in Requests
    BY DEF BeforeHandler, Looking, Searching, Walk
  <1>2. CASE BeforeStatus = 0
    BY <1>1, <1>2, OtherAnswer DEF BeforeHandler
  <1>3. CASE BeforeStatus # 0
    <2>1. answer' = Terminated(BeforeStatus)
      BY <1>3 DEF BeforeHandler
    <2>2. answer'.is = "terminated" /\ answer'.code = BeforeStatus
      BY <2>1, AnswersAre
    <2>3. ASSUME BeforeStatus = 400
          PROVE  Describing' = {}
      <3>1. request.path[1] \notin CouldBeStoryDevsPath
        BY <2>3 DEF BeforeStatus
      <3>2. Describing = {}
        BY <1>1, <3>1, BlocksFirst
      <3>. QED
        BY <1>1, <3>2, RequestKept
    <2>. QED
      BY <2>2, <2>3 DEF SpecificFirst
  <1>. QED
    BY <1>2, <1>3

LEMMA SpecificAccount ==
    ASSUME AddAccount
    PROVE  SpecificFirst'
  <1>1. answer = Nothing /\ request' = request
    BY DEF AddAccount, Looking, Searching
  <1>2. CASE request.cookie = "unknown"
    <2>1. answer' = Terminated(400)
      BY <1>2 DEF AddAccount
    <2>2. answer'.is = "terminated"
      BY <2>1, AnswersAre
    <2>. QED
      BY <1>1, <1>2, <2>2 DEF SpecificFirst
  <1>3. CASE request.cookie # "unknown"
    BY <1>1, <1>3, OtherAnswer DEF AddAccount
  <1>. QED
    BY <1>2, <1>3

LEMMA SpecificStep ==
    ASSUME Walk, SpecificFirst, [Next]_vars
    PROVE  SpecificFirst'
  <1>1. CASE \E q \in Requests : Arrive(q)
    BY <1>1, OtherAnswer DEF Arrive
  <1>2. CASE BeforeHandler
    BY <1>2, SpecificBefore
  <1>3. CASE AddAccount
    BY <1>3, SpecificAccount
  <1>4. CASE Pass \/ Enter \/ Leave
    BY <1>4, OtherAnswer DEF Pass, Enter, Leave, Looking, Searching
  <1>5. CASE Serve
    BY <1>5, SpecificServe
  <1>6. CASE NotFound
    BY <1>6, OtherAnswer DEF NotFound
  <1>7. CASE Finish
    BY <1>7, OtherAnswer DEF Finish
  <1>8. CASE UNCHANGED vars
    BY <1>8, SpecificKept DEF vars
  <1>. QED
    BY <1>1, <1>2, <1>3, <1>4, <1>5, <1>6, <1>7, <1>8 DEF Next

(* No request is given to a handler while a more specific route of the     *)
(* table describes it, and none that a route describes is refused by       *)
(* beforeHandler for its first segment: SpecificFirst, the order in which  *)
(* setup/routes.go adds its routes and the list of first segments that     *)
(* handler/before.go keeps.                                                *)
THEOREM SpecificFirstAlways == Spec => []SpecificFirst
  <1>1. Init => Walk /\ FirstFit /\ SpecificFirst
    <2>1. Init => SpecificFirst
      BY DEF Init, SpecificFirst
    <2>. QED
      BY <2>1, WalkStarts
  <1>2. Walk /\ FirstFit /\ SpecificFirst /\ [Next]_vars
            => Walk' /\ FirstFit' /\ SpecificFirst'
    BY WalkStep, SpecificStep
  <1>. QED
    BY <1>1, <1>2, PTL DEF Spec

-----------------------------------------------------------------------------
(* The search comes to an end. *)

(* The order in which the entries are written, those of a group after the  *)
(* group; no group has a hundred.                                          *)
Rank(a) == 100 * a[1] + (IF Len(a) = 2 THEN a[2] ELSE 0)

(* An entry is looked at once, and there are finitely many of them.        *)
MovesOn == Searching /\ Searching' => Rank(at) < Rank(at')
SearchEnds == [](Searching => Rank(at) \in 100..2900) /\ [][MovesOn]_vars

LEMMA RankIs ==
    /\ \A i \in 1..30 : Rank(<<i>>) = 100 * i
    /\ \A i \in Groups : \A j \in Nat : Rank(<<i, j>>) = 100 * i + j
  <1>1. ASSUME NEW i \in 1..30, NEW a, a = <<i>>
        PROVE  Rank(a) = 100 * i
    <2>1. Len(a) = 1 /\ a[1] = i
      BY <1>1
    <2>. QED
      BY <2>1 DEF Rank
  <1>2. ASSUME NEW i \in Groups, NEW j \in Nat, NEW a, a = <<i, j>>
        PROVE  Rank(a) = 100 * i + j
    <2>1. Len(a) = 2 /\ a[1] = i /\ a[2] = j
      BY <1>2
    <2>. QED
      BY <2>1 DEF Rank
  <1>. QED
    BY <1>1, <1>2

(* Where the search stands, with the lengths of the groups. *)
LEMMA StandingIs ==
    ASSUME Standing
    PROVE  \/ \E i \in 1..29 : at = <<i>>
           \/ \E i \in Groups : \E j \in 1..31 : at = <<i, j>>
  <1>1. Len(MustRoutes[27].route) = 30 /\ Len(MustRoutes[28].route) = 11
    BY TableParts, AccountRoutesOK, AdminRoutesOK
  <1>2. ASSUME NEW i \in Groups, NEW j \in 1..(Len(MustRoutes[i].route) + 1)
        PROVE  j \in 1..31
    <2>1. PICK n : n = Len(MustRoutes[i].route)
      OBVIOUS
    <2>2. i = 27 \/ i = 28
      BY DEF Groups
    <2>3. n = 30 \/ n = 11
      BY <1>1, <2>1, <2>2
    <2>4. j \in 1..(n + 1)
      BY <2>1
    <2>. QED
      BY <2>3, <2>4
  <1>3. CASE \E i \in Groups : \E j \in 1..(Len(MustRoutes[i].route) + 1) : at = <<i, j>>
    <2>1. PICK i \in Groups : \E j \in 1..(Len(MustRoutes[i].route) + 1) : at = <<i, j>>
      BY <1>3
    <2>2. PICK j \in 1..(Len(MustRoutes[i].route) + 1) : at = <<i, j>>
      BY <2>1
    <2>3. j \in 1..31
      BY <1>2
    <2>. QED
      BY <2>2, <2>3
  <1>. QED
    BY <1>3 DEF Standing

LEMMA AdvanceMoves ==
    ASSUME Standing, Advance
    PROVE  Rank(at) < Rank(at')
  <1>1. CASE \E i \in 1..29 : at = <<i>>
    <2>1. PICK i \in 1..29 : at = <<i>>
      BY <1>1
    <2>2. at' = <<i + 1>>
      BY <2>1, AdvanceSingle
    <2>3. i + 1 \in 1..30 /\ i \in 1..30 /\ 100 * i < 100 * (i + 1)
      OBVIOUS
    <2>. QED
      BY <2>1, <2>2, <2>3, RankIs
  <1>2. CASE \E i \in Groups : \E j \in 1..31 : at = <<i, j>>
    <2>1. PICK i \in Groups : \E j \in 1..31 : at = <<i, j>>
      BY <1>2
    <2>2. PICK j \in 1..31 : at = <<i, j>>
      BY <2>1
    <2>3. at' = <<i, j + 1>>
      BY <2>2, AdvanceGroup
    <2>4. j \in Nat /\ j + 1 \in Nat /\ 100 * i + j < 100 * i + (j + 1)
      BY DEF Groups
    <2>. QED
      BY <2>2, <2>3, <2>4, RankIs
  <1>. QED
    BY <1>1, <1>2, StandingIs

LEMMA EnterMoves ==
    ASSUME Walk, Enter
    PROVE  Rank(at) < Rank(at')
  <1>1. Looking /\ Searching /\ Current.use = "" /\ request \in Requests /\ Standing
    BY DEF Enter, Looking, Walk
  <1>2. CASE AtRoute
    <2>1. Current.route = <<>>
      BY <1>2 DEF AtRoute, RouteOK
    <2>. QED
      BY <1>1, <2>1, AdvanceMoves DEF Enter
  <1>3. CASE \E i \in Groups : at = <<i>> /\ Current = MustRoutes[i] /\ Current.use = ""
    <2>1. PICK i \in Groups : at = <<i>> /\ Current = MustRoutes[i]
      BY <1>3
    <2>2. at' = <<i, 1>>
      <3>1. at' = Append(at, 1)
        BY <2>1, GroupRoutes DEF Enter
      <3>. QED
        BY <2>1, <3>1, AppendIs DEF Groups
    <2>3. i \in 1..30 /\ 100 * i < 100 * i + 1
      BY DEF Groups
    <2>. QED
      BY <2>1, <2>2, <2>3, RankIs
  <1>. QED
    BY <1>1, <1>2, <1>3, LookingAt

LEMMA LeaveMoves ==
    ASSUME Walk, Leave
    PROVE  Rank(at) < Rank(at')
  <1>1. Standing /\ Len(at) > 1 /\ at' = <<at[1] + 1>>
    BY DEF Leave, Searching, Walk
  <1>2. ~\E i \in 1..29 : at = <<i>>
    <2>1. ASSUME NEW i \in 1..29, at = <<i>>
          PROVE  FALSE
      <3>1. Len(at) = 1
        BY <2>1
      <3>. QED
        BY <1>1, <3>1
    <2>. QED
      BY <2>1
  <1>3. PICK i \in Groups : \E j \in 1..31 : at = <<i, j>>
    BY <1>1, <1>2, StandingIs
  <1>4. PICK j \in 1..31 : at = <<i, j>>
    BY <1>3
  <1>5. at[1] = i
    BY <1>4
  <1>6. at' = <<i + 1>>
    BY <1>1, <1>5
  <1>7. j \in Nat /\ i + 1 \in 1..30 /\ 100 * i + j < 100 * (i + 1)
    BY DEF Groups
  <1>. QED
    BY <1>4, <1>6, <1>7, RankIs

LEMMA StepMoves ==
    ASSUME Walk, [Next]_vars
    PROVE  [MovesOn]_vars
  <1>1. ASSUME Next, Searching, Searching'
        PROVE  Rank(at) < Rank(at')
    <2>1. request # Nothing /\ answer = Nothing /\ answer' = Nothing /\ Standing
      BY <1>1 DEF Searching, Walk
    <2>2. ~\E q \in Requests : Arrive(q)
      BY <2>1 DEF Arrive
    <2>3. ~Finish
      BY <2>1 DEF Finish
    <2>4. ~Serve /\ ~NotFound
      BY <2>1, StatusIs, ServedNothing DEF Serve, NotFound
    <2>5. CASE BeforeHandler
      BY <2>1, <2>5, TerminatedIs, AdvanceMoves DEF BeforeHandler
    <2>6. CASE AddAccount
      BY <2>1, <2>6, TerminatedIs, AdvanceMoves DEF AddAccount
    <2>7. CASE Pass
      BY <2>1, <2>7, AdvanceMoves DEF Pass
    <2>8. CASE Enter
      BY <2>8, EnterMoves
    <2>9. CASE Leave
      BY <2>9, LeaveMoves
    <2>. QED
      BY <1>1, <2>2, <2>3, <2>4, <2>5, <2>6, <2>7, <2>8, <2>9 DEF Next
  <1>. QED
    BY <1>1 DEF MovesOn

(* A search of the table moves forward with every step and never beyond    *)
(* its end, however entries, prefixes and groups match: iterateRoutes,     *)
(* which calls itself for a group and goes on behind it, looks at no entry *)
(* twice and is done with a request after finitely many.                   *)
THEOREM SearchesEnd == Spec => SearchEnds
  <1>1. Walk => (Searching => Rank(at) \in 100..2900)
    <2>1. ASSUME Standing
          PROVE  Rank(at) \in 100..2900
      <3>1. CASE \E i \in 1..29 : at = <<i>>
        <4>1. PICK i \in 1..29 : at = <<i>>
          BY <3>1
        <4>2. Rank(at) = 100 * i
          BY <4>1, RankIs
        <4>. QED
          BY <4>2
      <3>2. CASE \E i \in Groups : \E j \in 1..31 : at = <<i, j>>
        <4>1. PICK i \in Groups : \E j \in 1..31 : at = <<i, j>>
          BY <3>2
        <4>2. PICK j \in 1..31 : at = <<i, j>>
          BY <4>1
        <4>3. Rank(at) = 100 * i + j
          BY <4>2, RankIs
        <4>4. i = 27 \/ i = 28
          BY DEF Groups
        <4>. QED
          BY <4>3, <4>4
      <3>. QED
        BY <2>1, <3>1, <3>2, StandingIs
    <2>. QED
      BY <2>1 DEF Walk
  <1>2. Walk /\ [Next]_vars => [MovesOn]_vars
    BY StepMoves
  <1>3. Init => Walk /\ FirstFit
    BY WalkStarts
  <1>4. Walk /\ FirstFit /\ [Next]_vars => Walk' /\ FirstFit'
    BY WalkStep
  <1>. QED
    BY <1>1, <1>2, <1>3, <1>4, PTL DEF Spec, SearchEnds
=============================================================================
