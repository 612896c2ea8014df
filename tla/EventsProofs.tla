----------------------------- MODULE EventsProofs -----------------------------
(***************************************************************************)
(* What Events promises, for every clock, every set of zones, forms,       *)
(* searches and every number of attempts.                                  *)
(*                                                                         *)
(* The first part is arithmetic: days and weeks are products of a constant *)
(* that is not known, so the facts about quotients and remainders that are *)
(* needed are proved from multiplication.  The second part is about one    *)
(* event and one search, the third the invariant.                          *)
(***************************************************************************)
EXTENDS Events, FiniteSetTheorems, TLAPS

-----------------------------------------------------------------------------
(* Quotients and remainders. *)

LEMMA Division ==
    ASSUME NEW a \in Int, NEW n \in Nat \ {0}
    PROVE  a \div n \in Int /\ a % n \in 0..(n - 1) /\ a = n * (a \div n) + (a % n)
  OBVIOUS

LEMMA Divided ==
    ASSUME NEW a \in Int, NEW n \in Nat \ {0}
    PROVE  \E q \in Int, r \in 0..(n - 1) : q = a \div n /\ r = a % n /\ a = n * q + r
  BY Division

LEMMA ProductInt == ASSUME NEW a \in Int, NEW b \in Int PROVE a * b \in Int
  OBVIOUS

LEMMA ProductGrows ==
    ASSUME NEW n \in Nat \ {0}, NEW a \in Int, NEW b \in Int, a < b
    PROVE  n * a + n <= n * b
  OBVIOUS

LEMMA DivisionUnique ==
    ASSUME NEW n \in Nat \ {0}, NEW p \in Int, NEW q \in Int,
           NEW r \in 0..(n - 1), NEW s \in 0..(n - 1), n * p + r = n * q + s
    PROVE  p = q /\ r = s
  <1>1. n * p \in Int /\ n * q \in Int
    BY ProductInt
  <1>2. CASE p < q
    BY <1>1, <1>2, ProductGrows
  <1>3. CASE q < p
    BY <1>1, <1>3, ProductGrows
  <1>. QED
    BY <1>1, <1>2, <1>3

LEMMA DivisionIs ==
    ASSUME NEW a \in Int, NEW n \in Nat \ {0}, NEW q \in Int, NEW r \in 0..(n - 1),
           a = n * q + r
    PROVE  a \div n = q /\ a % n = r
  <1>1. PICK p \in Int, s \in 0..(n - 1) : p = a \div n /\ s = a % n /\ a = n * p + s
    BY Division
  <1>2. n * p + s = n * q + r
    BY <1>1
  <1>3. p = q /\ s = r
    BY <1>2, DivisionUnique
  <1>. QED
    BY <1>1, <1>3

LEMMA MultipleRemainder ==
    ASSUME NEW n \in Nat \ {0}, NEW k \in Int, NEW a \in Int, a = n * k
    PROVE  a % n = 0
  BY DivisionIs, 0 \in 0..(n - 1), a = n * k + 0

LEMMA WeekIs == DayLen \in Nat \ {0} /\ Week = 7 * DayLen /\ Week \in Nat \ {0}
  <1>1. DayLen \in Nat \ {0}
    BY EventsAssumption
  <1>2. 7 * DayLen \in Nat \ {0}
    BY <1>1
  <1>. QED
    BY <1>1, <1>2 DEF Week

(* The place in the week is the day and the place in the day. *)
LEMMA WeekSplit ==
    ASSUME NEW t \in Int
    PROVE  /\ t \div DayLen \in Int /\ (t \div DayLen) % 7 \in 0..6
           /\ t % DayLen \in 0..(DayLen - 1)
           /\ DayLen * ((t \div DayLen) % 7) \in Int
           /\ t % Week = DayLen * ((t \div DayLen) % 7) + (t % DayLen)
  <1>1. PICK d \in Int, r \in 0..(DayLen - 1) :
            d = t \div DayLen /\ r = t % DayLen /\ t = DayLen * d + r
    BY WeekIs, Division
  <1>2. PICK k \in Int, w \in 0..6 : k = d \div 7 /\ w = d % 7 /\ d = 7 * k + w
    BY Division
  <1>3. DayLen * w \in Int /\ DayLen * k \in Int /\ Week * k \in Int /\ DayLen * d \in Int
    BY WeekIs, ProductInt
  <1>4. 0 <= DayLen * w /\ DayLen * w <= DayLen * 6
    BY WeekIs, <1>3
  <1>5. DayLen * d = Week * k + DayLen * w
    BY WeekIs, <1>2
  <1>6. t = Week * k + (DayLen * w + r)
    BY <1>1, <1>3, <1>5
  <1>7. DayLen * w + r \in 0..(Week - 1)
    BY <1>3, <1>4, WeekIs
  <1>8. PICK x \in 0..(Week - 1) : x = DayLen * w + r /\ t = Week * k + x
    BY <1>6, <1>7
  <1>9. t % Week = x
    BY <1>8, WeekIs, DivisionIs
  <1>. QED
    BY <1>1, <1>2, <1>3, <1>8, <1>9

-----------------------------------------------------------------------------
(* Occurrences. *)

LEMMA OffsetInt ==
    ASSUME NEW zone \in Zones
    PROVE  Offset[zone] \in Int /\ OffFromUTC(zone) \in Int /\ OffFromUTC(zone) = Offset[zone]
  BY EventsAssumption DEF OffFromUTC

LEMMA TodayIs ==
    ASSUME now \in Int
    PROVE  /\ Today \in Int /\ Today <= now /\ now < Today + DayLen
           /\ Today = DayLen * (now \div DayLen) /\ now \div DayLen \in Int
  <1>1. PICK d \in Int, r \in 0..(DayLen - 1) :
            d = now \div DayLen /\ r = now % DayLen /\ now = DayLen * d + r
    BY WeekIs, Division
  <1>2. DayLen * d \in Int /\ d * DayLen = DayLen * d
    BY WeekIs, ProductInt
  <1>3. Today = DayLen * d
    BY <1>1, <1>2 DEF Today
  <1>. QED
    BY <1>1, <1>2, <1>3, WeekIs

LEMMA OccurrenceIs ==
    ASSUME NEW t \in Int, NEW zone \in Zones, now \in Int
    PROVE  /\ NextOccurrence(t, zone) \in Today..(Today + Week - 1)
           /\ (NextOccurrence(t, zone) - (t + Offset[zone])) % Week = 0
  <1>1. PICK wall \in Int : wall = t + Offset[zone]
    BY OffsetInt
  <1>2. PICK d \in Int, r \in 0..(DayLen - 1) :
            d = wall \div DayLen /\ r = wall % DayLen /\ wall = DayLen * d + r
    BY WeekIs, Division
  <1>3. PICK n \in Int, today \in Int :
            n = now \div DayLen /\ today = Today /\ today = DayLen * n
    BY TodayIs
  <1>4. PICK m \in 0..6 : m = ((d % 7) - (n % 7)) % 7
    OBVIOUS
  <1>5. PICK k \in Int : n + m - d = 7 * k
    <2>1. (n + m - d) % 7 = 0
      BY <1>4
    <2>. QED
      BY <2>1, (n + m - d) \div 7 \in Int
  <1>6. PICK shown \in Int : shown = today + DayLen * m + r /\ DayLen * m \in 0..(DayLen * 6)
    <2>1. DayLen * m \in Int /\ 0 <= DayLen * m /\ DayLen * m <= DayLen * 6
      BY WeekIs
    <2>. QED
      BY <2>1, <1>3, WeekIs
  <1>7. NextOccurrence(t, zone) = shown
    <2>1. m * DayLen = DayLen * m
      BY WeekIs
    <2>. QED
      BY <1>1, <1>2, <1>3, <1>4, <1>6, <2>1 DEF NextOccurrence, Weekday
  <1>8. shown \in Today..(Today + Week - 1)
    BY <1>3, <1>6, WeekIs
  <1>9. (shown - wall) % Week = 0
    <2>1. PICK x \in Int, y \in Int, z \in Int :
              x = DayLen * n /\ y = DayLen * m /\ z = DayLen * d
      BY WeekIs, ProductInt
    <2>2. shown - wall = DayLen * (n + m - d)
      <3>1. r \in Int /\ today = x /\ shown = x + y + r /\ wall = z + r
        BY <1>2, <1>3, <1>6, <2>1, WeekIs
      <3>2. DayLen * (n + m - d) = x + y - z
        BY <2>1, WeekIs
      <3>3. shown - wall = x + y - z
        BY <3>1
      <3>. QED
        BY <3>2, <3>3
    <2>3. DayLen * (7 * k) = Week * k
      BY WeekIs
    <2>4. PICK w \in Int : w = shown - wall /\ w = Week * k
      BY <1>5, <2>2, <2>3
    <2>. QED
      BY <2>4, WeekIs, MultipleRemainder
  <1>. QED
    BY <1>1, <1>7, <1>8, <1>9

-----------------------------------------------------------------------------
(* Rows, and what the editor makes of them. *)

LEMMA EventFields ==
    ASSUME NEW e \in Event
    PROVE  /\ e.start \in Times /\ e.start \in Int /\ e.zone \in Zones
           /\ e.weekly \in BOOLEAN /\ e.public \in BOOLEAN
           /\ e.finish \in Optional /\ e.finish \subseteq Int
           /\ e.finish = {} \/ \E f \in Times : e.finish = {f}
           /\ Ends(e) \subseteq Int /\ \E f \in Int : Ends(e) = {f}
           /\ e = [start |-> e.start, finish |-> e.finish, weekly |-> e.weekly,
                   zone |-> e.zone, public |-> e.public]
  <1>1. Times \subseteq Int
    BY WeekIs, EventsAssumption DEF Times
  <1>. QED
    BY <1>1 DEF Event, Optional, Ends


(* Saving what the editor shows stores what was retrieved. *)
LEMMA EditorRoundTrip ==
    ASSUME NEW e \in Event
    PROVE  DateTimeToUTC(Populate(e)) = e
  <1>1. PICK off \in Int : off = OffFromUTC(e.zone)
    BY EventFields, OffsetInt
  <1>2. PICK p : p = Populate(e)
    OBVIOUS
  <1>3. /\ p.start = e.start + off /\ p.finish = {f + off : f \in e.finish}
        /\ p.zone = e.zone /\ p.weekly = e.weekly /\ p.public = e.public
        /\ p = [start |-> p.start, finish |-> p.finish, weekly |-> p.weekly,
                zone |-> p.zone, public |-> p.public]
    BY <1>1, <1>2 DEF Populate, Event
  <1>4. PICK d : d = DateTimeToUTC(p)
    OBVIOUS
  <1>5. /\ d.start = p.start - off /\ d.finish = {f - off : f \in p.finish}
        /\ d.zone = p.zone /\ d.weekly = p.weekly /\ d.public = p.public
        /\ d = [start |-> d.start, finish |-> d.finish, weekly |-> d.weekly,
                zone |-> d.zone, public |-> d.public]
    BY <1>1, <1>3, <1>4 DEF DateTimeToUTC
  <1>6. d.start = e.start
    BY <1>1, <1>3, <1>5, EventFields
  <1>7. d.finish = e.finish
    <2>1. \A f \in e.finish : f \in Int /\ f + off - off = f
      BY <1>1, EventFields
    <2>2. \A f \in e.finish : f + off \in p.finish
      BY <1>3
    <2>3. e.finish \subseteq d.finish
      BY <1>5, <2>1, <2>2
    <2>4. d.finish \subseteq e.finish
      BY <1>3, <1>5, <2>1
    <2>. QED
      BY <2>3, <2>4
  <1>. QED
    BY <1>2, <1>3, <1>4, <1>5, <1>6, <1>7, EventFields

LEMMA OccurrenceTime ==
    ASSUME NEW t \in Int, NEW zone \in Zones, now \in 0..MaxNow
    PROVE  NextOccurrence(t, zone) \in Times
  <1>1. MaxNow \in Nat
    BY EventsAssumption
  <1>2. PICK today \in Int : today = Today /\ today <= now /\ now < today + DayLen
    BY <1>1, TodayIs
  <1>3. NextOccurrence(t, zone) \in today..(today + Week - 1)
    BY <1>1, <1>2, OccurrenceIs
  <1>4. \A x \in today..(today + Week - 1) : x \in (-DayLen)..(MaxNow + 4 * Week)
    BY <1>1, <1>2, WeekIs
  <1>. QED
    BY <1>3, <1>4 DEF Times

LEMMA RetrievedEvent ==
    ASSUME NEW e \in Event, now \in 0..MaxNow
    PROVE  Retrieved(e) \in Event /\ Retrieved(e).zone = e.zone
  <1>1. CASE ~Recurred(e)
    BY <1>1 DEF Retrieved
  <1>2. CASE Recurred(e)
    <2>1. PICK r : r = Retrieved(e)
      OBVIOUS
    <2>2. /\ r.start = NextOccurrence(e.start, e.zone)
          /\ r.finish = {NextOccurrence(f, e.zone) : f \in e.finish}
          /\ r.zone = e.zone /\ r.weekly = e.weekly /\ r.public = e.public
          /\ r = [start |-> r.start, finish |-> r.finish, weekly |-> r.weekly,
                  zone |-> r.zone, public |-> r.public]
      BY <1>2, <2>1 DEF Retrieved, Event
    <2>3. r.start \in Times
      BY <2>2, EventFields, OccurrenceTime
    <2>4. r.finish \in Optional
      BY <2>2, EventFields, OccurrenceTime DEF Optional
    <2>. QED
      BY <2>1, <2>2, <2>3, <2>4, EventFields DEF Event
  <1>. QED
    BY <1>1, <1>2

-----------------------------------------------------------------------------
(* The invariant. *)

RowsOK ==
    /\ now \in 0..MaxNow
    /\ DOMAIN event \subseteq Slugs /\ IsFiniteSet(DOMAIN event)
    /\ \A e \in DOMAIN event : event[e] \in Event

(* What is public has been public, and so has what a search for public     *)
(* events has found, until the next search; only another attempt finds an  *)
(* event again.                                                            *)
ListingOK ==
    /\ listing \in Listing
    /\ wasPublic \subseteq Slugs /\ Public \subseteq wasPublic
    /\ listing.phase = "searching" =>
           listing.shown = <<>> /\ (listing.attempt = 1 => listing.slugs = <<>>)
    /\ ~listing.query.all => ToSet(listing.slugs) \cup ToSet(listing.shown) \subseteq wasPublic
    /\ listing.attempt = 1 =>
           /\ IsInjective(listing.slugs) /\ IsInjective(listing.shown)
           /\ ToSet(listing.slugs) \cap ToSet(listing.shown) = {}

IInv == RowsOK /\ ListingOK

LEMMA ListingFields ==
    ASSUME NEW l \in Listing
    PROVE  /\ l.attempt \in 1..TxTries /\ l.query \in Pages
           /\ l.slugs \in Seq(Slugs) /\ l.shown \in Seq(Slugs)
           /\ l.phase \in {"none", "searching", "showing", "shown", "failed"}
  BY DEF Listing

LEMMA ConcatSet ==
    ASSUME NEW S, NEW s \in Seq(S), NEW t \in Seq(S)
    PROVE  s \o t \in Seq(S) /\ ToSet(s \o t) \subseteq ToSet(s) \cup ToSet(t)
  <1>1. \A i \in 1..Len(s \o t) : (s \o t)[i] \in ToSet(s) \cup ToSet(t)
    <2>1. SUFFICES ASSUME NEW i \in 1..Len(s \o t)
                   PROVE  (s \o t)[i] \in ToSet(s) \cup ToSet(t)
      OBVIOUS
    <2>2. CASE i <= Len(s)
      BY <2>2 DEF ToSet
    <2>3. CASE i > Len(s)
      <3>1. i - Len(s) \in DOMAIN t /\ (s \o t)[i] = t[i - Len(s)]
        BY <2>3
      <3>. QED
        BY <3>1 DEF ToSet
    <2>. QED
      BY <2>2, <2>3
  <1>. QED
    BY <1>1 DEF ToSet

LEMMA RowsFound ==
    ASSUME RowsOK, NEW q, NEW rows \in Rows(q)
    PROVE  /\ rows \in Seq(Slugs) /\ IsInjective(rows)
           /\ ToSet(rows) \subseteq Found(q)
  <1>1. Found(q) \subseteq Slugs /\ IsFiniteSet(Found(q))
    BY FS_Subset DEF Found, RowsOK
  <1>2. PICK n \in Nat : n = Cardinality(Found(q))
    BY <1>1, FS_CardinalityType
  <1>3. /\ rows \in [1..n -> Found(q)]
        /\ \A i, j \in 1..n : i # j => rows[i] # rows[j]
    BY <1>2 DEF Rows, SetToSeqs
  <1>4. rows \in Seq(Slugs)
    BY <1>1, <1>3
  <1>. QED
    BY <1>3, <1>4 DEF IsInjective, ToSet

LEMMA SelectsPublic ==
    ASSUME RowsOK, NEW q, ~q.all, NEW rows \in Rows(q)
    PROVE  ToSet(rows) \subseteq Public
  <1>1. Found(q) \subseteq Public
    BY DEF Found, Matches, Public
  <1>. QED
    BY <1>1, RowsFound

LEMMA StoredKeeps ==
    ASSUME IInv, NEW new, Stored(new), DOMAIN new \subseteq Slugs, IsFiniteSet(DOMAIN new),
           \A e \in DOMAIN new : new[e] \in Event
    PROVE  IInv'
  <1>1. RowsOK'
    BY DEF IInv, RowsOK, Stored
  <1>2. wasPublic \subseteq wasPublic' /\ wasPublic' \subseteq Slugs /\ Public' \subseteq wasPublic'
    BY DEF IInv, ListingOK, Stored, Public
  <1>3. ListingOK'
    BY <1>2 DEF IInv, ListingOK, Stored
  <1>. QED
    BY <1>1, <1>3 DEF IInv

LEMMA SubmittedStays ==
    ASSUME IInv, NEW slug \in Slugs, NEW form, DateTimeToUTC(form) \in Event
    PROVE  (Create(slug, form) => IInv') /\ (Update(slug, form) => IInv')
  <1>1. PICK row \in Event : row = DateTimeToUTC(form)
    OBVIOUS
  <1>2. CASE Create(slug, form)
    <2>1. PICK new : new = [e \in DOMAIN event \cup {slug} |-> IF e = slug THEN row ELSE event[e]]
      OBVIOUS
    <2>2. /\ DOMAIN new = DOMAIN event \cup {slug} /\ DOMAIN new \subseteq Slugs
          /\ \A e \in DOMAIN new : new[e] \in Event
      BY <2>1 DEF IInv, RowsOK
    <2>3. IsFiniteSet(DOMAIN new)
      BY <2>2, FS_AddElement DEF IInv, RowsOK
    <2>4. Stored(new)
      BY <1>1, <1>2, <2>1 DEF Create
    <2>. QED
      BY <2>2, <2>3, <2>4, StoredKeeps
  <1>3. CASE Update(slug, form)
    <2>1. PICK new : new = [event EXCEPT ![slug] = row]
      OBVIOUS
    <2>2. /\ DOMAIN new = DOMAIN event
          /\ \A e \in DOMAIN new : new[e] \in Event
      BY <2>1 DEF IInv, RowsOK
    <2>3. Stored(new)
      BY <1>1, <1>3, <2>1 DEF Update
    <2>. QED
      BY <2>2, <2>3, StoredKeeps DEF IInv, RowsOK
  <1>. QED
    BY <1>2, <1>3

LEMMA DeleteKeeps ==
    ASSUME IInv, NEW slug \in Slugs, Delete(slug)
    PROVE  IInv'
  <1>1. PICK new : new = [e \in DOMAIN event \ {slug} |-> event[e]]
    OBVIOUS
  <1>2. /\ DOMAIN new \subseteq DOMAIN event
        /\ \A e \in DOMAIN new : new[e] \in Event
    BY <1>1 DEF IInv, RowsOK
  <1>3. Stored(new)
    BY <1>1 DEF Delete
  <1>. QED
    BY <1>2, <1>3, FS_Subset, StoredKeeps DEF IInv, RowsOK

LEMMA ResaveKeeps ==
    ASSUME IInv, NEW slug \in Slugs, Resave(slug)
    PROVE  IInv'
  <1>1. PICK row \in Event : row = event[slug]
    BY DEF Resave, IInv, RowsOK
  <1>2. Retrieved(row) \in Event
    BY RetrievedEvent DEF IInv, RowsOK
  <1>3. DateTimeToUTC(Populate(Retrieved(row))) \in Event
    BY <1>2, EditorRoundTrip
  <1>4. Update(slug, Populate(Retrieved(row)))
    BY <1>1 DEF Resave
  <1>. QED
    BY <1>3, <1>4, SubmittedStays

LEMMA EmptyList == ToSet(<<>>) = {} /\ IsInjective(<<>>) /\ <<>> \in Seq(Slugs)
  BY DEF ToSet, IsInjective

LEMMA NoListingFits == NoListing \in Listing /\ NoListing.slugs = <<>> /\ NoListing.shown = <<>>
  <1>1. (CHOOSE q \in Pages : TRUE) \in Pages
    BY EventsAssumption
  <1>2. 1 \in 1..TxTries
    BY EventsAssumption
  <1>. QED
    BY <1>1, <1>2, EmptyList DEF NoListing, Listing

LEMMA SearchKeeps ==
    ASSUME IInv, NEW q \in Pages, Search(q)
    PROVE  IInv'
  <1>1. RowsOK'
    BY DEF IInv, RowsOK, Search
  <1>2. PICK l : l = [NoListing EXCEPT !.phase = "searching", !.query = q]
    OBVIOUS
  <1>3. l \in Listing /\ l.slugs = <<>> /\ l.shown = <<>>
    BY <1>2, NoListingFits DEF Listing
  <1>4. listing' = l
    BY <1>2 DEF Search
  <1>5. wasPublic' = Public /\ Public' = Public /\ Public \subseteq Slugs
    BY DEF Search, Public, IInv, RowsOK
  <1>6. ListingOK'
    BY <1>3, <1>4, <1>5, EmptyList DEF ListingOK
  <1>. QED
    BY <1>1, <1>6 DEF IInv

(* What Select, SelectAborted, ShowNext and ShowEnd leave alone. *)
LEMMA ListingStep ==
    ASSUME IInv, UNCHANGED <<now, event, wasPublic>>, NEW l \in Listing, listing' = l,
           l.phase = "searching" => l.shown = <<>> /\ (l.attempt = 1 => l.slugs = <<>>),
           ~l.query.all => ToSet(l.slugs) \cup ToSet(l.shown) \subseteq wasPublic,
           l.attempt = 1 => /\ IsInjective(l.slugs) /\ IsInjective(l.shown)
                            /\ ToSet(l.slugs) \cap ToSet(l.shown) = {}
    PROVE  IInv'
  <1>1. RowsOK'
    BY DEF IInv, RowsOK
  <1>2. Public' = Public
    BY DEF Public
  <1>3. ListingOK'
    BY <1>2 DEF IInv, ListingOK
  <1>. QED
    BY <1>1, <1>3 DEF IInv

LEMMA AppendedRows ==
    ASSUME IInv, listing.phase = "searching", NEW rows \in Rows(listing.query), NEW s,
           s = listing.slugs \o rows
    PROVE  /\ s \in Seq(Slugs)
           /\ ~listing.query.all => ToSet(s) \subseteq wasPublic
           /\ listing.attempt = 1 => IsInjective(s)
  <1>1. listing.slugs \in Seq(Slugs) /\ rows \in Seq(Slugs) /\ IsInjective(rows)
    BY ListingFields, RowsFound DEF IInv, ListingOK
  <1>2. s \in Seq(Slugs) /\ ToSet(s) \subseteq ToSet(listing.slugs) \cup ToSet(rows)
    BY <1>1, ConcatSet
  <1>3. ASSUME ~listing.query.all PROVE ToSet(s) \subseteq wasPublic
    <2>1. ToSet(rows) \subseteq Public
      BY <1>3, SelectsPublic DEF IInv
    <2>. QED
      BY <1>2, <1>3, <2>1 DEF IInv, ListingOK
  <1>4. ASSUME listing.attempt = 1 PROVE IsInjective(s)
    <2>1. s = rows
      BY <1>1, <1>4 DEF IInv, ListingOK
    <2>. QED
      BY <1>1, <2>1
  <1>. QED
    BY <1>2, <1>3, <1>4

LEMMA SelectKeeps ==
    ASSUME IInv, Select
    PROVE  IInv'
  <1>1. PICK rows \in Rows(listing.query) :
            listing' = [listing EXCEPT !.phase = "showing", !.slugs = @ \o rows]
    BY DEF Select
  <1>2. PICK s : s = listing.slugs \o rows
    OBVIOUS
  <1>3. PICK l : l = [listing EXCEPT !.phase = "showing", !.slugs = s]
    OBVIOUS
  <1>4. listing' = l /\ listing \in Listing /\ listing.phase = "searching" /\ listing.shown = <<>>
    BY <1>1, <1>2, <1>3 DEF Select, IInv, ListingOK
  <1>5. /\ s \in Seq(Slugs)
        /\ ~listing.query.all => ToSet(s) \subseteq wasPublic
        /\ listing.attempt = 1 => IsInjective(s)
    BY <1>2, <1>4, AppendedRows
  <1>6. /\ l \in Listing /\ l.phase = "showing" /\ l.query = listing.query
        /\ l.attempt = listing.attempt /\ l.slugs = s /\ l.shown = <<>>
    BY <1>3, <1>4, <1>5 DEF Listing
  <1>7. UNCHANGED <<now, event, wasPublic>>
    BY DEF Select
  <1>. QED
    BY <1>4, <1>5, <1>6, <1>7, EmptyList, ListingStep

LEMMA SelectAbortedKeeps ==
    ASSUME IInv, SelectAborted
    PROVE  IInv'
  <1>1. PICK rows \in Rows(listing.query) :
            listing' = IF listing.attempt < TxTries
                       THEN [listing EXCEPT !.attempt = @ + 1, !.slugs = @ \o rows]
                       ELSE [listing EXCEPT !.phase = "failed"]
    BY DEF SelectAborted
  <1>2. PICK s : s = listing.slugs \o rows
    OBVIOUS
  <1>3. listing \in Listing /\ listing.phase = "searching" /\ listing.shown = <<>>
    BY DEF SelectAborted, IInv, ListingOK
  <1>4. /\ s \in Seq(Slugs)
        /\ ~listing.query.all => ToSet(s) \subseteq wasPublic
    BY <1>2, <1>3, AppendedRows
  <1>5. UNCHANGED <<now, event, wasPublic>>
    BY DEF SelectAborted
  <1>6. CASE listing.attempt < TxTries
    <2>1. PICK l : l = [listing EXCEPT !.attempt = @ + 1, !.slugs = s]
      OBVIOUS
    <2>2. listing' = l
      BY <1>1, <1>2, <1>6, <2>1
    <2>3. listing.attempt + 1 \in 1..TxTries /\ listing.attempt + 1 # 1
      BY <1>3, <1>6, ListingFields, EventsAssumption
    <2>4. /\ l \in Listing /\ l.query = listing.query /\ l.attempt # 1
          /\ l.slugs = s /\ l.shown = <<>>
      BY <1>3, <1>4, <2>1, <2>3 DEF Listing
    <2>. QED
      BY <1>4, <1>5, <2>2, <2>4, EmptyList, ListingStep
  <1>7. CASE ~(listing.attempt < TxTries)
    <2>1. PICK l : l = [listing EXCEPT !.phase = "failed"]
      OBVIOUS
    <2>2. listing' = l
      BY <1>1, <1>7, <2>1
    <2>3. /\ l \in Listing /\ l.phase = "failed" /\ l.query = listing.query
          /\ l.attempt = listing.attempt /\ l.slugs = listing.slugs /\ l.shown = listing.shown
      BY <1>3, <2>1 DEF Listing
    <2>. QED
      BY <1>5, <2>2, <2>3, ListingStep DEF IInv, ListingOK
  <1>. QED
    BY <1>6, <1>7

(* The head of s is moved to the end of d: no slug comes in, and if the    *)
(* two repeat nothing they repeat nothing afterwards.                      *)
Moved(s, d, t, u) ==
    /\ ToSet(t) \subseteq ToSet(s) /\ ToSet(u) \subseteq ToSet(d) \cup ToSet(s)
    /\ IsInjective(s) /\ IsInjective(d) /\ ToSet(s) \cap ToSet(d) = {} =>
           IsInjective(t) /\ IsInjective(u) /\ ToSet(t) \cap ToSet(u) = {}

LEMMA HeadMoves ==
    ASSUME NEW S, NEW s \in Seq(S), NEW d \in Seq(S), s # <<>>,
           NEW t, t = Tail(s), NEW u, u = Append(d, Head(s))
    PROVE  Moved(s, d, t, u)
  <1>1. /\ t \in Seq(S) /\ Len(t) = Len(s) - 1 /\ Len(s) \in Nat \ {0}
        /\ \A i \in 1..Len(t) : i + 1 \in 1..Len(s) /\ t[i] = s[i + 1]
    OBVIOUS
  <1>2. /\ u \in Seq(S) /\ Len(u) = Len(d) + 1 /\ Len(d) \in Nat
        /\ \A i \in 1..Len(d) : u[i] = d[i]
        /\ u[Len(u)] = s[1] /\ 1 \in 1..Len(s)
    BY <1>1
  <1>3. ToSet(t) \subseteq ToSet(s)
    BY <1>1 DEF ToSet
  <1>4. \A i \in 1..Len(u) : i \in 1..Len(d) \/ i = Len(u)
    BY <1>2
  <1>5. ToSet(u) \subseteq ToSet(d) \cup ToSet(s)
    <2>1. \A i \in 1..Len(u) : u[i] \in ToSet(d) \/ u[i] \in ToSet(s)
      BY <1>1, <1>2, <1>4 DEF ToSet
    <2>. QED
      BY <1>2, <2>1 DEF ToSet
  <1>6. ASSUME IsInjective(s), IsInjective(d), ToSet(s) \cap ToSet(d) = {}
        PROVE  IsInjective(t) /\ IsInjective(u) /\ ToSet(t) \cap ToSet(u) = {}
    <2>1. \A i, j \in 1..Len(s) : s[i] = s[j] => i = j
      BY <1>6, <1>1 DEF IsInjective
    <2>2. \A i, j \in 1..Len(d) : d[i] = d[j] => i = j
      BY <1>6, <1>2 DEF IsInjective
    <2>3. ASSUME NEW i \in 1..Len(s), NEW j \in 1..Len(d) PROVE s[i] # d[j]
      <3>1. s[i] \in ToSet(s) /\ d[j] \in ToSet(d)
        BY DEF ToSet
      <3>. QED
        BY <1>6, <3>1
    <2>4. \A i, j \in 1..Len(t) : t[i] = t[j] => i = j
      BY <1>1, <2>1
    <2>5. \A i, j \in 1..Len(u) : u[i] = u[j] => i = j
      BY <1>2, <1>4, <2>2, <2>3
    <2>6. \A i \in 1..Len(t), j \in 1..Len(u) : t[i] # u[j]
      <3>1. \A i \in 1..Len(t) : t[i] # s[1]
        BY <1>1, <1>2, <2>1
      <3>. QED
        BY <1>1, <1>2, <1>4, <2>3, <3>1
    <2>7. DOMAIN t = 1..Len(t) /\ DOMAIN u = 1..Len(u)
      BY <1>1, <1>2
    <2>8. IsInjective(t) /\ IsInjective(u)
      BY <2>4, <2>5, <2>7 DEF IsInjective
    <2>9. ToSet(t) \cap ToSet(u) = {}
      BY <2>6, <2>7 DEF ToSet
    <2>. QED
      BY <2>8, <2>9
  <1>. QED
    BY <1>3, <1>5, <1>6 DEF Moved

LEMMA ShowNextKeeps ==
    ASSUME IInv, ShowNext
    PROVE  IInv'
  <1>1. listing \in Listing /\ listing.phase = "showing" /\ listing.slugs # <<>>
    BY DEF ShowNext, IInv, ListingOK
  <1>2. UNCHANGED <<now, event, wasPublic>>
    BY DEF ShowNext
  <1>3. \/ listing' = [listing EXCEPT !.slugs = Tail(@), !.shown = Append(@, Head(listing.slugs))]
        \/ listing' = [listing EXCEPT !.phase = "failed"]
    BY DEF ShowNext
  <1>4. CASE listing' = [listing EXCEPT !.phase = "failed"]
    <2>1. PICK l : l = [listing EXCEPT !.phase = "failed"]
      OBVIOUS
    <2>2. /\ l \in Listing /\ l.phase = "failed" /\ l.query = listing.query
          /\ l.attempt = listing.attempt /\ l.slugs = listing.slugs /\ l.shown = listing.shown
      BY <1>1, <2>1 DEF Listing
    <2>. QED
      BY <1>2, <1>4, <2>1, <2>2, ListingStep DEF IInv, ListingOK
  <1>5. CASE listing' = [listing EXCEPT !.slugs = Tail(@), !.shown = Append(@, Head(listing.slugs))]
    <2>1. PICK t, u : t = Tail(listing.slugs) /\ u = Append(listing.shown, Head(listing.slugs))
      OBVIOUS
    <2>2. PICK l : l = [listing EXCEPT !.slugs = t, !.shown = u]
      OBVIOUS
    <2>3. listing' = l
      BY <1>5, <2>1, <2>2
    <2>4. listing.slugs \in Seq(Slugs) /\ listing.shown \in Seq(Slugs)
      BY <1>1, ListingFields
    <2>5. PICK s, d : s = listing.slugs /\ d = listing.shown
      OBVIOUS
    <2>6. /\ s \in Seq(Slugs) /\ d \in Seq(Slugs) /\ s # <<>>
          /\ t = Tail(s) /\ u = Append(d, Head(s))
      BY <1>1, <2>1, <2>4, <2>5
    <2>7. Moved(s, d, t, u)
      BY <2>6, HeadMoves
    <2>8. t \in Seq(Slugs) /\ u \in Seq(Slugs)
      BY <2>6
    <2>9. listing.attempt = 1 =>
              IsInjective(t) /\ IsInjective(u) /\ ToSet(t) \cap ToSet(u) = {}
      BY <2>5, <2>7 DEF IInv, ListingOK, Moved
    <2>10. /\ l \in Listing /\ l.phase = "showing" /\ l.query = listing.query
           /\ l.attempt = listing.attempt /\ l.slugs = t /\ l.shown = u
      BY <1>1, <2>2, <2>8 DEF Listing
    <2>11. ~l.query.all => ToSet(l.slugs) \cup ToSet(l.shown) \subseteq wasPublic
      BY <2>5, <2>7, <2>10 DEF IInv, ListingOK, Moved
    <2>. QED
      BY <1>2, <2>3, <2>9, <2>10, <2>11, ListingStep
  <1>. QED
    BY <1>3, <1>4, <1>5

LEMMA ShowEndKeeps ==
    ASSUME IInv, ShowEnd
    PROVE  IInv'
  <1>1. PICK l : l = [listing EXCEPT !.phase = "shown"]
    OBVIOUS
  <1>2. listing \in Listing /\ listing' = l
    BY <1>1 DEF ShowEnd, IInv, ListingOK
  <1>3. /\ l \in Listing /\ l.phase = "shown" /\ l.query = listing.query
        /\ l.attempt = listing.attempt /\ l.slugs = listing.slugs /\ l.shown = listing.shown
    BY <1>1, <1>2 DEF Listing
  <1>4. UNCHANGED <<now, event, wasPublic>>
    BY DEF ShowEnd
  <1>. QED
    BY <1>2, <1>3, <1>4, ListingStep DEF IInv, ListingOK

LEMMA Invariance == Spec => []IInv
  <1>1. Init => IInv
    <2>1. SUFFICES ASSUME Init PROVE IInv
      OBVIOUS
    <2>2. RowsOK
      <3>1. DOMAIN event = {} /\ now = 0 /\ MaxNow \in Nat
        BY <2>1, EventsAssumption DEF Init
      <3>. QED
        BY <3>1, FS_EmptySet DEF RowsOK
    <2>3. Public = {}
      BY <2>1 DEF Init, Public
    <2>4. listing = NoListing /\ wasPublic = {} /\ listing.phase = "none"
      BY <2>1 DEF Init, NoListing
    <2>5. ListingOK
      BY <2>3, <2>4, NoListingFits, EmptyList DEF ListingOK
    <2>. QED
      BY <2>2, <2>5 DEF IInv
  <1>2. IInv /\ [Next]_vars => IInv'
    <2>1. SUFFICES ASSUME IInv, [Next]_vars PROVE IInv'
      OBVIOUS
    <2>2. CASE Tick
      <3>1. now + Step \in 0..MaxNow
        BY <2>1, <2>2, EventsAssumption DEF Tick, IInv, RowsOK
      <3>2. RowsOK'
        BY <2>1, <2>2, <3>1 DEF Tick, IInv, RowsOK
      <3>3. ListingOK'
        BY <2>1, <2>2 DEF Tick, IInv, ListingOK, Public
      <3>. QED
        BY <3>2, <3>3 DEF IInv
    <2>3. ASSUME NEW slug \in Slugs, NEW form \in Forms, Create(slug, form) \/ Update(slug, form)
          PROVE  IInv'
      BY <2>1, <2>3, FormsAssumption, SubmittedStays
    <2>4. ASSUME NEW slug \in Slugs, Delete(slug) PROVE IInv'
      BY <2>1, <2>4, DeleteKeeps
    <2>5. ASSUME NEW slug \in Slugs, Resave(slug) PROVE IInv'
      BY <2>1, <2>5, ResaveKeeps
    <2>6. ASSUME NEW q \in Pages, Search(q) PROVE IInv'
      BY <2>1, <2>6, SearchKeeps
    <2>7. CASE Select
      BY <2>1, <2>7, SelectKeeps
    <2>8. CASE SelectAborted
      BY <2>1, <2>8, SelectAbortedKeeps
    <2>9. CASE ShowNext
      BY <2>1, <2>9, ShowNextKeeps
    <2>10. CASE ShowEnd
      BY <2>1, <2>10, ShowEndKeeps
    <2>11. CASE UNCHANGED vars
      BY <2>1, <2>11 DEF vars, IInv, RowsOK, ListingOK, Public
    <2>. QED
      BY <2>1, <2>2, <2>3, <2>4, <2>5, <2>6, <2>7, <2>8, <2>9, <2>10, <2>11 DEF Next
  <1>. QED
    BY <1>1, <1>2, PTL DEF Spec

(* Rows, the page that is being made and the history have their types: the *)
(* times that nextOccurrence makes up and the editor saves again stay in   *)
(* the range of stored times, and no listing makes more attempts than      *)
(* TryerTx.                                                                *)
THEOREM TypesKept == Spec => []TypeOK
  <1>1. IInv => TypeOK
    BY DEF IInv, RowsOK, ListingOK, TypeOK
  <1>. QED
    BY <1>1, Invariance, PTL

(* However many attempts the search takes and whatever owners change while *)
(* its events are retrieved one by one, the page shows nothing that was    *)
(* private all along, and an event twice only after another attempt.       *)
THEOREM ListedOncePublic == Spec => []ListedWerePublic
  <1>1. IInv => ListedWerePublic
    BY DEF IInv, ListingOK, ListedWerePublic
  <1>. QED
    BY <1>1, Invariance, PTL

(* In a zone without an offset nextOccurrence returns the first start and  *)
(* the first end, whole weeks from the stored ones, on one of the seven    *)
(* days that begin today - for every length of a day.                      *)
THEOREM OccurrencesShown == Spec => []ShowsOccurrence
  <1>1. ASSUME IInv PROVE ShowsOccurrence
    <2>1. SUFFICES ASSUME NEW e \in DOMAIN event, NEW row, row = event[e],
                          NEW shown, shown = Retrieved(row),
                          Recurred(row), OffFromUTC(row.zone) = 0
                   PROVE  /\ IsNext(shown.start, row.start)
                          /\ \A f \in row.finish : \E g \in shown.finish : IsNext(g, f)
      BY DEF ShowsOccurrence
    <2>2. row \in Event /\ now \in Int
      BY <1>1, <2>1, EventsAssumption DEF IInv, RowsOK
    <2>3. /\ shown.start = NextOccurrence(row.start, row.zone)
          /\ shown.finish = {NextOccurrence(f, row.zone) : f \in row.finish}
      BY <2>1, <2>2 DEF Retrieved, Event
    <2>4. /\ row.start \in Int /\ row.finish \subseteq Int
          /\ row.zone \in Zones /\ Offset[row.zone] = 0
      BY <2>1, <2>2, EventFields, OffsetInt
    <2>5. ASSUME NEW t \in Int PROVE IsNext(NextOccurrence(t, row.zone), t)
      <3>1. t + Offset[row.zone] = t
        BY <2>4
      <3>. QED
        BY <2>2, <2>4, <3>1, OccurrenceIs DEF IsNext
    <2>. QED
      BY <2>3, <2>4, <2>5
  <1>. QED
    BY <1>1, Invariance, PTL

(* An event that is over and recurs is saved again some whole weeks away   *)
(* when its zone has no offset; what is not over is saved as it was.       *)
THEOREM SavesAsShown == Spec => SavedAsShown
  <1>1. ASSUME IInv, [Next]_vars
        PROVE  [\A e \in Slugs :
                    Resave(e) =>
                        /\ ~Recurred(event[e]) => event'[e] = event[e]
                        /\ OffFromUTC(event[e].zone) = 0 =>
                               (event'[e].start - event[e].start) % Week = 0]_vars
    <2>1. SUFFICES ASSUME NEW e \in Slugs, Resave(e)
                   PROVE  /\ ~Recurred(event[e]) => event'[e] = event[e]
                          /\ OffFromUTC(event[e].zone) = 0 =>
                                 (event'[e].start - event[e].start) % Week = 0
      OBVIOUS
    <2>2. e \in DOMAIN event /\ event[e] \in Event /\ now \in 0..MaxNow /\ now \in Int
      BY <1>1, <2>1, EventsAssumption DEF Resave, IInv, RowsOK
    <2>3. PICK row \in Event : row = event[e]
      BY <2>2
    <2>4. event'[e] = DateTimeToUTC(Populate(Retrieved(row)))
      BY <2>1, <2>2, <2>3 DEF Resave, Update, Stored
    <2>5. event'[e] = Retrieved(row)
      BY <2>2, <2>4, RetrievedEvent, EditorRoundTrip
    <2>6. CASE ~Recurred(row)
      <3>1. event'[e] = row
        BY <2>5, <2>6 DEF Retrieved
      <3>2. row.start - row.start = 0 /\ 0 % Week = 0
        BY EventFields, WeekIs, MultipleRemainder, 0 = Week * 0
      <3>. QED
        BY <2>3, <3>1, <3>2
    <2>7. CASE Recurred(row)
      <3>1. event'[e].start = NextOccurrence(row.start, row.zone)
        BY <2>5, <2>7 DEF Retrieved, Event
      <3>2. row.start \in Int /\ row.zone \in Zones /\ OffFromUTC(row.zone) = Offset[row.zone]
        BY EventFields, OffsetInt
      <3>3. (event'[e].start - (row.start + Offset[row.zone])) % Week = 0
        BY <2>2, <3>1, <3>2, OccurrenceIs
      <3>4. ASSUME OffFromUTC(row.zone) = 0
            PROVE  (event'[e].start - row.start) % Week = 0
        <4>1. row.start + Offset[row.zone] = row.start
          BY <3>2, <3>4
        <4>. QED
          BY <3>3, <4>1
      <3>. QED
        BY <2>3, <2>7, <3>4
    <2>. QED
      BY <2>6, <2>7
  <1>. QED
    BY <1>1, Invariance, PTL DEF Spec, SavedAsShown

-----------------------------------------------------------------------------
(* One event and one search. *)

LEMMA QueryFields ==
    ASSUME NEW q \in Queries, now \in Int
    PROVE  /\ From(q) \in Int /\ To(q) \in Int /\ OffFromUTC(q.zone) \in Int
           /\ q.overlaps \in BOOLEAN
           /\ \A i \in q.times : i.days \subseteq (0..6) \X (0..6)
  <1>1. q \in Query
    BY EventsAssumption
  <1>2. Times \subseteq Int
    BY WeekIs, EventsAssumption DEF Times
  <1>3. \A t \in Int : Max({t}) = t
    BY DEF Max
  <1>4. OffFromUTC(q.zone) \in Int
    BY <1>1, OffsetInt DEF Query
  <1>5. q.from \in Optional /\ q.to \in Optional
    BY <1>1 DEF Query
  <1>6. From(q) \in Int
    <2>1. CASE q.from = {} \/ "from" \in q.present
      BY <1>4, <2>1, WeekIs DEF From, FilterDateTimeToUTC
    <2>2. ASSUME NEW t \in Times, q.from = {t} PROVE From(q) \in Int
      BY <1>2, <1>3, <1>4, <2>1, <2>2 DEF From, FilterDateTimeToUTC
    <2>. QED
      BY <1>5, <2>1, <2>2 DEF Optional
  <1>7. To(q) \in Int
    <2>1. CASE q.to = {} \/ "to" \in q.present
      BY <1>4, <2>1, WeekIs, EventsAssumption DEF To, FilterDateTimeToUTC
    <2>2. ASSUME NEW t \in Times, q.to = {t} PROVE To(q) \in Int
      BY <1>2, <1>3, <1>4, <2>1, <2>2, WeekIs DEF To, FilterDateTimeToUTC
    <2>. QED
      BY <1>5, <2>1, <2>2 DEF Optional
  <1>8. ASSUME NEW i \in q.times PROVE i.days \subseteq (0..6) \X (0..6)
    <2>1. i.days \in Ranges(0..6)
      BY <1>1 DEF Query, Instances
    <2>. QED
      BY <2>1 DEF Ranges
  <1>. QED
    BY <1>1, <1>4, <1>6, <1>7, <1>8 DEF Query

(* Of the two forms of the WHERE clause the one that holds has no offset. *)
LEMMA OpeningsAre ==
    ASSUME NEW e, NEW q, e.zone # "local", OffFromUTC(q.zone) \in Int, OffFromUTC(q.zone) <= 0
    PROVE  /\ \A o \in Openings(q, e) : o.off = 0
           /\ \E o \in Openings(q, e) : o.holds /\ o.off = 0
  <1>1. PICK x, y : /\ x = [holds |-> e.zone = "local", off |-> 0]
                    /\ y = [holds |-> e.zone # "local", off |-> 0]
    OBVIOUS
  <1>2. Openings(q, e) = {x, y}
    BY <1>1, ~(OffFromUTC(q.zone) > 0) DEF Openings
  <1>3. x.off = 0 /\ y.off = 0
    BY <1>1
  <1>4. y.holds = (e.zone # "local")
    BY <1>1
  <1>. QED
    BY <1>2, <1>3, <1>4

LEMMA OverlapsIs ==
    ASSUME NEW e \in Event, NEW q \in Queries, e.zone # "local", OffFromUTC(q.zone) <= 0,
           now \in Int
    PROVE  Overlaps(e, q) <=>
               \/ Within(e.start, q)
               \/ \E f \in e.finish : Within(f, q) \/ (e.start < From(q) /\ f >= To(q))
               \/ /\ e.weekly /\ \E f \in Ends(e) : now > f
                  /\ \/ Within(NextWeekly(e.start), q)
                     \/ \E f \in e.finish : Within(NextWeekly(f), q)
  <1>1. /\ \A o \in Openings(q, e) : o.off = 0
        /\ \E o \in Openings(q, e) : o.holds /\ o.off = 0
    BY OpeningsAre, QueryFields
  <1>2. e.start - 0 = e.start /\ \A f \in e.finish \cup Ends(e) : f - 0 = f
    BY EventFields
  <1>3. ASSUME NEW o \in Openings(q, e)
        PROVE  /\ e.start - o.off = e.start
               /\ \A f \in e.finish \cup Ends(e) : f - o.off = f
    BY <1>1, <1>2
  <1>. QED
    BY <1>1, <1>3 DEF Overlaps

LEMMA ContainedIs ==
    ASSUME NEW e \in Event, NEW q \in Queries, e.zone # "local", OffFromUTC(q.zone) <= 0,
           ~e.weekly, now \in Int
    PROVE  Contained(e, q) <=> e.start >= From(q) /\ \E f \in Ends(e) : f < To(q)
  <1>1. /\ \A o \in Openings(q, e) : o.off = 0
        /\ \E o \in Openings(q, e) : o.holds /\ o.off = 0
    BY OpeningsAre, QueryFields
  <1>2. e.start - 0 = e.start /\ \A f \in Ends(e) : f - 0 = f
    BY EventFields
  <1>3. ASSUME NEW o \in Openings(q, e)
        PROVE  e.start - o.off = e.start /\ \A f \in Ends(e) : f - o.off = f
    BY <1>1, <1>2
  <1>. QED
    BY <1>1, <1>3 DEF Contained

LEMMA LastsInt ==
    ASSUME NEW e \in Event
    PROVE  /\ Lasts(e) \subseteq Int
           /\ e.start \in Lasts(e) /\ e.finish \subseteq Lasts(e)
           /\ \A f \in e.finish : e.start..f \subseteq Lasts(e)
           /\ \A t \in Lasts(e) :
                  t = e.start \/ t \in e.finish \/ \E f \in e.finish : e.start <= t /\ t <= f
  BY EventFields DEF Lasts

LEMMA AskedOnce ==
    ASSUME NEW e \in Event, NEW q, ~e.weekly
    PROVE  Asked(e, q) <=> IF q.overlaps THEN \E t \in Lasts(e) : Within(t, q)
                           ELSE \A t \in Lasts(e) : Within(t, q)
  <1>1. \A t \in Lasts(e) : t + 0 * Week = t
    BY LastsInt, WeekIs
  <1>2. {t + 0 * Week : t \in Lasts(e)} = Lasts(e)
    BY <1>1
  <1>3. Occurrences(e) = {Lasts(e)}
    BY <1>2 DEF Occurrences
  <1>. QED
    BY <1>3 DEF Asked

LEMMA FindsOnce ==
    ASSUME NEW e \in Event, NEW q \in Queries, e.zone # "local", OffFromUTC(q.zone) <= 0,
           ~e.weekly, EndsAfterStart(e), From(q) < To(q), now \in Int
    PROVE  Asked(e, q) <=> IF q.overlaps THEN Overlaps(e, q) ELSE Contained(e, q)
  <1>1. PICK a \in Int, b \in Int : a = From(q) /\ b = To(q) /\ a < b
    BY QueryFields
  <1>2. e.start \in Int /\ e.finish \subseteq Int /\ \A f \in e.finish : e.start <= f
    <2>1. \A f \in Int : f + 0 = f
      OBVIOUS
    <2>. QED
      BY <2>1, EventFields DEF EndsAfterStart
  <1>3. \A t : Within(t, q) <=> a <= t /\ t < b
    BY <1>1 DEF Within
  <1>4. CASE q.overlaps
    <2>1. ASSUME NEW t \in Lasts(e), Within(t, q) PROVE Overlaps(e, q)
      <3>1. t \in Int /\ a <= t /\ t < b
        BY <1>3, <2>1, LastsInt
      <3>2. CASE t = e.start \/ t \in e.finish
        BY <2>1, <3>2, OverlapsIs
      <3>3. ASSUME NEW f \in e.finish, e.start <= t, t <= f PROVE Overlaps(e, q)
        <4>1. \/ a <= e.start /\ e.start < b
              \/ a <= f /\ f < b
              \/ e.start < a /\ f >= b
          BY <1>1, <1>2, <3>1, <3>3
        <4>. QED
          BY <1>1, <1>3, <4>1, OverlapsIs
      <3>. QED
        BY <3>2, <3>3, LastsInt
    <2>2. ASSUME Overlaps(e, q) PROVE \E t \in Lasts(e) : Within(t, q)
      <3>1. \/ Within(e.start, q)
            \/ \E f \in e.finish : Within(f, q) \/ (e.start < a /\ f >= b)
        BY <1>1, <2>2, OverlapsIs
      <3>2. CASE Within(e.start, q) \/ \E f \in e.finish : Within(f, q)
        BY <3>2, LastsInt
      <3>3. ASSUME NEW f \in e.finish, e.start < a, f >= b
            PROVE  \E t \in Lasts(e) : Within(t, q)
        <4>1. a \in e.start..f /\ Within(a, q)
          BY <1>1, <1>2, <1>3, <3>3
        <4>. QED
          BY <4>1, LastsInt
      <3>. QED
        BY <3>1, <3>2, <3>3
    <2>. QED
      BY <1>4, <2>1, <2>2, AskedOnce
  <1>5. CASE ~q.overlaps
    <2>1. ASSUME Contained(e, q), NEW t \in Lasts(e) PROVE Within(t, q)
      <3>1. PICK f \in Int : Ends(e) = {f} /\ f < b /\ a <= e.start
        BY <1>1, <1>2, <2>1, ContainedIs, EventFields
      <3>2. e.start <= f /\ \A g \in e.finish : g = f
        BY <1>2, <3>1 DEF Ends
      <3>3. t \in Int /\ e.start <= t /\ t <= f
        BY <1>2, <3>1, <3>2, LastsInt
      <3>. QED
        BY <1>2, <1>3, <3>1, <3>3
    <2>2. ASSUME \A t \in Lasts(e) : Within(t, q) PROVE Contained(e, q)
      <3>1. Ends(e) \subseteq Lasts(e) /\ e.start \in Lasts(e)
        BY LastsInt DEF Ends
      <3>2. a <= e.start /\ \A f \in Ends(e) : f < b
        BY <1>3, <2>2, <3>1
      <3>. QED
        BY <1>1, <1>2, <3>2, EventFields, ContainedIs
    <2>. QED
      BY <1>5, <2>1, <2>2, AskedOnce
  <1>. QED
    BY <1>4, <1>5, QueryFields

(* What the search takes for the next occurrence of a time that is less    *)
(* than two weeks away is one of the occurrences that are looked at.       *)
LEMMA NextWeeklyIs ==
    ASSUME NEW t \in Int, now \in 0..MaxNow, -DayLen <= t, t < now + 2 * Week
    PROVE  \E k \in 0..(MaxNow \div Week + 2) : NextWeekly(t) = t + k * Week
  <1>1. now \in Int /\ 0 <= now /\ now <= MaxNow /\ MaxNow \in Int
    BY EventsAssumption
  <1>2. PICK m \in Int, s \in 0..(Week - 1) : m = MaxNow \div Week /\ MaxNow = Week * m + s
    BY WeekIs, <1>1, Divided
  <1>3. m >= 0
    <2>1. CASE m < 0
      <3>1. Week * m + Week <= Week * 0
        BY <2>1, WeekIs, ProductGrows
      <3>. QED
        BY <1>2, <1>1, <3>1, WeekIs, ProductInt
    <2>. QED
      BY <2>1
  <1>4. CASE now >= t
    <2>1. PICK a \in Nat : a = now - t
      BY <1>1, <1>4
    <2>2. PICK c \in Int, r \in 0..(Week - 1) : c = a \div Week /\ r = a % Week /\ a = Week * c + r
      BY WeekIs, a \in Int, Divided
    <2>3. NextWeekly(t) = now + (Week - r)
      BY <2>1, <2>2 DEF NextWeekly, Rem
    <2>4. Week * c \in Int /\ Week * m \in Int /\ Week * (c + 1) = Week * c + Week
          /\ (c + 1) * Week = Week * (c + 1)
      BY WeekIs
    <2>5. NextWeekly(t) = t + (c + 1) * Week
      BY <1>1, <2>1, <2>2, <2>3, <2>4, WeekIs
    <2>6. c >= 0
      <3>1. CASE c < 0
        <4>1. Week * c + Week <= Week * 0
          BY <3>1, WeekIs, ProductGrows
        <4>. QED
          BY <2>1, <2>2, <2>4, <4>1, WeekIs
      <3>. QED
        BY <3>1
    <2>7. c <= m + 1
      <3>1. CASE m + 1 < c
        <4>1. Week * (m + 1) + Week <= Week * c
          BY <3>1, WeekIs, ProductGrows
        <4>2. Week * (m + 1) = Week * m + Week
          BY WeekIs
        <4>. QED
          BY <1>2, <1>1, <2>1, <2>2, <2>4, <4>1, <4>2, WeekIs
      <3>. QED
        BY <3>1
    <2>. QED
      BY <1>2, <2>5, <2>6, <2>7, c + 1 \in 0..(m + 2)
  <1>5. CASE now < t
    <2>1. PICK a \in Nat : a = t - now /\ a > 0
      BY <1>1, <1>5
    <2>2. PICK c \in Int, r \in 0..(Week - 1) : c = a \div Week /\ r = a % Week /\ a = Week * c + r
      BY WeekIs, a \in Int, Divided
    <2>3. NextWeekly(t) = now + (Week + r)
      <3>1. now - t < 0 /\ -(now - t) = a
        BY <1>1, <1>5, <2>1
      <3>2. Rem(now - t, Week) = -r
        BY <2>2, <3>1, <1>1 DEF Rem
      <3>. QED
        BY <1>1, <2>2, <3>2, WeekIs DEF NextWeekly
    <2>4. Week * c \in Int
      BY WeekIs, ProductInt
    <2>5. c >= 0
      <3>1. CASE c < 0
        <4>1. Week * c + Week <= Week * 0
          BY <3>1, WeekIs, ProductGrows
        <4>. QED
          BY <2>1, <2>2, <2>4, <4>1, WeekIs
      <3>. QED
        BY <3>1
    <2>6. c <= 1
      <3>1. CASE 1 < c
        <4>1. Week * 1 + Week <= Week * c
          BY <3>1, WeekIs, ProductGrows
        <4>. QED
          BY <1>1, <2>1, <2>2, <2>4, <4>1, WeekIs
      <3>. QED
        BY <3>1
    <2>7. CASE c = 0
      <3>1. NextWeekly(t) = t + 1 * Week
        BY <1>1, <2>1, <2>2, <2>3, <2>7, WeekIs
      <3>. QED
        BY <1>2, <1>3, <3>1, 1 \in 0..(m + 2)
    <2>8. CASE c = 1
      <3>1. NextWeekly(t) = t + 0 * Week
        BY <1>1, <2>1, <2>2, <2>3, <2>8, WeekIs
      <3>. QED
        BY <1>2, <1>3, <3>1, 0 \in 0..(m + 2)
    <2>. QED
      BY <2>5, <2>6, <2>7, <2>8
  <1>. QED
    BY <1>1, <1>4, <1>5

LEMMA AskedWeekly ==
    ASSUME NEW e \in Event, NEW q, e.weekly, q.overlaps, NEW t \in Lasts(e),
           NEW k \in 0..(MaxNow \div Week + 2), Within(t + k * Week, q)
    PROVE  Asked(e, q)
  <1>1. PICK o : o = {u + k * Week : u \in Lasts(e)}
    OBVIOUS
  <1>2. o \in Occurrences(e) /\ t + k * Week \in o
    BY <1>1 DEF Occurrences
  <1>. QED
    BY <1>2 DEF Asked

LEMMA FindsWeekly ==
    ASSUME NEW e \in Event, NEW q \in Queries, e.zone # "local", OffFromUTC(q.zone) <= 0,
           e.weekly, q.overlaps, EndsAfterStart(e), From(q) < To(q), now \in 0..MaxNow,
           Overlaps(e, q)
    PROVE  Asked(e, q)
  <1>0. now \in Int
    BY EventsAssumption
  <1>1. /\ e.start \in Int /\ -DayLen <= e.start /\ e.finish \subseteq Int
        /\ \A f \in e.finish : -DayLen <= f /\ e.start <= f + Week
    <2>1. \A t \in Times : -DayLen <= t
      BY WeekIs, EventsAssumption DEF Times
    <2>. QED
      BY <2>1, EventFields DEF EndsAfterStart
  <1>2. ASSUME NEW t \in Lasts(e), Within(t, q) PROVE Asked(e, q)
    <2>1. 0 \in 0..(MaxNow \div Week + 2)
      <3>1. MaxNow \div Week >= 0 /\ MaxNow \div Week \in Int
        BY WeekIs, EventsAssumption
      <3>. QED
        BY <3>1
    <2>2. t + 0 * Week = t
      BY LastsInt, WeekIs
    <2>. QED
      BY <1>2, <2>1, <2>2, AskedWeekly
  <1>3. ASSUME NEW t \in Lasts(e), Within(NextWeekly(t), q), -DayLen <= t, t < now + 2 * Week
        PROVE  Asked(e, q)
    <2>1. t \in Int
      BY LastsInt
    <2>2. PICK k \in 0..(MaxNow \div Week + 2) : NextWeekly(t) = t + k * Week
      BY <1>3, <2>1, NextWeeklyIs
    <2>. QED
      BY <1>3, <2>2, AskedWeekly
  <1>4. CASE Within(e.start, q) \/ \E f \in e.finish : Within(f, q)
    BY <1>2, <1>4, LastsInt
  <1>5. ASSUME NEW f \in e.finish, e.start < From(q), f >= To(q) PROVE Asked(e, q)
    <2>1. From(q) \in e.start..f /\ Within(From(q), q)
      BY <1>0, <1>1, <1>5, QueryFields DEF Within
    <2>. QED
      BY <1>2, <2>1, LastsInt
  <1>6. ASSUME NEW f \in Ends(e), now > f,
               Within(NextWeekly(e.start), q) \/ \E g \in e.finish : Within(NextWeekly(g), q)
        PROVE  Asked(e, q)
    <2>1. now \in Int /\ f \in Int
      BY EventsAssumption, EventFields
    <2>2. e.start < now + 2 * Week
      BY <1>1, <1>6, <2>1, WeekIs DEF Ends
    <2>3. \A g \in e.finish : g = f /\ g < now + 2 * Week
      BY <1>6, <2>1, WeekIs, EventFields DEF Ends
    <2>. QED
      BY <1>1, <1>3, <1>6, <2>2, <2>3, LastsInt
  <1>. QED
    BY <1>0, <1>4, <1>5, <1>6, OverlapsIs

(* weekdayRangeFrom names the days of a range, also of one that goes       *)
(* around the end of the week.                                             *)
LEMMA WeekdaysAre ==
    ASSUME NEW first \in 0..6, NEW last \in 0..6
    PROVE  Weekdays(first, last) = DaysFrom(first, last) /\ Weekdays(first, last) \subseteq 0..6
  <1>1. CASE first <= last
    <2>1. Weekdays(first, last) = first..last
      BY <1>1 DEF Weekdays
    <2>2. (last - first) % 7 = last - first
      BY <1>1
    <2>3. \A k \in 0..(last - first) : (first + k) % 7 = first + k
      BY <1>1
    <2>4. DaysFrom(first, last) = {first + k : k \in 0..(last - first)}
      BY <2>2, <2>3 DEF DaysFrom
    <2>5. \A d \in first..last : d - first \in 0..(last - first) /\ first + (d - first) = d
      OBVIOUS
    <2>6. \A k \in 0..(last - first) : first + k \in first..last
      OBVIOUS
    <2>7. first..last \subseteq 0..6
      OBVIOUS
    <2>. QED
      BY <2>1, <2>4, <2>5, <2>6, <2>7
  <1>2. CASE last < first
    <2>1. Weekdays(first, last) = (first..6) \cup (0..last)
      BY <1>2 DEF Weekdays
    <2>2. (last - first) % 7 = last - first + 7
      BY <1>2
    <2>3. ASSUME NEW d \in (first..6) \cup (0..last) PROVE d \in DaysFrom(first, last)
      <3>1. CASE d >= first
        <4>1. d - first \in 0..(last - first + 7) /\ (first + (d - first)) % 7 = d
          BY <1>2, <2>3, <3>1
        <4>. QED
          BY <2>2, <4>1 DEF DaysFrom
      <3>2. CASE d < first
        <4>1. d - first + 7 \in 0..(last - first + 7) /\ (first + (d - first + 7)) % 7 = d
          BY <1>2, <2>3, <3>2
        <4>. QED
          BY <2>2, <4>1 DEF DaysFrom
      <3>. QED
        BY <2>3, <3>1, <3>2
    <2>4. \A k \in 0..(last - first + 7) : (first + k) % 7 \in (first..6) \cup (0..last)
      BY <1>2
    <2>5. DaysFrom(first, last) \subseteq (first..6) \cup (0..last)
      BY <2>2, <2>4 DEF DaysFrom
    <2>6. (first..6) \cup (0..last) \subseteq 0..6
      OBVIOUS
    <2>. QED
      BY <2>1, <2>3, <2>5, <2>6
  <1>. QED
    BY <1>1, <1>2

(* The remainder of a week lies in a day's part of it on that day. *)
LEMMA DayIs ==
    ASSUME NEW t \in Int, NEW day \in 0..6
    PROVE  t % Week \in (day * DayLen)..((day + 1) * DayLen - 1) <=> Weekday(t) = day
  <1>1. PICK w \in 0..6, r \in 0..(DayLen - 1), x \in Int :
            w = (t \div DayLen) % 7 /\ r = t % DayLen /\ x = t % Week /\ x = DayLen * w + r
    <2>1. t % Week \in Int
      BY WeekIs
    <2>. QED
      BY <2>1, WeekSplit
  <1>2. PICK y \in Int : y = DayLen * day /\ day * DayLen = y /\ (day + 1) * DayLen = y + DayLen
    BY WeekIs
  <1>3. ASSUME w = day PROVE x \in y..(y + DayLen - 1)
    BY <1>1, <1>2, <1>3, WeekIs
  <1>4. ASSUME x \in y..(y + DayLen - 1) PROVE w = day
    <2>1. PICK s \in 0..(DayLen - 1) : s = x - y
      BY <1>4, WeekIs
    <2>2. DayLen * w + r = DayLen * day + s
      BY <1>1, <1>2, <2>1
    <2>. QED
      BY <2>2, WeekIs, DivisionUnique
  <1>5. (day * DayLen)..((day + 1) * DayLen - 1) = y..(y + DayLen - 1)
    BY <1>2, WeekIs
  <1>6. Weekday(t) = w /\ t % Week = x
    BY <1>1 DEF Weekday
  <1>. QED
    BY <1>3, <1>4, <1>5, <1>6

LEMMA OnDayIs ==
    ASSUME NEW e \in Event, NEW q \in Queries, e.zone # "local", OffFromUTC(q.zone) <= 0,
           q.overlaps, now \in Int, NEW day \in 0..6
    PROVE  OnDay(e, q, day) <=>
               \E t \in {e.start} \cup e.finish : Weekday(t + OffFromUTC(q.zone)) = day
  <1>1. /\ \A o \in Openings(q, e) : o.off = 0
        /\ \E o \in Openings(q, e) : o.holds /\ o.off = 0
    BY OpeningsAre, QueryFields
  <1>2. PICK off \in Int : off = OffFromUTC(q.zone)
    BY QueryFields
  <1>3. ASSUME NEW o \in Openings(q, e), NEW t \in {e.start} \cup e.finish
        PROVE  Wall(t, q, o) % Week \in (day * DayLen)..((day + 1) * DayLen - 1)
                   <=> Weekday(t + OffFromUTC(q.zone)) = day
    <2>1. PICK w \in Int : w = t + off
      BY EventFields
    <2>2. Wall(t, q, o) = w
      BY <1>1, <1>2, <2>1 DEF Wall
    <2>. QED
      BY <1>2, <2>1, <2>2, DayIs
  <1>. QED
    BY <1>1, <1>3 DEF OnDay

(* What a search by dates or weekdays finds is what it asks for, of every  *)
(* event that can be stored and for every search, for clients that are not *)
(* ahead of UTC and events that are not in local time.                     *)
THEOREM SearchFinds == Spec => []FindsWhatIsAsked
  <1>1. ASSUME IInv PROVE FindsWhatIsAsked
    <2>1. SUFFICES ASSUME NEW e \in DOMAIN event, NEW q \in Queries, NEW row \in Event,
                          row = event[e], EndsAfterStart(row), row.zone # "local",
                          OffFromUTC(q.zone) <= 0, From(q) < To(q)
                   PROVE  /\ ~row.weekly =>
                                 (Asked(row, q) <=> IF q.overlaps THEN Overlaps(row, q)
                                                    ELSE Contained(row, q))
                          /\ row.weekly /\ q.overlaps /\ Overlaps(row, q) => Asked(row, q)
                          /\ q.overlaps =>
                                 \A d \in UNION {i.days : i \in q.times} :
                                     OnSomeDay(row, q, DaysFrom(d[1], d[2]))
                                         <=> \E day \in Weekdays(d[1], d[2]) : OnDay(row, q, day)
      BY <1>1 DEF IInv, RowsOK, FindsWhatIsAsked
    <2>0. now \in Int
      BY <1>1, EventsAssumption DEF IInv, RowsOK
    <2>2. ~row.weekly =>
              (Asked(row, q) <=> IF q.overlaps THEN Overlaps(row, q) ELSE Contained(row, q))
      BY <2>0, <2>1, FindsOnce
    <2>3. row.weekly /\ q.overlaps /\ Overlaps(row, q) => Asked(row, q)
      BY <1>1, <2>1, FindsWeekly DEF IInv, RowsOK
    <2>4. ASSUME q.overlaps, NEW d \in UNION {i.days : i \in q.times}
          PROVE  OnSomeDay(row, q, DaysFrom(d[1], d[2]))
                     <=> \E day \in Weekdays(d[1], d[2]) : OnDay(row, q, day)
      <3>1. d[1] \in 0..6 /\ d[2] \in 0..6
        BY <2>0, QueryFields
      <3>2. PICK days : days = Weekdays(d[1], d[2]) /\ days = DaysFrom(d[1], d[2]) /\ days \subseteq 0..6
        BY <3>1, WeekdaysAre
      <3>3. \A day \in days :
                OnDay(row, q, day) <=>
                    \E t \in {row.start} \cup row.finish : Weekday(t + OffFromUTC(q.zone)) = day
        BY <2>0, <2>1, <2>4, <3>2, OnDayIs
      <3>. QED
        BY <3>2, <3>3 DEF OnSomeDay
    <2>. QED
      BY <2>2, <2>3, <2>4
  <1>. QED
    BY <1>1, Invariance, PTL

=============================================================================
