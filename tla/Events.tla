------------------------------- MODULE Events -------------------------------
(***************************************************************************)
(* Events (postgres/service/event.go): their times, the occurrences of     *)
(* those that recur weekly, the search by date, weekday and hour, and the  *)
(* pages that list what a search has found while owners change it.         *)
(*                                                                         *)
(* Time is counted in units from the beginning of a Thursday, as Unix time *)
(* is.  A time is stored in UTC; forms and searches hold what a clock on   *)
(* the wall shows.  The offset of a zone does not change (no daylight      *)
(* saving), and the server runs in UTC.  A time that may be missing (NULL) *)
(* is a set of at most one.                                                *)
(***************************************************************************)
EXTENDS Integers, FiniteSets, SequencesExt

CONSTANTS
    Slugs,      \* slugs of events
    Offset,     \* what the wall clock of a zone is ahead of UTC, by zone
    Forms,      \* what owners submit
    Queries,    \* what visitors may search for
    Pages,      \* bound on the searches whose pages are made
    DayLen,     \* units in a day
    MaxNow,     \* bound on the time
    Step,       \* time that passes at least between two steps that see it pass
    TxTries     \* attempts TryerTx makes at a transaction

Zones == DOMAIN Offset
TzSkip == {"utc", "local"}
Week == 7 * DayLen
Times == (-DayLen)..(MaxNow + 4 * Week)

Optional == {{}} \cup {{t} : t \in Times}

Event == [start : Times, finish : Optional, weekly : BOOLEAN, zone : Zones,
          public : BOOLEAN]

(* The weekdays and the hours a search asks for together, of which it may  *)
(* leave out one.                                                          *)
Ranges(S) == {{}} \cup {{r} : r \in S \X S}
Instances ==
    {i \in [days : Ranges(0..6), hours : Ranges(0..DayLen)] : i.days # {} \/ i.hours # {}}

(* A search: the range of dates, of which either end may be the present,   *)
(* where the client is, whether events need only overlap the range, the    *)
(* days and hours, and whether it finds what is not public.                *)
Query == [from : Optional, to : Optional, present : SUBSET {"from", "to"},
          overlaps : BOOLEAN, zone : Zones, times : SUBSET Instances, all : BOOLEAN]

ASSUME EventsAssumption ==
    /\ {DayLen, MaxNow, Step, TxTries} \subseteq Nat \ {0}
    /\ TzSkip \subseteq Zones /\ \A z \in Zones : Offset[z] \in Int
    /\ \A z \in TzSkip : Offset[z] = 0
    /\ Forms \subseteq Event /\ Queries \subseteq Query
    /\ Pages \subseteq Queries /\ Pages # {}

VARIABLES
    now,        \* the time
    event,      \* rows of table event, by slug
    listing,    \* the page of events that is being made
    wasPublic   \* history: events public at some time since its search

vars == <<now, event, listing, wasPublic>>

Listing == [phase : {"none", "searching", "showing", "shown", "failed"},
            query : Pages, attempt : 1..TxTries,
            slugs : Seq(Slugs), shown : Seq(Slugs)]

TypeOK ==
    /\ now \in 0..MaxNow
    /\ DOMAIN event \subseteq Slugs /\ \A e \in DOMAIN event : event[e] \in Event
    /\ listing \in Listing
    /\ wasPublic \subseteq Slugs

Public == {e \in DOMAIN event : event[e].public}

-----------------------------------------------------------------------------
(* Time zones and occurrences. *)

OffFromUTC(zone) == IF zone \in TzSkip THEN 0 ELSE Offset[zone]

DateTimeToUTC(form) ==
    [form EXCEPT !.start = @ - OffFromUTC(form.zone),
                 !.finish = {f - OffFromUTC(form.zone) : f \in @}]

(* Times bounds what the type invariant admits, not what is submitted. *)
ASSUME FormsAssumption == \A form \in Forms : DateTimeToUTC(form) \in Event

Weekday(t) == (t \div DayLen) % 7
Today == (now \div DayLen) * DayLen

(* Mutant: a weekday that has passed this week is not moved to the next.   *)
OccurrenceThisWeek(t, zone) ==
    LET wall == t + Offset[zone]
    IN  Today + (Weekday(wall) - Weekday(now)) * DayLen + (wall % DayLen)

(* The day of the week at which the wall clock shows t, today or later, at *)
(* that clock's time.                                                      *)
NextOccurrence(t, zone) ==
    LET wall == t + Offset[zone]
    IN  Today + ((Weekday(wall) - Weekday(now)) % 7) * DayLen + (wall % DayLen)

(* The time an event ends, or starts if it has no end. *)
Ends(e) == IF e.finish = {} THEN {e.start} ELSE e.finish

Recurred(e) == e.weekly /\ \E f \in Ends(e) : now > f

(* time.LoadLocation knows no zone of TzSkip: a recurring event in one of  *)
(* them cannot be retrieved once it is over.                               *)
Fails(e) == Recurred(e) /\ e.zone \in TzSkip

Retrieved(e) ==
    IF Recurred(e)
    THEN [e EXCEPT !.start = NextOccurrence(@, e.zone),
                   !.finish = {NextOccurrence(f, e.zone) : f \in @}]
    ELSE e

(* Mutant: the editor shows times in UTC. *)
PopulateInUTC(e) == e

(* The editor adds the offset of the zone, with which Retrieve has marked  *)
(* the times.                                                              *)
Populate(e) ==
    [e EXCEPT !.start = @ + OffFromUTC(e.zone),
              !.finish = {f + OffFromUTC(e.zone) : f \in @}]

-----------------------------------------------------------------------------
(* The search (Filter). *)

(* The WHERE clause is written twice: for events in local time, with the   *)
(* client's offset if that is positive, and for all others without.        *)
Openings(q, e) ==
    LET off == OffFromUTC(q.zone)
    IN  {[holds |-> e.zone = "local", off |-> IF off > 0 THEN off ELSE 0],
         [holds |-> e.zone # "local", off |-> 0]}

FilterDateTimeToUTC(q, which, date) ==
    (IF which \in q.present THEN now ELSE Max(date)) - OffFromUTC(q.zone)

(* MinInt64 and MaxInt64 if no date is given; the last day is included. *)
From(q) ==
    IF q.from = {} /\ "from" \notin q.present THEN -2 * DayLen
    ELSE FilterDateTimeToUTC(q, "from", q.from)
To(q) ==
    IF q.to = {} /\ "to" \notin q.present THEN MaxNow + 6 * Week
    ELSE FilterDateTimeToUTC(q, "to", q.to) + DayLen

Within(t, q) == From(q) <= t /\ t < To(q)

(* The remainder of SQL has the sign of the dividend. *)
Rem(a, n) == IF a >= 0 THEN a % n ELSE -((-a) % n)
NextWeekly(t) == now + (Week - Rem(now - t, Week))

(* Mutant: an event that lasts through the whole range is missed. *)
OverlapsByBounds(e, q) ==
    \E o \in Openings(q, e) :
        \/ o.holds /\ Within(e.start - o.off, q)
        \/ \E f \in e.finish : Within(f - o.off, q)

(* AND binds tighter than OR: only the first of the three alternatives     *)
(* asks which of the two forms applies to the event.                       *)
Overlaps(e, q) ==
    \E o \in Openings(q, e) :
        \/ o.holds /\ Within(e.start - o.off, q)
        \/ \E f \in e.finish :
               \/ Within(f - o.off, q)
               \/ e.start - o.off < From(q) /\ f - o.off >= To(q)
        \/ /\ e.weekly /\ \E f \in Ends(e) : now > f - o.off
           /\ \/ Within(NextWeekly(e.start - o.off), q)
              \/ \E f \in e.finish : Within(NextWeekly(f - o.off), q)

(* The last alternative adds the offset where it should subtract it. *)
Contained(e, q) ==
    \E o \in Openings(q, e) :
        \/ /\ o.holds /\ e.start - o.off >= From(q)
           /\ \E f \in Ends(e) : f - o.off < To(q)
        \/ /\ e.weekly /\ NextWeekly(e.start + o.off) >= From(q)
           /\ \E f \in Ends(e) : now > f - o.off /\ NextWeekly(f + o.off) < To(q)

(* Mutant: a range that ends where the week begins is empty. *)
WeekdaysStraight(first, last) == first..last

(* weekdayRangeFrom: days are numbered from Thursday. *)
Weekdays(first, last) ==
    IF last + 1 > first THEN first..last ELSE (first..6) \cup (0..last)

(* The time the client's wall clock shows. *)
Wall(t, q, o) == t + OffFromUTC(q.zone) - o.off

OnDay(e, q, day) ==
    \E o \in Openings(q, e) :
        LET InDay(t) == Wall(t, q, o) % Week \in (day * DayLen)..((day + 1) * DayLen - 1)
        IN  /\ o.holds
            /\ IF q.overlaps
               THEN InDay(e.start) \/ \E f \in e.finish : InDay(f)
               ELSE /\ Wall(e.start, q, o) % Week >= day * DayLen
                    /\ \E f \in Ends(e) : Wall(f, q, o) % Week < (day + 1) * DayLen

AtHours(e, q, from, to) ==
    \E o \in Openings(q, e) :
        LET Hour(t) == Wall(t, q, o) % DayLen
        IN  /\ o.holds
            /\ IF q.overlaps
               THEN \/ Hour(e.start) >= from /\ Hour(e.start) < to
                    \/ \E f \in e.finish : Hour(f) > from /\ Hour(f) <= to
               ELSE Hour(e.start) >= from /\ \E f \in Ends(e) : Hour(f) <= to

Suits(e, q) ==
    /\ IF q.overlaps THEN Overlaps(e, q) ELSE Contained(e, q)
    /\ q.times # {} =>
           \E i \in q.times :
               /\ \A d \in i.days : \E day \in Weekdays(d[1], d[2]) : OnDay(e, q, day)
               /\ \A h \in i.hours : AtHours(e, q, h[1], h[2])

(* Mutant: the search does not ask what is public. *)
MatchesHidden(e, q) == Suits(e, q)

Matches(e, q) == (e.public \/ q.all) /\ Suits(e, q)

Found(q) == {e \in DOMAIN event : Matches(event[e], q)}

-----------------------------------------------------------------------------

NoListing ==
    [phase |-> "none", query |-> CHOOSE q \in Pages : TRUE, attempt |-> 1,
     slugs |-> <<>>, shown |-> <<>>]

Init ==
    /\ now = 0
    /\ event = <<>>
    /\ listing = NoListing
    /\ wasPublic = {}

Tick ==
    /\ now + Step <= MaxNow
    /\ now' = now + Step
    /\ UNCHANGED <<event, listing, wasPublic>>

Stored(new) ==
    /\ event' = new
    /\ wasPublic' = wasPublic \cup {e \in DOMAIN new : new[e].public}
    /\ UNCHANGED <<now, listing>>

Create(slug, form) ==
    /\ slug \notin DOMAIN event
    /\ Stored([e \in DOMAIN event \cup {slug} |->
                  IF e = slug THEN DateTimeToUTC(form) ELSE event[e]])

Update(slug, form) ==
    /\ slug \in DOMAIN event
    /\ Stored([event EXCEPT ![slug] = DateTimeToUTC(form)])

Delete(slug) ==
    /\ slug \in DOMAIN event
    /\ Stored([e \in DOMAIN event \ {slug} |-> event[e]])

(* The owner opens the editor and saves without a change. *)
Resave(slug) ==
    /\ slug \in DOMAIN event
    /\ ~Fails(event[slug])
    /\ Update(slug, Populate(Retrieved(event[slug])))

Search(q) ==
    /\ listing.phase \in {"none", "shown", "failed"}
    /\ listing' = [NoListing EXCEPT !.phase = "searching", !.query = q]
    /\ wasPublic' = Public
    /\ UNCHANGED <<now, event>>

(* The rows in the order of the times they start: any order of those that  *)
(* start together.                                                         *)
Rows(q) ==
    {rows \in SetToSeqs(Found(q)) :
        \A i, j \in DOMAIN rows : i < j => event[rows[i]].start <= event[rows[j]].start}

(* The query appends to the slugs that an attempt before it has read. *)
Select ==
    /\ listing.phase = "searching"
    /\ \E rows \in Rows(listing.query) :
           listing' = [listing EXCEPT !.phase = "showing", !.slugs = @ \o rows]
    /\ UNCHANGED <<now, event, wasPublic>>

(* Mutant: the last attempt is followed by another. *)
SelectAbortedAgain ==
    /\ listing.phase = "searching"
    /\ \E rows \in Rows(listing.query) :
           listing' = IF listing.attempt <= TxTries
                      THEN [listing EXCEPT !.attempt = @ + 1, !.slugs = @ \o rows]
                      ELSE [listing EXCEPT !.phase = "failed"]
    /\ UNCHANGED <<now, event, wasPublic>>

SelectAborted ==
    /\ listing.phase = "searching"
    /\ \E rows \in Rows(listing.query) :
           listing' = IF listing.attempt < TxTries
                      THEN [listing EXCEPT !.attempt = @ + 1, !.slugs = @ \o rows]
                      ELSE [listing EXCEPT !.phase = "failed"]
    /\ UNCHANGED <<now, event, wasPublic>>

(* Every event found is retrieved in a transaction of its own, whether it  *)
(* is public by then or not.  The page keeps what it shows as slugs: the   *)
(* times beside them, which are Retrieved's and for events in local time   *)
(* less the client's offset, are left out.                                 *)
ShowNext ==
    /\ listing.phase = "showing" /\ listing.slugs # <<>>
    /\ LET e == Head(listing.slugs)
       IN  IF e \in DOMAIN event /\ ~Fails(event[e])
           THEN listing' = [listing EXCEPT !.slugs = Tail(@), !.shown = Append(@, e)]
           ELSE listing' = [listing EXCEPT !.phase = "failed"]
    /\ UNCHANGED <<now, event, wasPublic>>

ShowEnd ==
    /\ listing.phase = "showing" /\ listing.slugs = <<>>
    /\ listing' = [listing EXCEPT !.phase = "shown"]
    /\ UNCHANGED <<now, event, wasPublic>>

Next ==
    \/ Tick
    \/ \E slug \in Slugs :
           \/ \E form \in Forms : Create(slug, form) \/ Update(slug, form)
           \/ Delete(slug) \/ Resave(slug)
    \/ \E q \in Pages : Search(q)
    \/ Select \/ SelectAborted \/ ShowNext \/ ShowEnd

Spec == Init /\ [][Next]_vars

-----------------------------------------------------------------------------
(* Properties. *)

(* The first time from today on that is a whole number of weeks from t. *)
IsNext(shown, t) == (shown - t) % Week = 0 /\ shown \in Today..(Today + Week - 1)

(* A recurring event that is over is shown with the first of its starts    *)
(* that is not before today, and with the first of its ends, which may be  *)
(* that of the occurrence before.  This holds in zones without an offset   *)
(* only: nextOccurrence returns what the wall clock of the zone shows,     *)
(* which Retrieve and the editor go on to treat as UTC.                    *)
ShowsOccurrence ==
    \A e \in DOMAIN event :
        LET row == event[e]
            shown == Retrieved(row)
        IN  Recurred(row) /\ ~Fails(row) /\ OffFromUTC(row.zone) = 0 =>
                /\ IsNext(shown.start, row.start)
                /\ \A f \in row.finish : \E g \in shown.finish : IsNext(g, f)

(* The occurrences of an event as sets of instants. *)
Lasts(e) == {e.start} \cup e.finish \cup UNION {e.start..f : f \in e.finish}
Occurrences(e) ==
    {{t + k * Week : t \in Lasts(e)} : k \in IF e.weekly THEN 0..(MaxNow \div Week + 2) ELSE {0}}

(* The times an event must have for a search to find it, by what is asked. *)
Asked(e, q) ==
    LET Instants(o) == \E t \in o : Within(t, q)
        Inside(o) == \A t \in o : Within(t, q)
    IN  \E o \in Occurrences(e) : IF q.overlaps THEN Instants(o) ELSE Inside(o)

(* The days of the week from one to another, the week being a circle. *)
DaysFrom(first, last) == {(first + k) % 7 : k \in 0..((last - first) % 7)}

OnSomeDay(e, q, days) ==
    \E t \in {e.start} \cup e.finish : Weekday(t + OffFromUTC(q.zone)) \in days

(* A search finds the events it is asked for: by date exactly those that   *)
(* do not recur, and of those that recur only such as overlap the range;   *)
(* by weekday those that begin or end on one of the days.  It is sure of   *)
(* this for clients that are not ahead of UTC, for events that are not in  *)
(* local time, and for events that end after they start, which nothing     *)
(* checks: those that recur may be saved with an end up to a week sooner.  *)
EndsAfterStart(e) ==
    \A f \in e.finish : e.start <= f + (IF e.weekly THEN Week ELSE 0)

FindsWhatIsAsked ==
    \A e \in DOMAIN event, q \in Queries :
        LET row == event[e]
        IN  /\ EndsAfterStart(row) /\ row.zone # "local"
            /\ OffFromUTC(q.zone) <= 0 /\ From(q) < To(q)
            => /\ ~row.weekly =>
                      (Asked(row, q) <=> IF q.overlaps THEN Overlaps(row, q) ELSE Contained(row, q))
               /\ row.weekly /\ q.overlaps /\ Overlaps(row, q) => Asked(row, q)
               /\ q.overlaps =>
                      \A d \in UNION {i.days : i \in q.times} :
                          OnSomeDay(row, q, DaysFrom(d[1], d[2]))
                              <=> \E day \in Weekdays(d[1], d[2]) : OnDay(row, q, day)

(* "Events set to local timezone have the user's timezone offset           *)
(* subtracted from event start/finish": what does not recur is found by    *)
(* the time at which the client's wall clock shows what was entered.       *)
LocalTimesShifted ==
    \A e \in DOMAIN event, q \in Queries :
        LET row == event[e]
            off == OffFromUTC(q.zone)
            shifted == [row EXCEPT !.start = @ - off, !.finish = {f - off : f \in @}]
        IN  row.zone = "local" /\ ~row.weekly /\ q.overlaps /\ From(q) < To(q) =>
                (Overlaps(row, q) <=> Asked(shifted, q))

(* A page made from a search for public events shows none that was private *)
(* all along, although each is retrieved later and private ones as well;   *)
(* and it shows an event twice only if the search was tried again.         *)
ListedWerePublic ==
    /\ ~listing.query.all => ToSet(listing.shown) \subseteq wasPublic
    /\ listing.attempt = 1 => IsInjective(listing.shown)

(* Saving the editor as it was opened changes the times of an event only   *)
(* if it recurs and is over, and in a zone without an offset by whole      *)
(* weeks then.                                                             *)
SavedAsShown ==
    [][\A e \in Slugs :
          Resave(e) =>
              /\ ~Recurred(event[e]) => event'[e] = event[e]
              /\ OffFromUTC(event[e].zone) = 0 =>
                     (event'[e].start - event[e].start) % Week = 0]_vars

=============================================================================
