----------------------------- MODULE Catalogue -----------------------------
(***************************************************************************)
(* The listings of the reference application: resources and reservations,  *)
(* read page by page through signed cursors (features/resource,            *)
(* features/reservation, runtime/pagination) while other people create,    *)
(* rename, retire and move the rows, keys are rotated and time passes.     *)
(*                                                                         *)
(* A name is a number whose order is that of the text.  PostgreSQL and Go  *)
(* each have a lower-case spelling of it, and they need not agree: the     *)
(* repository pins no locale.  A token is the record its signature         *)
(* protects: none can be made without a key.                               *)
(***************************************************************************)
EXTENDS Integers, Sequences, FiniteSets

CONSTANTS Ids,            \* row identifiers, in the order PostgreSQL compares them
          Names, Runes,   \* names; Runes[n]: the length of n in characters
          lower,          \* lower[n]: what PostgreSQL's lower() makes of n
          ToLower,        \* ToLower[n]: what Go's strings.ToLower makes of n
          Bytes,          \* Bytes[n]: the length of ToLower[n] in bytes
          WithSeparator,  \* the names that contain the cursor's separator
          Starts,         \* the instants a reservation may begin at
          Half,           \* 2^63: the instants an int64 of nanoseconds can tell
          Orgs, Clients,
          Listings,       \* the filters people choose
          Sizes,          \* the page sizes they ask for
          Keys,           \* identifiers of signing keys
          TTL, MaxRetired,
          Policy,         \* a report's default size, largest size and deepest row
          Nil,            \* no row, no cursor, an empty parameter
          Horizon, MaxWrites    \* bounds: the clock, and how often rows change

VARIABLES clock,
          rows,      \* rows[i]: the row with that identifier, in its table
          ring,      \* the key ring: the active key and the retired ones
          walk,      \* walk[c]: the listing client c reads
          writes

(* A row of either table, the name of a listing, the position of a cursor, its
   token, and a page of a report. *)
RowType ==
  [table : {"resources"}, org : Orgs, name : Names, retired : BOOLEAN]
  \cup [table : {"reservations"}, org : Orgs, start : Starts, state : {"booked", "cancelled"}]
BindingType == [table : DOMAIN Listings, org : Orgs,
                filter : Listings.resources \cup Listings.reservations]
PositionType == [key : Int, id : Ids, bytes : Int, cut : BOOLEAN]
TokenType == [key : Keys, binding : BindingType, direction : {"forward"}, expires : Int,
              position : PositionType]
ReportType == [number : Nat \ {0}, size : Nat \ {0}]

ASSUME CatalogueAssumption ==
  /\ IsFiniteSet(Ids) /\ Ids \subseteq Int
  /\ Names \subseteq Int /\ Starts \subseteq Int /\ Half \in Nat \ {0}
  /\ Runes \in [Names -> Nat] /\ Bytes \in [Names -> Nat]
  /\ lower \in [Names -> Int] /\ ToLower \in [Names -> Int]
  /\ Orgs /= {} /\ Keys /= {} /\ TTL \in Nat
  /\ DOMAIN Listings = {"resources", "reservations"}
  /\ Nil \notin RowType \cup PositionType \cup TokenType \cup ReportType

cvars == <<clock, rows, ring, walk, writes>>

MaxCursorValueBytes == 256
MaxPageLimit == 200
MaxReportPage == 100000
MaxReportOffset == 1000000
MaxNameBytes == 200
UUIDBytes == 36

-----------------------------------------------------------------------------
(* runtime/pagination: keys. *)
NewKeyRing(active, retired) == active \notin retired /\ Cardinality(retired) <= MaxRetired
find(key) == key = ring.active \/ key \in ring.retired

(* Cursors.  A binding is the collection, its tenant and every filter. *)
NewBinding(table, org, filter) == [table |-> table, org |-> org, filter |-> filter]
checkValues(bytes) == bytes <= MaxCursorValueBytes
Encode(binding, direction, position) ==
  [key |-> ring.active, binding |-> binding, direction |-> direction,
   expires |-> clock + TTL, position |-> position]

Decode(binding, token) ==
  IF ~ find(token.key) THEN "ErrCursorSignature"
  ELSE IF ~ (clock < token.expires) THEN "ErrCursorExpired"
  ELSE IF token.binding /= binding THEN "ErrCursorBinding" ELSE "ok"

(* Requests.  A query holds the values each parameter was given. *)
single(values) == Len(values) <= 1 /\ \A n \in DOMAIN values : values[n] /= Nil
parseLimit(values, max) == single(values) /\ \A n \in DOMAIN values : values[n] \in 1..max
ParsePage(binding, query, max) ==
  IF ~ parseLimit(query.limit, max) THEN "ErrInvalidLimit"
  ELSE IF ~ single(query.after) \/ ~ single(query.before) THEN "ErrRepeatedParameter"
  ELSE IF query.after /= << >> /\ query.before /= << >> THEN "ErrConflictingCursors"
  ELSE IF query.after = << >> /\ query.before = << >> THEN "ok"
  ELSE LET token == Head(query.after \o query.before)
           direction == IF query.before /= << >> THEN "backward" ELSE "forward"
           verdict == Decode(binding, token)
       IN IF verdict = "ok" /\ token.direction /= direction
          THEN "ErrCursorDirection" ELSE verdict

(* Reports: the other contract, which names a page by its number. *)
NewReportLimits(default, max, maxOffset) ==
  /\ default \in 1..max /\ max \in 1..MaxPageLimit /\ maxOffset \in 0..MaxReportOffset
parseBoundedParameter(values, high) ==
  single(values) /\ \A n \in DOMAIN values : values[n] \in 1..high
ReportOf(query) ==
  [number |-> IF query.page = << >> THEN 1 ELSE Head(query.page),
   size |-> IF query.size = << >> THEN Policy.default ELSE Head(query.size)]
Offset(report) == (report.number - 1) * report.size
ParseReport(query) ==
  IF query.others \cap {"limit", "after", "before"} /= {} THEN "ErrMixedPagination"
  ELSE IF ~ parseBoundedParameter(query.page, MaxReportPage) THEN "ErrInvalidPage"
  ELSE IF ~ parseBoundedParameter(query.size, Policy.max) THEN "ErrInvalidSize"
  ELSE IF Offset(ReportOf(query)) > Policy.maxOffset THEN "ErrReportTooDeep" ELSE "ok"
Totals(report, total) ==
  LET pages == total \div report.size + (IF total % report.size /= 0 THEN 1 ELSE 0)
  IN [pages |-> pages, more |-> report.number < pages]

-----------------------------------------------------------------------------
(* The two collections: which rows a filter takes, and by what they are
   ordered. *)
InService(row) == row.table = "resources" /\ ~ row.retired

MatchesResource(row, filter) == filter.retired \/ ~ row.retired
MatchesReservation(row, filter) ==
  /\ filter.states = {} \/ row.state \in filter.states
  /\ \/ filter.window = Nil
     \/ row.start < filter.window[2] /\ filter.window[1] < row.start + 1

(* The tenant's rows of the table. *)
Visible(binding, i) ==
  rows[i] /= Nil /\ rows[i].table = binding.table /\ rows[i].org = binding.org
Taken(binding, i) ==
  /\ Visible(binding, i)
  /\ IF binding.table = "resources" THEN MatchesResource(rows[i], binding.filter)
     ELSE MatchesReservation(rows[i], binding.filter)

SortKey(row) == IF row.table = "resources" THEN lower[row.name] ELSE row.start

(* params refuses a window filter that is half set or empty. *)
params(binding) ==
  binding.table = "reservations" /\ binding.filter.window /= Nil
    => /\ Nil \notin {binding.filter.window[1], binding.filter.window[2]}
       /\ binding.filter.window[1] < binding.filter.window[2]

(* The feature's own cursor: base64 of the key as Go computes it, a separator
   and the identifier, cut at the first separator when it is read. *)
UnixNano(instant) == ((instant + Half) % (2 * Half)) - Half
CursorKey(row) == IF row.table = "resources" THEN ToLower[row.name] ELSE UnixNano(row.start)
encodeCursor(i) ==
  [key |-> CursorKey(rows[i]), id |-> i,
   bytes |-> IF rows[i].table = "resources"
             THEN (4 * (Bytes[rows[i].name] + 1 + UUIDBytes) + 2) \div 3 ELSE 0,
   cut |-> rows[i].table = "resources" /\ rows[i].name \in WithSeparator]
decodeCursor(position) == position = Nil \/ ~ position.cut

Beyond(i, position) ==
  \/ position = Nil
  \/ SortKey(rows[i]) > position.key
  \/ SortKey(rows[i]) = position.key /\ i > position.id

(* SELECT ... ORDER BY key, id LIMIT size + 1: the n-th row has n - 1 before it. *)
Before(i, j) == \/ SortKey(rows[i]) < SortKey(rows[j])
                \/ SortKey(rows[i]) = SortKey(rows[j]) /\ i < j
Rank(found, i) == Cardinality({j \in found : Before(j, i)})
Ordered(found, limit) ==
  [n \in 1..(IF Cardinality(found) > limit THEN limit ELSE Cardinality(found)) |->
     CHOOSE i \in found : Rank(found, i) = n - 1]
listResources(binding, position, limit) ==
  Ordered({i \in Ids : /\ Visible(binding, i) /\ MatchesResource(rows[i], binding.filter)
                        /\ Beyond(i, position)}, limit)
listReservations(binding, position, limit) ==
  Ordered({i \in Ids : /\ Visible(binding, i) /\ MatchesReservation(rows[i], binding.filter)
                        /\ Beyond(i, position)}, limit)

(* The same without a position: a report skips rows by their number. *)
countRows(binding) == Cardinality({i \in Ids : Taken(binding, i)})
rowsAt(binding, report) ==
  LET found == Ordered({i \in Ids : Taken(binding, i)}, Offset(report) + report.size)
  IN SubSeq(found, Offset(report) + 1, Len(found))

(* One row more than asked for says whether there is a next page. *)
\* Mutant: the cursor names the extra row, which was not on the page.
CutAfterExtraRow(found, size) ==
  [items |-> IF Len(found) > size THEN SubSeq(found, 1, size) ELSE found,
   next |-> IF Len(found) > size THEN encodeCursor(found[size + 1]) ELSE Nil]
Cut(found, size) ==
  [items |-> IF Len(found) > size THEN SubSeq(found, 1, size) ELSE found,
   next |-> IF Len(found) > size THEN encodeCursor(found[size]) ELSE Nil]
List(binding, position, size) == Cut(listResources(binding, position, size + 1), size)
ListReservationPage(binding, position, size) ==
  Cut(listReservations(binding, position, size + 1), size)

-----------------------------------------------------------------------------
Stopped == [binding |-> Nil, token |-> Nil, report |-> Nil, times |-> [i \in Ids |-> 0],
            steady |-> {}, astray |-> FALSE, status |-> 200]
paginationProblem == [Stopped EXCEPT !.status = 400]
InternalServerError == [Stopped EXCEPT !.status = 500]

(* The position of a verified cursor, or the beginning. *)
cursorText(token, first) == IF first THEN Nil ELSE token.position
parseForward(binding, token, size, first) ==
  ParsePage(binding, [limit |-> <<size>>, before |-> << >>,
                      after |-> IF first THEN << >> ELSE <<token>>], Cardinality(Ids)) = "ok"

(* How often a walk has shown each row: never, once, or Repeatedly. *)
Repeatedly == 2
Counted(times, shown) ==
  [i \in Ids |-> IF i \in shown /\ times[i] < Repeatedly THEN times[i] + 1 ELSE times[i]]

(* The answer to client c: the rows of the page and the token of the next one.
   `astray` says that one of the walk's cursors does not have the key of its row. *)
issueCursorPage(c, binding, page, first) ==
  LET shown == {page.items[n] : n \in DOMAIN page.items}
      begun == IF first
               THEN [Stopped EXCEPT !.steady = {i \in Ids : Taken(binding, i)}]
               ELSE walk[c]
  IN IF page.next /= Nil /\ ~ checkValues(page.next.bytes) THEN InternalServerError
     ELSE [begun EXCEPT
            !.binding = binding,
            !.times = Counted(begun.times, shown),
            !.token = IF page.next = Nil THEN Nil
                      ELSE Encode(binding, "forward", page.next),
            !.astray = @ \/ (page.next /= Nil
                             /\ page.next.key /= SortKey(rows[page.next.id])),
            !.report = Nil]

(* GET /orgs/{org}/resources and GET /orgs/{org}/reservations: the first page,
   or the next one with the token of the last page, which may have been issued
   for another organization, filter or collection. *)
ListResources(c) ==
  \E org \in Orgs, filter \in Listings.resources, size \in Sizes, first \in BOOLEAN :
    LET binding == NewBinding("resources", org, filter)
        token == walk[c].token
        position == cursorText(token, first)
    IN /\ first \/ token /= Nil
       /\ walk' = [walk EXCEPT ![c] =
            IF /\ parseForward(binding, token, size, first)
               /\ decodeCursor(position)
            THEN issueCursorPage(c, binding, List(binding, position, size), first)
            ELSE paginationProblem]
       /\ UNCHANGED <<clock, rows, ring, writes>>

ListReservations(c) ==
  \E org \in Orgs, filter \in Listings.reservations, size \in Sizes, first \in BOOLEAN :
    LET binding == NewBinding("reservations", org, filter)
        token == walk[c].token
        position == cursorText(token, first)
    IN /\ first \/ token /= Nil
       /\ walk' = [walk EXCEPT ![c] =
            IF /\ parseForward(binding, token, size, first)
               /\ params(binding) /\ decodeCursor(position)
            THEN issueCursorPage(c, binding, ListReservationPage(binding, position, size), first)
            ELSE paginationProblem]
       /\ UNCHANGED <<clock, rows, ring, writes>>

(* The answer to a report: `report` is the page the reader asks for next, until
   it is told that there is none. *)
issueReportPage(c, binding, report, first) ==
  LET shown == {rowsAt(binding, report)[n] : n \in DOMAIN rowsAt(binding, report)}
      begun == IF first
               THEN [Stopped EXCEPT !.steady = {i \in Ids : Taken(binding, i)}]
               ELSE walk[c]
  IN [begun EXCEPT
       !.binding = binding,
       !.times = Counted(begun.times, shown),
       !.report = IF Totals(report, countRows(binding)).more
                  THEN [report EXCEPT !.number = @ + 1] ELSE Nil]

(* A collection served as a report: its first page by number or by default, or
   the page after the last one; the parameters of a cursor do not belong here. *)
ReadReport(c) ==
  \E org \in Orgs, size \in {<< >>} \cup {<<n>> : n \in Sizes}, first \in BOOLEAN,
     table \in DOMAIN Listings, others \in {{}, {"limit"}, {"after"}, {"before"}} :
    \E filter \in Listings[table] :
      LET binding == IF first THEN NewBinding(table, org, filter) ELSE walk[c].binding
          query == [page |-> IF first THEN << >> ELSE <<walk[c].report.number>>,
                    size |-> IF first THEN size ELSE <<walk[c].report.size>>,
                    others |-> others]
      IN /\ NewReportLimits(Policy.default, Policy.max, Policy.maxOffset)
         /\ first \/ walk[c].report /= Nil
         /\ params(binding)
         /\ walk' = [walk EXCEPT ![c] =
              IF ParseReport(query) = "ok"
              THEN issueReportPage(c, binding, ReportOf(query), first)
              ELSE paginationProblem]
         /\ UNCHANGED <<clock, rows, ring, writes>>

(* Rows that keep their place in a listing while it is read; in a report every
   row moves when one is written. *)
Write(after) ==
  /\ writes < MaxWrites /\ writes' = writes + 1
  /\ rows' = after
  /\ walk' = [c \in Clients |-> [walk[c] EXCEPT !.steady =
       {i \in walk[c].steady :
                  /\ walk[c].report = Nil
                  /\ SortKey(after[i]) = SortKey(rows[i])
                  /\ IF after[i].table = "resources"
                     THEN MatchesResource(after[i], walk[c].binding.filter)
                     ELSE MatchesReservation(after[i], walk[c].binding.filter)}]]
  /\ UNCHANGED <<clock, ring>>

(* The unique index on (org_id, lower(name)) of the rows in service. *)
NameTaken(org, name, except) ==
  \E j \in Ids \ {except} :
    /\ rows[j] /= Nil /\ InService(rows[j])
    /\ rows[j].org = org /\ lower[rows[j].name] = lower[name]

validate(name) == Runes[name] \in 1..MaxNameBytes
Resource(org, name) ==
  [table |-> "resources", org |-> org, name |-> name, retired |-> FALSE]
Reservation(org, start) ==
  [table |-> "reservations", org |-> org, start |-> start, state |-> "booked"]

Create ==
  \E i \in Ids, org \in Orgs, name \in Names :
    /\ validate(name) /\ rows[i] = Nil /\ ~ NameTaken(org, name, i)
    /\ Write([rows EXCEPT ![i] = Resource(org, name)])

(* A statement that finds no row in service changes nothing. *)
updateResource(i, name) == [rows EXCEPT ![i].name = name]
Update ==
  \E i \in Ids, name \in Names :
    /\ validate(name)
    /\ rows[i] /= Nil /\ InService(rows[i]) /\ ~ NameTaken(rows[i].org, name, i)
    /\ Write(updateResource(i, name))

retireResource(i) == [rows EXCEPT ![i].retired = TRUE]
Retire ==
  \E i \in Ids :
    /\ rows[i] /= Nil /\ InService(rows[i])
    /\ Write(retireResource(i))

(* What the commands of the module Workbench do to the rows that are listed. *)
Book ==
  \E i \in Ids, org \in Orgs, start \in Starts :
    /\ rows[i] = Nil
    /\ Write([rows EXCEPT ![i] = Reservation(org, start)])
CloseReservation ==
  \E i \in Ids :
    /\ rows[i] /= Nil /\ rows[i].table = "reservations" /\ rows[i].state = "booked"
    /\ Write([rows EXCEPT ![i].state = "cancelled"])

-----------------------------------------------------------------------------
(* A deployment changes the ring: a new active key, the old one retired or
   dropped. *)
RotateKey ==
  \E active \in Keys, retired \in SUBSET Keys :
    /\ NewKeyRing(active, retired) /\ active /= ring.active
    /\ retired \subseteq {ring.active}
    /\ ring' = [active |-> active, retired |-> retired]
    /\ writes < MaxWrites /\ writes' = writes + 1
    /\ UNCHANGED <<clock, rows, walk>>

Pass ==
  /\ clock < Horizon /\ clock' = clock + 1
  /\ UNCHANGED <<rows, ring, walk, writes>>

(* Two collections of the same rows in the same order, in one organization,
   and an empty identifier. *)
Seeded(table, name, start) ==
  LET org == CHOOSE o \in Orgs : TRUE
      nth(i) == Cardinality({j \in Ids : j < i})
  IN [i \in Ids |->
       IF \A j \in Ids : j <= i THEN Nil
       ELSE IF table = "resources" THEN [Resource(org, name) EXCEPT !.retired = nth(i) > 0]
       ELSE Reservation(org, start)]

CInit ==
  /\ clock = 0 /\ writes = 0
  /\ \E table \in DOMAIN Listings, name \in Names, start \in Starts :
       validate(name) /\ rows = Seeded(table, name, start)
  /\ ring = [active |-> CHOOSE k \in Keys : TRUE, retired |-> {}]
  /\ walk = [c \in Clients |-> Stopped]

CNext ==
  \/ \E c \in Clients : ListResources(c) \/ ListReservations(c) \/ ReadReport(c)
  \/ Create \/ Update \/ Retire \/ Book \/ CloseReservation
  \/ RotateKey \/ Pass

CSpec == CInit /\ [][CNext]_cvars

-----------------------------------------------------------------------------
\* Whoever follows the cursors from the first page to the last sees every row
\* that matched throughout, at a key that did not change, exactly once, and
\* never twice on the way, though rows with the same key are split over pages,
\* others are inserted, renamed and retired meanwhile, keys are rotated, and
\* the cursor is offered to other listings ("a shifted offset is how a listing
\* repeats or skips a row", resource.Page), as long as the key in each of its
\* cursors is the one PostgreSQL sorted the row by: a name that Go and PostgreSQL
\* spell differently in lower case, or an instant that int64 nanoseconds cannot
\* hold, leads a walk astray.  Whoever follows a report by page
\* number while nothing is written does too, whether the rows fill the last
\* page or not (Report.Totals).
WalkSeesEveryRowOnce ==
  \A c \in Clients : ~ walk[c].astray => \A i \in walk[c].steady :
    /\ walk[c].times[i] <= 1
    /\ walk[c].token = Nil /\ walk[c].report = Nil => walk[c].times[i] = 1

-----------------------------------------------------------------------------
(* Why it holds: a walk has shown exactly the steady rows that its cursor, or
   the number of its next report page, has left behind. *)
TakenRows(binding) == {i \in Ids : Taken(binding, i)}
WalkType ==
  [binding : BindingType \cup {Nil}, token : TokenType \cup {Nil},
   report : ReportType \cup {Nil}, times : [Ids -> 0..Repeatedly], steady : SUBSET Ids,
   astray : BOOLEAN, status : {200, 400, 500}]
CTypeOK ==
  /\ clock \in Nat /\ rows \in [Ids -> RowType \cup {Nil}] /\ ring.active \in Keys
  /\ walk \in [Clients -> WalkType]

WalkInv(w) ==
  /\ \A i \in w.steady : Taken(w.binding, i)
  /\ w.token /= Nil => w.report = Nil /\ w.token.binding = w.binding
  /\ w.token /= Nil /\ ~ w.astray =>
       \A i \in w.steady : w.times[i] = IF Beyond(i, w.token.position) THEN 0 ELSE 1
  /\ w.report /= Nil =>
       /\ ~ w.astray
       /\ \A i \in w.steady :
            w.times[i] = IF Rank(TakenRows(w.binding), i) < Offset(w.report) THEN 1 ELSE 0
  /\ w.token = Nil /\ w.report = Nil /\ ~ w.astray => \A i \in w.steady : w.times[i] = 1

\* The types, and the account of every walk.
CInv == CTypeOK /\ \A c \in Clients : WalkInv(walk[c])
=============================================================================
