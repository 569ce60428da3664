---------------------------- MODULE UserDirectory ----------------------------
(***************************************************************************)
(* Users, their names and follows, and the paged lists made of them.       *)
(*                                                                         *)
(* PUT /api/me checks that a username is free and then writes it, in two   *)
(* statements.  A client walks a list page by page: every page is a        *)
(* request of its own, whose page and whose total come from two statements *)
(* (notifications: from one), while rows come and go.  An item is in       *)
(* the list at a place, and a page is what lies at some places, so items   *)
(* that move between two statements are missed, or met again.              *)
(*                                                                         *)
(* ProfilePrivacy is part of the module: Owner is the user it is about, and *)
(* each page of Owner's lists is preceded by a check of the privacy.  The  *)
(* other users have the default settings.  Names are valid and not         *)
(* reserved; what a profile holds besides its name is left out.            *)
(***************************************************************************)
EXTENDS ProfilePrivacy, Integers, Sequences, FiniteSets

CONSTANTS
    Users, Names, None,
    Owner,         \* the user of ProfilePrivacy
    Requests,      \* requests PUT /api/me
    Viewers,       \* who asks: users, or None if nobody has signed in
    DefaultLimit, MaxLimit,
    MaxInt32,      \* the largest int32: numbers are taken modulo 2 * (MaxInt32 + 1)
    RawLimits, RawOffsets, \* what clients send for limit and offset
    MaxChanges     \* bound on the changes of the tables

ASSUME LimitsAssumption == DefaultLimit \in 1..MaxLimit /\ MaxLimit \in Nat
ASSUME Int32Assumption == MaxInt32 \in Nat /\ MaxLimit <= MaxInt32
ASSUME RawAssumption == RawLimits \cup RawOffsets \subseteq Nat
ASSUME UsersAssumption == IsFiniteSet(Users)
ASSUME NamesAssumption == None \notin Names \cup Users
ASSUME OwnerAssumption == Owner \in Users
ASSUME ChangesAssumption == MaxChanges \in Nat

VARIABLES
    joined,   \* users table: joined[u] is when the row of u was created
    name,     \* name[u]: users.username, or None
    follows,  \* follows table: follows[<<u, v>>] is when u began to follow v
    arrived,  \* how many notifications and views the walker has; the newest is
              \* the last
    put,      \* put[r]: whose request r is and the name it asks for, None for
              \* one that changes other fields
    upc,      \* where request r is
    wpc,      \* where the walk is
    walk,     \* its parameters and what the statements of a request returned
    changes,  \* how often the tables have changed: the clock of the database
    \* history:
    since,    \* since[r]: the names written for others since r's check
    stable,   \* the items that have been in the list all through the walk
    got,      \* the items the walk has got
    again,    \* the items it has got more than once
    shifts,   \* what has happened to the list during the walk
    gap       \* the same, between the two statements of any one request

tables == <<joined, name, follows, arrived>>
updateVars == <<put, upc, since>>
walkVars == <<wpc, walk, stable, got, again, shifts, gap>>
directoryVars == <<joined, name, follows, arrived, put, upc, wpc, walk, changes,
                   since, stable, got, again, shifts, gap>>

ByName == {"followers", "following"}     \* lists of a user looked up by name
Arriving == {"notifications", "events"}
Kinds == ByName \cup Arriving \cup {"new", "popular", "search"}
CountFirst == ByName \cup {"events"}      \* total before page; else after it
Registered == DOMAIN joined
Named == {u \in Registered : name[u] # None}

\* The conversion int32(n) of a number that is not negative.
Int32(n) == LET m == n % (2 * (MaxInt32 + 1))
            IN  IF m > MaxInt32 THEN m - 2 * (MaxInt32 + 1) ELSE m
Fits(n) == n <= MaxInt32
Least(a, b) == IF a < b THEN a ELSE b

ItemsOf(q) == {q[i] : i \in 1..Len(q)}

TablesTypeOK ==
    /\ Registered \subseteq Users /\ joined \in [Registered -> Int]
    /\ name \in [Users -> Names \cup {None}]
    /\ DOMAIN follows \subseteq Registered \X Registered
    /\ follows \in [DOMAIN follows -> Int]
    /\ arrived \in [Arriving -> Nat] /\ changes \in 0..MaxChanges

UpdatesTypeOK ==
    /\ put \in [Requests -> [user : Users, name : Names \cup {None}]]
    /\ upc \in [Requests -> {"new", "write", "ok", "taken", "unique", "norow", "error"}]
    /\ since \in [Requests -> SUBSET Names]

WalkTypeOK ==
    /\ wpc \in {"idle", "next", "check", "count", "page", "answer",
                "done", "stuck", "notfound", "private", "refused", "failed"}
    /\ walk.kind \in Kinds /\ walk.name \in Names \cup {None}
    /\ walk.viewer \in Viewers \cup {None} /\ walk.subject \in Users \cup {None}
    /\ walk.asked \in BOOLEAN /\ walk.excused \in BOOLEAN
    /\ {walk.rawLimit, walk.rawOffset, walk.total} \subseteq Nat
    /\ {walk.limit, walk.start, walk.offset} \subseteq Int
    /\ Len(walk.page) \in Nat
    /\ stable \cup got \cup again \cup ItemsOf(walk.page) \subseteq Users \cup Nat
    /\ shifts \subseteq {"shrank", "grew", "moved", "tied"} /\ gap \subseteq shifts

DirectoryTypeOK == TypeOK /\ TablesTypeOK /\ UpdatesTypeOK /\ WalkTypeOK

-----------------------------------------------------------------------------
(* The lists *)

Followers(v) == {u \in Registered : <<u, v>> \in DOMAIN follows}
Following(u) == {v \in Registered : <<u, v>> \in DOMAIN follows}

\* The rows of the list of walk w.
Items(w) ==
    CASE w.kind = "followers" -> Followers(w.subject)
      [] w.kind = "following" -> Following(w.subject)
      [] w.kind \in {"new", "popular"} -> Named \ {w.viewer}
      [] w.kind = "search" -> Named
      [] w.kind \in Arriving -> 1..arrived[w.kind]

\* ORDER BY of the queries: whether a has to come before b.
GetFollowers(v, a, b) == follows[<<a, v>>] > follows[<<b, v>>]
GetFollowing(u, a, b) == follows[<<u, a>>] > follows[<<u, b>>]
DiscoverUsersNew(a, b) == joined[a] > joined[b]
MoreFollowers(a, b) == Cardinality(Followers(a)) > Cardinality(Followers(b))
DiscoverUsersPopular(a, b) ==
    \/ MoreFollowers(a, b)
    \/ ~MoreFollowers(b, a) /\ DiscoverUsersNew(a, b)

\* All who match rank alike: of those with as many followers any comes first.
SearchUsers(a, b) == MoreFollowers(a, b)

\* Notifications and views are numbered as they come.
ListNotificationsByUser(a, b) == a > b
GetRecentProfileViewEvents(a, b) == a > b

Before(w, a, b) ==
    \/ w.kind = "followers" /\ GetFollowers(w.subject, a, b)
    \/ w.kind = "following" /\ GetFollowing(w.subject, a, b)
    \/ w.kind = "new" /\ DiscoverUsersNew(a, b)
    \/ w.kind = "popular" /\ DiscoverUsersPopular(a, b)
    \/ w.kind = "search" /\ SearchUsers(a, b)
    \/ w.kind = "notifications" /\ ListNotificationsByUser(a, b)
    \/ w.kind = "events" /\ GetRecentProfileViewEvents(a, b)

\* The orders in which the statement may return the list of walk w.
Lists(w) ==
    {q \in [1..Cardinality(Items(w)) -> Items(w)] :
        \A i, j \in DOMAIN q : i < j => q[i] # q[j] /\ ~Before(w, q[j], q[i])}

\* ORDER BY leaves it open which of two comes first.
Tied(w) ==
    \E a, b \in Items(w) : a # b /\ ~Before(w, a, b) /\ ~Before(w, b, a)

\* Why Owner's lists may be shown to others.
PublicOrLost == Public \in asked \cup overlapped

-----------------------------------------------------------------------------
(* What a step does to the list being walked *)

Walking == wpc \in {"check", "count", "page", "answer", "next"} /\ walk.asked

Reordered ==
    \E a, b \in Items(walk) \cap Items(walk)' : Before(walk, a, b) # Before(walk, a, b)'

Shift ==
    {kind \in {"shrank", "grew", "moved"} :
        \/ kind = "shrank" /\ ~(Items(walk) \subseteq Items(walk)')
        \/ kind = "grew" /\ ~(Items(walk)' \subseteq Items(walk))
        \/ kind = "moved" /\ Reordered}

\* Between the two statements of a request.
Between == wpc = IF walk.kind \in CountFirst THEN "page" ELSE "count"

\* created_at of a row inserted now.
Now == changes + 1

Change ==
    /\ changes < MaxChanges
    /\ changes' = changes + 1
    /\ UNCHANGED <<wpc, walk, got, again>>
    /\ IF Walking THEN /\ shifts' = shifts \cup Shift
                       /\ gap' = IF Between THEN gap \cup Shift ELSE gap
                       /\ stable' = stable \cap Items(walk)'
                  ELSE UNCHANGED <<shifts, gap, stable>>

-----------------------------------------------------------------------------
(* Users and follows *)

\* GET /api/me.
InsertUser(u) ==
    /\ u \notin Registered
    /\ joined' = [v \in Registered \cup {u} |-> IF v = u THEN Now ELSE joined[v]]
    /\ UNCHANGED <<name, follows, arrived, updateVars>>
    /\ Change

\* Faulty variant: no foreign keys.
FollowUserWithoutRow(u, v) ==
    /\ u # v /\ <<u, v>> \notin DOMAIN follows
    /\ follows' = [e \in DOMAIN follows \cup {<<u, v>>} |->
                     IF e = <<u, v>> THEN Now ELSE follows[e]]
    /\ UNCHANGED <<joined, name, arrived, updateVars>>
    /\ Change

FollowUser(u, v) ==
    /\ u # v /\ {u, v} \subseteq Registered
    /\ <<u, v>> \notin DOMAIN follows
    /\ follows' = [e \in DOMAIN follows \cup {<<u, v>>} |->
                     IF e = <<u, v>> THEN Now ELSE follows[e]]
    /\ UNCHANGED <<joined, name, arrived, updateVars>>
    /\ Change

UnfollowUser(u, v) ==
    /\ <<u, v>> \in DOMAIN follows
    /\ follows' = [e \in DOMAIN follows \ {<<u, v>>} |-> follows[e]]
    /\ UNCHANGED <<joined, name, arrived, updateVars>>
    /\ Change

\* Notify inserts a notification, RecordProfileView an event; nothing deletes any.
Arrive(kind) ==
    /\ arrived' = [arrived EXCEPT ![kind] = @ + 1]
    /\ UNCHANGED <<joined, name, follows, updateVars>>
    /\ Change

-----------------------------------------------------------------------------
(* PUT /api/me *)

IsUsernameTaken(n, u) == \E v \in Registered \ {u} : name[v] = n

Answered(r, answer) ==
    /\ upc' = [upc EXCEPT ![r] = answer]
    /\ UNCHANGED <<tables, put, since, walkVars, changes>>

\* Faulty variant: the check is left to the constraint.
CheckUsernameLater(r) == upc[r] = "new" /\ Answered(r, "write")

CheckUsername(r) ==
    /\ upc[r] = "new"
    /\ LET taken == put[r].name # None /\ IsUsernameTaken(put[r].name, put[r].user)
       IN  Answered(r, IF taken THEN "taken" ELSE "write")

\* The row is written with its name: others may have lost it to this request.
WriteName(r, n) ==
    /\ upc' = [upc EXCEPT ![r] = "ok"]
    /\ name' = [name EXCEPT ![put[r].user] = n]
    /\ since' = [q \in Requests |->
                   IF put[q].user # put[r].user /\ upc[q] = "write"
                   THEN since[q] \cup {n} ELSE since[q]]
    /\ UNCHANGED <<joined, follows, arrived, put>>
    /\ Change

\* COALESCE keeps what is not asked for.  A name another has by now violates
\* the constraint; a user without a row has nothing to update.  Both are
\* answered as server errors.
UpdateUser(r) ==
    /\ upc[r] = "write"
    /\ LET u == put[r].user  n == put[r].name
       IN  \/ u \in Registered /\ n = None /\ Answered(r, "ok")
           \/ u \in Registered /\ n # None /\ ~IsUsernameTaken(n, u) /\ WriteName(r, n)
           \/ u \in Registered /\ n # None /\ IsUsernameTaken(n, u) /\ Answered(r, "unique")
           \/ u \notin Registered /\ Answered(r, "norow")

UpdateFails(r) == DbMayFail /\ upc[r] \in {"new", "write"} /\ Answered(r, "error")

-----------------------------------------------------------------------------
(* Parsing limit and offset *)

\* Faulty variant: a limit that is too large is not clamped.
LimitUnclamped(kind, raw) == IF raw > 0 THEN Int32(raw) ELSE DefaultLimit

\* Users' lists convert the limit and clamp it then; the others fall back to the
\* default before they convert.
ConvertsLimit(kind) == kind \notin Arriving \cup {"search"}
Limit(kind, raw) ==
    IF ConvertsLimit(kind)
    THEN IF raw > 0 THEN Least(Int32(raw), MaxLimit) ELSE DefaultLimit
    ELSE IF raw \in 1..MaxLimit THEN raw ELSE DefaultLimit

\* Only notifications convert an offset that does not fit.
Offset(kind, raw) ==
    IF kind = "notifications" THEN Int32(raw)
    ELSE IF Fits(raw) THEN raw ELSE 0

-----------------------------------------------------------------------------
(* A walk through a list *)

Idle == [kind |-> "new", name |-> None, viewer |-> None, rawLimit |-> 0,
         rawOffset |-> 0, limit |-> DefaultLimit, start |-> 0, offset |-> 0,
         subject |-> None, asked |-> FALSE, excused |-> FALSE, total |-> 0,
         page |-> <<>>]

TablesEmpty ==
    /\ joined = <<>>
    /\ name = [u \in Users |-> None]
    /\ follows = <<>>
    /\ arrived = [kind \in Arriving |-> 0]

NothingAsked ==
    /\ put \in [Requests -> [user : Users, name : Names \cup {None}]]
    /\ upc = [r \in Requests |-> "new"]
    /\ wpc = "idle" /\ walk = Idle
    /\ changes = 0
    /\ since = [r \in Requests |-> {}]
    /\ stable = {} /\ got = {} /\ again = {} /\ shifts = {} /\ gap = {}

DirectoryInit == Init /\ TablesEmpty /\ NothingAsked

BeginWalk(kind, n, viewer, rawLimit, rawOffset) ==
    /\ wpc = "idle"
    /\ (kind \in ByName) = (n # None)
    /\ wpc' = "next"
    /\ walk' = [Idle EXCEPT !.kind = kind, !.name = n, !.viewer = viewer,
                            !.rawLimit = rawLimit, !.rawOffset = rawOffset,
                            !.limit = Limit(kind, rawLimit),
                            !.start = Offset(kind, rawOffset),
                            !.offset = Offset(kind, rawOffset)]
    /\ UNCHANGED <<tables, updateVars, changes, stable, got, again, shifts, gap>>

WalkGoto(from, to) ==
    /\ wpc = from /\ wpc' = to
    /\ UNCHANGED <<tables, updateVars, changes, walk, stable, got, again, shifts, gap>>

\* A request begins.  A list of a user is that of whoever has the name now.
Lookup ==
    /\ wpc = "next"
    /\ \E u \in IF walk.kind \in ByName THEN {v \in Registered : name[v] = walk.name}
                                       ELSE {None} :
          LET w == [walk EXCEPT !.subject = u, !.asked = TRUE, !.excused = PublicOrLost]
          IN  /\ walk' = w
              /\ shifts' = IF walk.asked /\ walk.subject # u THEN shifts \cup {"moved"}
                           ELSE shifts
              /\ stable' = IF walk.asked THEN stable \cap Items(w) ELSE Items(w)
    /\ wpc' = IF walk.kind \in ByName THEN "check"
              ELSE IF walk.kind \in CountFirst THEN "count" ELSE "page"
    /\ UNCHANGED <<tables, updateVars, changes, got, again, gap>>

NotFound ==
    /\ walk.kind \in ByName
    /\ \A v \in Registered : name[v] # walk.name
    /\ WalkGoto("next", "notfound")

\* isProfileVisibleTo, for the lists of a user.
Visible == walk.viewer = walk.subject \/ walk.subject # Owner \/ Public \in Current

\* Faulty variant: only the first page is checked.
CheckWalkOnce ==
    \/ (Visible \/ walk.offset > walk.start) /\ WalkGoto("check", "count")
    \/ ~Visible /\ walk.offset = walk.start /\ WalkGoto("check", "private")

CheckWalk ==
    \/ Visible /\ WalkGoto("check", "count")
    \/ ~Visible /\ WalkGoto("check", "private")

CountRows ==
    /\ wpc = "count"
    /\ walk' = [walk EXCEPT !.total = Cardinality(Items(walk))]
    /\ wpc' = IF walk.kind \in CountFirst THEN "page" ELSE "answer"
    /\ UNCHANGED <<tables, updateVars, changes, stable, got, again, shifts, gap>>

\* LIMIT and OFFSET.
Slice(q, limit, offset) == SubSeq(q, offset + 1, Least(offset + limit, Len(q)))

\* Notifications ask for one row more than they return, and for no total.
GetPage ==
    /\ wpc = "page" /\ walk.limit >= 0 /\ walk.offset >= 0
    /\ \E q \in Lists(walk) :
          walk' = [walk EXCEPT
                     !.page = Slice(q, walk.limit, walk.offset),
                     !.total = IF walk.kind # "notifications" THEN @
                               ELSE walk.offset + Len(Slice(q, walk.limit + 1, walk.offset))]
    /\ shifts' = IF Tied(walk) THEN shifts \cup {"tied"} ELSE shifts
    /\ wpc' = IF walk.kind \in CountFirst \cup {"notifications"} THEN "answer" ELSE "count"
    /\ UNCHANGED <<tables, updateVars, changes, stable, got, again, gap>>

\* PostgreSQL refuses a LIMIT or OFFSET below zero.
Refused ==
    /\ walk.limit < 0 \/ walk.offset < 0
    /\ WalkGoto("page", "refused")

\* Faulty variant: the last item is not promised.
HasMoreTooFew(w) == w.offset + Len(w.page) + 1 < w.total

\* Search reckons with a full page.  For events the client reckons.
HasMore(w) == w.offset + (IF w.kind = "search" THEN w.limit ELSE Len(w.page)) < w.total

\* The client takes the items and asks for what comes after them.  An answer
\* with no item that promises more leaves it where it was.
Answer ==
    /\ wpc = "answer"
    /\ got' = got \cup ItemsOf(walk.page)
    /\ again' = again \cup (got \cap ItemsOf(walk.page))
    /\ wpc' = IF ~HasMore(walk) THEN "done"
              ELSE IF walk.page = <<>> THEN "stuck" ELSE "next"
    /\ walk' = [walk EXCEPT !.offset = @ + Len(walk.page), !.total = 0, !.page = <<>>]
    /\ UNCHANGED <<tables, updateVars, changes, stable, shifts, gap>>

WalkFails ==
    /\ DbMayFail
    /\ \E step \in {"next", "check", "count", "page"} : WalkGoto(step, "failed")

-----------------------------------------------------------------------------
(* With the settings *)

\* A step of ProfilePrivacy, with what it does to the walk's excuse.
SettingsStep ==
    /\ Next
    /\ walk' = IF wpc \in {"check", "count", "page"}
               THEN [walk EXCEPT !.excused = @ \/ PublicOrLost'] ELSE walk
    /\ UNCHANGED <<tables, updateVars, wpc, changes, stable, got, again, shifts, gap>>

TableStep ==
    \/ \E u \in Users : InsertUser(u)
    \/ \E u, v \in Users : FollowUser(u, v) \/ UnfollowUser(u, v)
    \/ \E kind \in Arriving : Arrive(kind)
    \/ \E r \in Requests : CheckUsername(r) \/ UpdateUser(r) \/ UpdateFails(r)

WalkStep ==
    \/ \E kind \in Kinds, n \in Names \cup {None}, viewer \in Viewers,
          rawLimit \in RawLimits, rawOffset \in RawOffsets :
             BeginWalk(kind, n, viewer, rawLimit, rawOffset)
    \/ Lookup \/ NotFound \/ CheckWalk \/ CountRows \/ GetPage \/ Refused \/ Answer
    \/ WalkFails

DirectoryNext ==
    \/ (TableStep \/ WalkStep) /\ UNCHANGED vars
    \/ SettingsStep

DirectorySpec == DirectoryInit /\ [][DirectoryNext]_<<vars, directoryVars>>

-----------------------------------------------------------------------------
(* Properties *)

\* An update is answered with a server error for a name in use only if that name
\* was written for another user between its check and its write; a name in use
\* at the check is answered as taken.
ConflictOnlyByRace ==
    \A r \in Requests : upc[r] = "unique" => put[r].name \in since[r]

\* A walk to the end of a list misses an item that was there all the time only
\* if another item left or changed its place, or came between the total and the
\* page of one request, or the order was not settled.  A walk that takes the
\* total after the page misses nothing to newcomers, and a walk through
\* notifications, where nothing leaves, misses nothing at all.
MissedOnlyByShift ==
    wpc = "done" /\ walk.start = 0 =>
        \/ stable \subseteq got
        \/ {"shrank", "moved", "tied"} \cap shifts # {}
        \/ walk.kind \in CountFirst /\ "grew" \in gap

\* A walk meets an item again only if one came or changed its place, or the
\* order was not settled: items that leave repeat nothing.
AgainOnlyByShift ==
    again # {} => {"grew", "moved", "tied"} \cap shifts # {}

\* A client is told that there is more and given nothing only if items came or
\* left between the two statements of a request, or the client sent a limit that
\* the conversion makes zero.
StuckOnlyByShift ==
    wpc = "stuck" => {"grew", "shrank"} \cap gap # {} \/ ~Fits(walk.rawLimit)

\* Whatever a client sends, no list gives out more than MaxLimit items at once.  A
\* conversion that changes the number does harm only in the lists that convert before
\* they check: a limit of users' lists may become less than 1 and an offset of
\* notifications may fall below 0, which the database refuses.  What fits is used as
\* sent, and nothing else is refused.
PaginationSane ==
    /\ walk.limit <= MaxLimit /\ Len(walk.page) <= MaxLimit
    /\ walk.limit < 1 => ConvertsLimit(walk.kind) /\ ~Fits(walk.rawLimit)
    /\ walk.start < 0 => walk.kind = "notifications" /\ ~Fits(walk.rawOffset)
    /\ Fits(walk.rawOffset) => walk.start = walk.rawOffset
    /\ wpc = "refused" => walk.limit < 0 \/ walk.start < 0

\* A walk is exact but for what happens to the list on the way.
WalkExact == MissedOnlyByShift /\ AgainOnlyByShift /\ StuckOnlyByShift

\* A page of Owner's lists is read and shown to others only if at some moment of its
\* own request, not of an earlier page's, Owner's last word was that the profile be
\* public, or that word was lost to overlapping updates.
WalkPrivacyKept ==
    wpc \in {"count", "page", "answer"} /\ walk.subject = Owner /\ walk.viewer # Owner
        => walk.excused
=============================================================================
