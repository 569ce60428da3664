-------------------------- MODULE UserDirectoryProofs --------------------------
(***************************************************************************)
(* Proofs about ProfilePrivacy and UserDirectory, which holds it, for any  *)
(* users, names, settings, defaults, requests and bounds.                  *)
(***************************************************************************)
EXTENDS UserDirectory, FiniteSetTheorems, SequenceTheorems, TLAPS

USE PublicAssumption, DefaultAssumption, RequestsAssumption

-----------------------------------------------------------------------------
\* Type correctness of the settings and the requests.
THEOREM TypeCorrect == Spec => []TypeOK
<1>1. Init => TypeOK
  BY DEF Init, TypeOK
<1>2. TypeOK /\ [Next]_vars => TypeOK'
  <2> SUFFICES ASSUME TypeOK, [Next]_vars PROVE TypeOK'
    OBVIOUS
  <2> USE DEF TypeOK, Goto, VGoto, rowVars, requestVars, histVars, Current, InProgress
  <2>1. ASSUME NEW w \in Updates, ReadForUpdate(w) PROVE TypeOK'
    BY <2>1 DEF ReadForUpdate
  <2>2. ASSUME NEW w \in Updates, Upsert(w) PROVE TypeOK'
    BY <2>2 DEF Upsert, RecordWrite, Asks
  <2>3. ASSUME NEW g \in Gets, ReadOrCreate(g) \/ CreateDefault(g) PROVE TypeOK'
    BY <2>3 DEF ReadOrCreate, CreateDefault
  <2>4. ASSUME NEW r \in Updates \cup Gets, RequestFails(r) PROVE TypeOK'
    BY <2>4 DEF RequestFails
  <2>5. ASSUME NEW v \in Views, BeginView(v) PROVE TypeOK'
    BY <2>5 DEF BeginView
  <2>6. ASSUME NEW v \in Views, CheckPrivacy(v) \/ ShowProfile(v) \/ ViewFails(v)
        PROVE  TypeOK'
    BY <2>6 DEF CheckPrivacy, ShowProfile, ViewFails
  <2>7. CASE UNCHANGED vars
    BY <2>7 DEF vars
  <2>8. QED
    BY <2>1, <2>2, <2>3, <2>4, <2>5, <2>6, <2>7 DEF Next
<1>3. QED
  BY <1>1, <1>2, PTL DEF Spec

-----------------------------------------------------------------------------
(* Settings *)

\* What an update is about to write of a setting it does not ask for is what
\* was last asked for it, unless others have asked for it since or it had been
\* lost before.
DraftsAgree ==
    \A w \in Updates : pc[w] = "write" =>
        /\ turnOn[w] \subseteq draft[w]
        /\ turnOff[w] \cap draft[w] = {}
        /\ \A f \in Fields \ (Asks(w) \cup behind[w] \cup overlapped) :
              f \in draft[w] <=> f \in asked

\* No request turns a setting on and off.
DisjointRequests == \A w \in Updates : turnOn[w] \cap turnOff[w] = {}

\* The inductive invariant of the settings.
SettingsInv == DisjointRequests /\ DraftsAgree /\ LostOnlyByOverlap

\* SettingsInv is preserved by every step.
LEMMA SettingsInductive == TypeOK /\ SettingsInv /\ [Next]_vars => SettingsInv'
<1> SUFFICES ASSUME TypeOK, SettingsInv, [Next]_vars PROVE SettingsInv'
  OBVIOUS
<1> USE DEF TypeOK, SettingsInv, DisjointRequests, DraftsAgree, LostOnlyByOverlap,
            Goto, VGoto, rowVars, requestVars, histVars, Asks
<1>1. ASSUME NEW w \in Updates, ReadForUpdate(w) PROVE SettingsInv'
  <2>1. LostOnlyByOverlap' /\ DisjointRequests'
    BY <1>1 DEF ReadForUpdate, Current
  <2>2. ASSUME NEW x \in Updates, x # w
        PROVE  draft'[x] = draft[x] /\ behind'[x] = behind[x] /\ pc'[x] = pc[x]
    BY <1>1, <2>2 DEF ReadForUpdate
  <2>3. /\ draft'[w] = (Current \ turnOff[w]) \cup turnOn[w]
        /\ UNCHANGED <<turnOn, turnOff, asked, overlapped>>
    BY <1>1 DEF ReadForUpdate
  <2>4. QED
    BY <2>1, <2>2, <2>3
<1>2. ASSUME NEW w \in Updates, Upsert(w) PROVE SettingsInv'
  <2>1. /\ UNCHANGED <<turnOn, turnOff, draft>> /\ Current' = draft[w]
        /\ pc[w] = "write" /\ pc' = [pc EXCEPT ![w] = "done"]
    BY <1>2 DEF Upsert, Current
  <2>2. /\ asked' = (asked \ turnOff[w]) \cup turnOn[w]
        /\ \A x \in Updates : behind'[x] = behind[x] \cup Asks(w)
        /\ overlapped' = (overlapped \cup behind[w]) \ Asks(w)
    BY <1>2 DEF Upsert, RecordWrite
  <2>3. LostOnlyByOverlap'
    <3> SUFFICES ASSUME NEW f \in Fields \ overlapped' PROVE f \in Current' <=> f \in asked'
      OBVIOUS
    <3>1. CASE f \in Asks(w)
      BY <2>1, <2>2, <3>1
    <3>2. CASE f \notin Asks(w)
      BY <2>1, <2>2, <3>2
    <3>3. QED
      BY <3>1, <3>2
  <2>4. DraftsAgree'
    <3> SUFFICES ASSUME NEW x \in Updates, pc'[x] = "write"
                 PROVE  /\ turnOn[x] \subseteq draft[x]
                        /\ turnOff[x] \cap draft[x] = {}
                        /\ \A f \in Fields \ (Asks(x) \cup behind'[x] \cup overlapped') :
                              f \in draft[x] <=> f \in asked'
      BY <2>1
    <3>1. pc[x] = "write"
      BY <2>1
    <3>2. ASSUME NEW f \in Fields \ (Asks(x) \cup behind'[x] \cup overlapped')
          PROVE  f \in draft[x] <=> f \in asked'
      BY <2>2, <3>1, <3>2
    <3>3. QED
      BY <3>1, <3>2
  <2>5. QED
    BY <2>1, <2>3, <2>4
<1>3. ASSUME NEW g \in Gets, CreateDefault(g) PROVE SettingsInv'
  <2>1. /\ UNCHANGED <<turnOn, turnOff, draft, asked, behind, overlapped>>
        /\ Current' = Current
    BY <1>3 DEF CreateDefault, Current
  <2>2. \A x \in Updates : pc'[x] = pc[x]
    BY <1>3 DEF CreateDefault
  <2>3. QED
    BY <2>1, <2>2
<1>4. ASSUME UNCHANGED <<exists, on, turnOn, turnOff, draft, asked, behind, overlapped>>,
             \A x \in Updates : pc'[x] = "write" => pc[x] = "write"
      PROVE  SettingsInv'
  BY <1>4 DEF Current
<1>5. ASSUME NEW g \in Gets, ReadOrCreate(g) PROVE SettingsInv'
  BY <1>4, <1>5 DEF ReadOrCreate
<1>6. ASSUME NEW r \in Updates \cup Gets, RequestFails(r) PROVE SettingsInv'
  BY <1>4, <1>6 DEF RequestFails
<1>7. ASSUME NEW v \in Views,
             BeginView(v) \/ CheckPrivacy(v) \/ ShowProfile(v) \/ ViewFails(v)
      PROVE  SettingsInv'
  BY <1>4, <1>7 DEF BeginView, CheckPrivacy, ShowProfile, ViewFails
<1>8. CASE UNCHANGED vars
  BY <1>4, <1>8 DEF vars
<1>9. QED
  BY <1>1, <1>2, <1>3, <1>5, <1>6, <1>7, <1>8 DEF Next

\* Safety: a setting is what was last asked for it, unless it was lost to an
\* overlapping update.
THEOREM SettingsLostOnlyByOverlap == Spec => []LostOnlyByOverlap
<1>1. Init => SettingsInv
  BY DEF Init, SettingsInv, DisjointRequests, DraftsAgree, LostOnlyByOverlap, Current
<1>2. SettingsInv => LostOnlyByOverlap
  BY DEF SettingsInv
<1>3. QED
  BY <1>1, <1>2, TypeCorrect, SettingsInductive, PTL DEF Spec

-----------------------------------------------------------------------------
(* Privacy *)

\* A view in progress has been excused by now if the profile is, by the user's
\* last word or by an overlap, public; one past its check, if not the owner's,
\* has been excused.
ViewsExcused ==
    /\ Public \in asked \cup overlapped => InProgress \subseteq excused
    /\ \A v \in Views \ byOwner : vpc[v] \in {"read", "shown"} => v \in excused

\* ViewsExcused is preserved by every step.
LEMMA ViewsInductive ==
    TypeOK /\ LostOnlyByOverlap /\ ViewsExcused /\ [Next]_vars => ViewsExcused'
<1> SUFFICES ASSUME TypeOK, LostOnlyByOverlap, ViewsExcused, [Next]_vars
             PROVE  ViewsExcused'
  OBVIOUS
<1> USE DEF TypeOK, ViewsExcused, InProgress, Goto, VGoto, rowVars, requestVars, histVars
<1>1. ASSUME NEW w \in Updates, ReadForUpdate(w) PROVE ViewsExcused'
  BY <1>1 DEF ReadForUpdate
<1>2. ASSUME NEW w \in Updates, Upsert(w) PROVE ViewsExcused'
  BY <1>2 DEF Upsert, RecordWrite
<1>3. ASSUME NEW g \in Gets, ReadOrCreate(g) \/ CreateDefault(g) PROVE ViewsExcused'
  BY <1>3 DEF ReadOrCreate, CreateDefault
<1>4. ASSUME NEW r \in Updates \cup Gets, RequestFails(r) PROVE ViewsExcused'
  BY <1>4 DEF RequestFails
<1>5. ASSUME NEW v \in Views, BeginView(v) PROVE ViewsExcused'
  BY <1>5 DEF BeginView
<1>6. ASSUME NEW v \in Views, CheckPrivacy(v) PROVE ViewsExcused'
  <2>1. Public \in Current => Public \in asked \cup overlapped
    BY DEF LostOnlyByOverlap
  <2>2. QED
    BY <1>6, <2>1 DEF CheckPrivacy
<1>7. ASSUME NEW v \in Views, ShowProfile(v) \/ ViewFails(v) PROVE ViewsExcused'
  BY <1>7 DEF ShowProfile, ViewFails
<1>8. CASE UNCHANGED vars
  BY <1>8 DEF vars
<1>9. QED
  BY <1>1, <1>2, <1>3, <1>4, <1>5, <1>6, <1>7, <1>8 DEF Next

\* Safety: others are shown a profile only if, during their request, the user's
\* last word was that it be public or that word was lost to an overlap.
THEOREM PrivacyIsKept == Spec => []PrivacyKept
<1>1. Init => ViewsExcused
  BY DEF Init, ViewsExcused, InProgress
<1>2. TypeOK /\ ViewsExcused => PrivacyKept
  BY DEF TypeOK, ViewsExcused, PrivacyKept
<1>3. QED
  BY <1>1, <1>2, TypeCorrect, SettingsLostOnlyByOverlap, ViewsInductive, PTL DEF Spec

-----------------------------------------------------------------------------
(* UserDirectory leaves the settings to ProfilePrivacy *)

\* The steps of UserDirectory are steps of ProfilePrivacy or leave it alone, so
\* all that is true of the settings and the profile requests is true here.
THEOREM DirectoryKeepsSettings == DirectorySpec => Spec
<1>1. DirectoryInit => Init
  BY DEF DirectoryInit
<1>2. [DirectoryNext]_<<vars, directoryVars>> => [Next]_vars
  BY DEF DirectoryNext, SettingsStep
<1>3. QED
  BY <1>1, <1>2, PTL DEF DirectorySpec, Spec

-----------------------------------------------------------------------------
(* Names *)

\* A name that a request is about to write and that another user has was written
\* since the request's check.  Only users with a row have names.
NamesInv ==
    /\ name \in [Users -> Names \cup {None}]
    /\ put \in [Requests -> [user : Users, name : Names \cup {None}]]
    /\ upc \in [Requests -> {"new", "write", "ok", "taken", "unique", "norow", "error"}]
    /\ since \in [Requests -> SUBSET Names]
    /\ Registered \subseteq Users
    /\ \A u \in Users : name[u] # None => u \in Registered
    /\ \A r \in Requests : upc[r] = "write" /\ put[r].name # None =>
          \A u \in Users \ {put[r].user} : name[u] = put[r].name => put[r].name \in since[r]
    /\ ConflictOnlyByRace

\* NamesInv is preserved by every step.
LEMMA NamesInductive ==
    NamesInv /\ [DirectoryNext]_<<vars, directoryVars>> => NamesInv'
<1> SUFFICES ASSUME NamesInv, [DirectoryNext]_<<vars, directoryVars>> PROVE NamesInv'
  OBVIOUS
<1> USE DEF tables, updateVars, walkVars
<1>1. ASSUME UNCHANGED <<name, put, upc, since, joined>> PROVE NamesInv'
  BY <1>1 DEF NamesInv, Registered, ConflictOnlyByRace
<1>2. ASSUME NEW u \in Users, InsertUser(u) PROVE NamesInv'
  <2>1. /\ Registered' = Registered \cup {u}
        /\ UNCHANGED <<name, put, upc, since>>
    BY <1>2 DEF InsertUser, Registered
  <2>2. QED
    BY <2>1 DEF NamesInv, ConflictOnlyByRace
<1>3. ASSUME NEW r \in Requests, NEW answer \in {"ok", "taken", "norow", "error"},
             Answered(r, answer)
      PROVE  NamesInv'
  BY <1>3 DEF Answered, NamesInv, Registered, ConflictOnlyByRace
<1>4. ASSUME NEW r \in Requests, CheckUsername(r) PROVE NamesInv'
  <2>1. CASE Answered(r, "taken")
    BY <1>3, <2>1
  <2>2. CASE /\ Answered(r, "write")
             /\ ~(put[r].name # None /\ IsUsernameTaken(put[r].name, put[r].user))
    <3>1. put[r].name # None =>
             \A u \in Users \ {put[r].user} : name[u] # put[r].name
      BY <2>2 DEF IsUsernameTaken, NamesInv
    <3>2. QED
      BY <2>2, <3>1 DEF Answered, NamesInv, Registered, ConflictOnlyByRace
  <2>3. QED
    BY <1>4, <2>1, <2>2 DEF CheckUsername
<1>5. ASSUME NEW r \in Requests, put[r].name # None, put[r].user \in Registered,
             upc[r] = "write", WriteName(r, put[r].name)
      PROVE  NamesInv'
  <2> DEFINE n == put[r].name
  <2>1. /\ upc' = [upc EXCEPT ![r] = "ok"]
        /\ name' = [name EXCEPT ![put[r].user] = n]
        /\ since' = [q \in Requests |->
                       IF put[q].user # put[r].user /\ upc[q] = "write"
                       THEN since[q] \cup {n} ELSE since[q]]
        /\ UNCHANGED <<joined, put>>
    BY <1>5 DEF WriteName
  <2>2. n \in Names /\ put[r].user \in Users
    BY <1>5 DEF NamesInv
  <2>3. ASSUME NEW q \in Requests, upc'[q] = "write", put[q].name # None,
               NEW u \in Users \ {put[q].user}, name'[u] = put[q].name
        PROVE  put[q].name \in since'[q]
    <3>1. upc[q] = "write"
      BY <2>1, <2>3 DEF NamesInv
    <3>2. CASE u = put[r].user
      BY <2>1, <2>2, <2>3, <3>1, <3>2 DEF NamesInv
    <3>3. CASE u # put[r].user
      BY <2>1, <2>2, <2>3, <3>1, <3>3 DEF NamesInv
    <3>4. QED
      BY <3>2, <3>3
  <2>4. ConflictOnlyByRace'
    BY <2>1 DEF NamesInv, ConflictOnlyByRace
  <2>5. /\ name' \in [Users -> Names \cup {None}]
        /\ since' \in [Requests -> SUBSET Names]
        /\ upc' \in [Requests -> {"new", "write", "ok", "taken", "unique", "norow", "error"}]
    BY <2>1, <2>2 DEF NamesInv
  <2>6. \A u \in Users : name'[u] # None => u \in Registered'
    BY <1>5, <2>1, <2>2 DEF NamesInv, Registered
  <2>7. QED
    BY <2>1, <2>3, <2>4, <2>5, <2>6 DEF NamesInv, Registered
<1>6. ASSUME NEW r \in Requests, upc[r] = "write", put[r].name # None,
             IsUsernameTaken(put[r].name, put[r].user), Answered(r, "unique")
      PROVE  NamesInv'
  <2>1. PICK u \in Registered \ {put[r].user} : name[u] = put[r].name
    BY <1>6 DEF IsUsernameTaken
  <2>2. u \in Users
    BY <2>1 DEF NamesInv, Registered
  <2>3. put[r].name \in since[r]
    BY <1>6, <2>1, <2>2 DEF NamesInv
  <2>4. QED
    BY <1>6, <2>3 DEF Answered, NamesInv, Registered, ConflictOnlyByRace
<1>7. ASSUME NEW r \in Requests, UpdateUser(r) PROVE NamesInv'
  BY <1>3, <1>5, <1>6, <1>7 DEF UpdateUser
<1>8. ASSUME NEW r \in Requests, UpdateFails(r) PROVE NamesInv'
  BY <1>3, <1>8 DEF UpdateFails
<1>9. ASSUME NEW u \in Users, NEW v \in Users, FollowUser(u, v) \/ UnfollowUser(u, v)
      PROVE  NamesInv'
  BY <1>1, <1>9 DEF FollowUser, UnfollowUser
<1>10. ASSUME NEW kind \in Arriving, Arrive(kind) PROVE NamesInv'
  BY <1>1, <1>10 DEF Arrive
<1>11. CASE TableStep
  BY <1>2, <1>4, <1>7, <1>8, <1>9, <1>10, <1>11 DEF TableStep
<1>12. CASE WalkStep
  <2>1. UNCHANGED <<tables, updateVars>>
    BY <1>12 DEF WalkStep, BeginWalk, Lookup, NotFound, CheckWalk, CountRows, GetPage,
                 Refused, Answer, WalkFails, WalkGoto
  <2>2. QED
    BY <1>1, <2>1
<1>13. CASE SettingsStep
  BY <1>1, <1>13 DEF SettingsStep
<1>14. CASE UNCHANGED <<vars, directoryVars>>
  BY <1>1, <1>14 DEF directoryVars
<1>15. QED
  BY <1>11, <1>12, <1>13, <1>14 DEF DirectoryNext

\* Safety: an update meets the constraint on names only if the name was written for
\* another user between its check and its write.
THEOREM ConflictsOnlyByRace == DirectorySpec => []ConflictOnlyByRace
<1>1. DirectoryInit => NamesInv
  BY DEF DirectoryInit, TablesEmpty, NothingAsked, NamesInv, Registered, ConflictOnlyByRace
<1>2. NamesInv => ConflictOnlyByRace
  BY DEF NamesInv
<1>3. QED
  BY <1>1, <1>2, NamesInductive, PTL DEF DirectorySpec

-----------------------------------------------------------------------------
(* The record of a walk *)

\* walk is a record with these fields, whatever they hold.
WalkIsRecord ==
    walk = [kind |-> walk.kind, name |-> walk.name, viewer |-> walk.viewer,
            rawLimit |-> walk.rawLimit, rawOffset |-> walk.rawOffset,
            limit |-> walk.limit, start |-> walk.start, offset |-> walk.offset,
            subject |-> walk.subject, asked |-> walk.asked, excused |-> walk.excused,
            total |-> walk.total, page |-> walk.page]

\* A step that leaves what the client asked for, its viewer among it, alone.
KeepsParameters ==
    /\ WalkIsRecord'
    /\ walk'.kind = walk.kind /\ walk'.name = walk.name /\ walk'.viewer = walk.viewer
    /\ walk'.rawLimit = walk.rawLimit /\ walk'.rawOffset = walk.rawOffset
    /\ walk'.limit = walk.limit /\ walk'.start = walk.start

\* What the steps of a walk do to its record.
LEMMA LookupFields ==
    ASSUME WalkIsRecord, Lookup
    PROVE  /\ KeepsParameters
           /\ walk'.offset = walk.offset /\ walk'.total = walk.total
           /\ walk'.page = walk.page /\ walk'.subject \in Registered \cup {None}
           /\ walk'.asked = TRUE
  BY DEF Lookup, WalkIsRecord, KeepsParameters

\* Only lists that are looked up by a name are those of a user.
LEMMA LookupSubject ==
    ASSUME WalkIsRecord, Lookup, walk.kind \notin ByName
    PROVE  walk'.subject = None
  BY DEF Lookup, WalkIsRecord

\* A request is excused as it begins if the profile is public then.
LEMMA LookupExcuse ==
    ASSUME WalkIsRecord, Lookup
    PROVE  walk'.excused = PublicOrLost /\ walk'.excused \in BOOLEAN
<1>1. PICK u : walk' = [walk EXCEPT !.subject = u, !.asked = TRUE,
                                    !.excused = PublicOrLost]
  BY DEF Lookup
<1>2. walk'.excused = PublicOrLost
  BY <1>1 DEF WalkIsRecord
<1>3. PublicOrLost \in BOOLEAN
  BY DEF PublicOrLost
<1>4. QED
  BY <1>2, <1>3, Zenon

\* The first request of a walk finds the items that may stay all through it; a later
\* one may find the name with another user.
LEMMA LookupHistory ==
    ASSUME WalkIsRecord, Lookup
    PROVE  /\ \/ walk.asked = TRUE /\ stable' = stable \cap Items(walk)'
              \/ walk.asked # TRUE /\ stable' = Items(walk)'
           /\ \/ walk.asked = TRUE /\ shifts' = shifts \cup {"moved"}
              \/ shifts' = shifts /\ (walk.asked = TRUE => walk'.subject = walk.subject)
<1>1. PICK u \in Registered \cup {None} :
         /\ walk' = [walk EXCEPT !.subject = u, !.asked = TRUE, !.excused = PublicOrLost]
         /\ shifts' = IF walk.asked /\ walk.subject # u THEN shifts \cup {"moved"}
                      ELSE shifts
         /\ stable' = IF walk.asked THEN stable \cap Items(walk') ELSE Items(walk')
  BY DEF Lookup
<1>2. Items(walk)' = Items(walk') /\ walk'.subject = u
  BY <1>1 DEF Lookup, tables, Items, Followers, Following, Named, Registered, WalkIsRecord
<1>3. QED
  BY <1>1, <1>2

\* Counting the rows gives the total.
LEMMA CountRowsFields ==
    ASSUME WalkIsRecord, CountRows
    PROVE  /\ KeepsParameters
           /\ walk'.offset = walk.offset /\ walk'.total = Cardinality(Items(walk))
           /\ walk'.page = walk.page /\ walk'.asked = walk.asked
           /\ walk'.excused = walk.excused /\ walk'.subject = walk.subject
  BY DEF CountRows, WalkIsRecord, KeepsParameters

\* Reading a page gives a piece of one of the orders the statement may return; for
\* notifications the total is what a piece of one row more reaches.
LEMMA GetPageFields ==
    ASSUME WalkIsRecord, GetPage
    PROVE  /\ KeepsParameters
           /\ walk'.offset = walk.offset /\ walk'.asked = walk.asked
           /\ walk'.excused = walk.excused /\ walk'.subject = walk.subject
           /\ \E q \in Lists(walk) :
                 /\ walk'.page = Slice(q, walk.limit, walk.offset)
                 /\ walk'.total = IF walk.kind # "notifications" THEN walk.total
                       ELSE walk.offset + Len(Slice(q, walk.limit + 1, walk.offset))
<1>1. PICK q \in Lists(walk) :
          walk' = [walk EXCEPT
                     !.page = Slice(q, walk.limit, walk.offset),
                     !.total = IF walk.kind # "notifications" THEN walk.total
                               ELSE walk.offset + Len(Slice(q, walk.limit + 1, walk.offset))]
  BY DEF GetPage
<1>2. QED
  BY <1>1 DEF WalkIsRecord, KeepsParameters

\* The client asks for what comes after the page it was given.
LEMMA AnswerFields ==
    ASSUME WalkIsRecord, Answer
    PROVE  /\ KeepsParameters
           /\ walk'.offset = walk.offset + Len(walk.page) /\ walk'.total = 0
           /\ walk'.page = <<>> /\ walk'.asked = walk.asked
           /\ walk'.excused = walk.excused /\ walk'.subject = walk.subject
  BY DEF Answer, WalkIsRecord, KeepsParameters

\* A step of the settings leaves the place of the walk alone.
LEMMA SettingsFields ==
    ASSUME WalkIsRecord, SettingsStep
    PROVE  /\ KeepsParameters
           /\ walk'.offset = walk.offset /\ walk'.total = walk.total
           /\ walk'.page = walk.page /\ walk'.asked = walk.asked
           /\ walk'.subject = walk.subject
  BY DEF SettingsStep, WalkIsRecord, KeepsParameters

\* A request in progress is excused where the profile becomes public.
LEMMA SettingsExcuse ==
    ASSUME WalkIsRecord, SettingsStep
    PROVE  \/ walk'.excused = walk.excused
           \/ walk'.excused = (walk.excused \/ PublicOrLost')
  BY DEF SettingsStep, WalkIsRecord

\* A walk begins with what the client sends.
LEMMA BeginWalkFields ==
    ASSUME NEW kind, NEW n, NEW viewer, NEW rawLimit, NEW rawOffset,
           BeginWalk(kind, n, viewer, rawLimit, rawOffset)
    PROVE  /\ WalkIsRecord'
           /\ walk'.kind = kind /\ walk'.name = n /\ walk'.viewer = viewer
           /\ walk'.rawLimit = rawLimit /\ walk'.rawOffset = rawOffset
           /\ walk'.limit = Limit(kind, rawLimit) /\ walk'.start = Offset(kind, rawOffset)
           /\ walk'.offset = Offset(kind, rawOffset) /\ walk'.total = 0
           /\ walk'.page = <<>> /\ walk'.asked = FALSE /\ walk'.excused = FALSE
           /\ walk'.subject = None
  BY DEF BeginWalk, Idle, WalkIsRecord

-----------------------------------------------------------------------------
(* The privacy of a walk *)

\* A request in progress has been excused if the profile is, by Owner's last word
\* or by an overlap, public; one past its check has been excused if it needs to be.
WalkInv ==
    /\ WalkIsRecord
    /\ wpc \in {"check", "count", "page"} /\ PublicOrLost => walk.excused = TRUE
    /\ wpc \in {"count", "page", "answer"} /\ walk.subject = Owner /\ walk.viewer # Owner
          => walk.excused = TRUE

\* WalkInv is preserved by every step.
LEMMA WalkInductive ==
    /\ LostOnlyByOverlap /\ WalkInv /\ [DirectoryNext]_<<vars, directoryVars>>
    => WalkInv'
<1> SUFFICES ASSUME LostOnlyByOverlap, WalkInv, [DirectoryNext]_<<vars, directoryVars>>
             PROVE  WalkInv'
  OBVIOUS
<1>1. ASSUME UNCHANGED <<wpc, walk, asked, overlapped>> PROVE WalkInv'
  BY <1>1 DEF WalkInv, WalkIsRecord, PublicOrLost
<1>2. CASE TableStep /\ UNCHANGED vars
  <2>1. UNCHANGED <<wpc, walk>>
    BY <1>2 DEF TableStep, InsertUser, FollowUser, UnfollowUser, Arrive, CheckUsername,
                UpdateUser, WriteName, UpdateFails, Answered, Change, walkVars
  <2>2. QED
    BY <1>1, <1>2, <2>1 DEF vars
<1>3. CASE SettingsStep
  <2>1. CASE wpc \in {"check", "count", "page"}
    <3>1. walk' = [walk EXCEPT !.excused = walk.excused \/ PublicOrLost'] /\ wpc' = wpc
      BY <1>3, <2>1 DEF SettingsStep
    <3>2. /\ walk'.excused = (walk.excused \/ PublicOrLost')
          /\ walk'.subject = walk.subject /\ walk'.viewer = walk.viewer
          /\ WalkIsRecord'
      BY <3>1 DEF WalkInv, WalkIsRecord
    <3>3. QED
      BY <3>1, <3>2 DEF WalkInv
  <2>2. CASE wpc \notin {"check", "count", "page"}
    BY <1>3, <2>2 DEF SettingsStep, WalkInv, WalkIsRecord
  <2>3. QED
    BY <2>1, <2>2
<1>4. CASE UNCHANGED <<vars, directoryVars>>
  BY <1>1, <1>4 DEF vars, directoryVars
<1>5. CASE WalkStep /\ UNCHANGED vars
  <2>1. PublicOrLost' = PublicOrLost
    BY <1>5 DEF vars, PublicOrLost
  <2>2. ASSUME UNCHANGED walk, wpc' \notin {"check", "count", "page", "answer"}
        PROVE  WalkInv'
    BY <2>2 DEF WalkInv, WalkIsRecord
  <2>3. ASSUME NEW kind, NEW n, NEW viewer, NEW rawLimit, NEW rawOffset,
               BeginWalk(kind, n, viewer, rawLimit, rawOffset)
        PROVE  WalkInv'
    <3>1. wpc' = "next"
      BY <2>3 DEF BeginWalk
    <3>2. WalkIsRecord'
      BY <2>3, BeginWalkFields
    <3>3. QED
      BY <3>1, <3>2 DEF WalkInv
  <2>4. CASE Lookup
    <3>1. walk.kind \notin ByName => walk'.subject = None
      BY <2>4, LookupSubject DEF WalkInv
    <3>2. walk'.excused = PublicOrLost /\ KeepsParameters
      BY <2>4, LookupFields, LookupExcuse DEF WalkInv
    <3>3. \/ wpc' = "check"
          \/ walk'.subject # Owner /\ wpc' \in {"count", "page"}
      <4>1. wpc' = IF walk.kind \in ByName THEN "check"
                   ELSE IF walk.kind \in CountFirst THEN "count" ELSE "page"
        BY <2>4 DEF Lookup
      <4>2. Owner # None
        BY NamesAssumption, OwnerAssumption
      <4>3. QED
        BY <3>1, <3>2, <4>1, <4>2
    <3>4. QED
      BY <2>1, <3>2, <3>3 DEF WalkInv, PublicOrLost, KeepsParameters
  <2>5. CASE CheckWalk
    <3>1. CASE Visible /\ WalkGoto("check", "count")
      <4>1. Public \in Current => PublicOrLost
        BY PublicAssumption, DefaultAssumption DEF LostOnlyByOverlap, PublicOrLost
      <4>2. QED
        BY <2>1, <3>1, <4>1 DEF WalkGoto, Visible, WalkInv, WalkIsRecord
    <3>2. CASE WalkGoto("check", "private")
      BY <2>2, <3>2 DEF WalkGoto
    <3>3. QED
      BY <2>5, <3>1, <3>2 DEF CheckWalk
  <2>6. CASE CountRows \/ GetPage
    <3>1. wpc \in {"count", "page"} /\ wpc' \in {"count", "page", "answer"}
      BY <2>6 DEF CountRows, GetPage
    <3>2. /\ walk'.excused = walk.excused /\ walk'.subject = walk.subject
          /\ KeepsParameters
      BY <2>6, CountRowsFields, GetPageFields DEF WalkInv
    <3>3. QED
      BY <2>1, <3>1, <3>2 DEF WalkInv, KeepsParameters
  <2>7. CASE Answer
    <3>1. wpc' \in {"done", "stuck", "next"}
      BY <2>7 DEF Answer
    <3>2. WalkIsRecord'
      BY <2>7, AnswerFields DEF WalkInv, KeepsParameters
    <3>3. QED
      BY <3>1, <3>2 DEF WalkInv
  <2>8. CASE NotFound \/ Refused \/ WalkFails
    BY <2>2, <2>8 DEF NotFound, Refused, WalkFails, WalkGoto
  <2>9. QED
    BY <1>5, <2>3, <2>4, <2>5, <2>6, <2>7, <2>8 DEF WalkStep
<1>6. QED
  BY <1>2, <1>3, <1>4, <1>5 DEF DirectoryNext

\* Safety: a page of Owner's lists is read for others only if, during its own
\* request, Owner's last word was that the profile be public or that word was lost.
THEOREM WalksKeepPrivacy == DirectorySpec => []WalkPrivacyKept
<1>1. DirectoryInit => WalkInv
  BY DEF DirectoryInit, NothingAsked, Idle, WalkInv, WalkIsRecord
<1>2. WalkInv => WalkPrivacyKept
  BY DEF WalkInv, WalkPrivacyKept
<1>3. QED
  BY <1>1, <1>2, WalkInductive, DirectoryKeepsSettings, SettingsLostOnlyByOverlap, PTL
     DEF DirectorySpec

-----------------------------------------------------------------------------
(* Types *)

\* int32(n) is an integer, and is n where n fits.
LEMMA Int32Type == \A n \in Nat : Int32(n) \in Int /\ (Fits(n) => Int32(n) = n)
<1> SUFFICES ASSUME NEW n \in Nat
             PROVE  Int32(n) \in Int /\ (Fits(n) => Int32(n) = n)
  OBVIOUS
<1>1. n % (2 * (MaxInt32 + 1)) \in Int
  BY Int32Assumption
<1>2. Fits(n) => n % (2 * (MaxInt32 + 1)) = n
  BY Int32Assumption DEF Fits
<1>3. QED
  BY <1>1, <1>2, Int32Assumption DEF Int32, Fits

\* Limits and offsets are integers, limits are clamped, and both are sane where what
\* was sent fits or is checked before it is converted.
LEMMA LimitsType ==
    ASSUME NEW kind \in Kinds, NEW raw \in Nat
    PROVE  /\ Limit(kind, raw) \in Int /\ Offset(kind, raw) \in Int
           /\ Fits(raw) => /\ Limit(kind, raw) \in 1..MaxLimit
                           /\ Offset(kind, raw) = raw
           /\ Limit(kind, raw) <= MaxLimit
           /\ Limit(kind, raw) < 1 => ConvertsLimit(kind)
           /\ Offset(kind, raw) < 0 => kind = "notifications"
<1>1. Int32(raw) \in Int /\ (Fits(raw) => Int32(raw) = raw)
  BY Int32Type
<1>2. QED
  BY <1>1, LimitsAssumption DEF Limit, ConvertsLimit, Offset, Least

\* How many of n items there are from offset on, but not more than limit.
Left(n, limit, offset) == IF offset >= n THEN 0 ELSE Least(limit, n - offset)

\* What LIMIT and OFFSET cut out of a list.
LEMMA SliceOfList ==
    ASSUME NEW S, NEW q \in Seq(S), NEW limit \in Nat, NEW offset \in Nat
    PROVE  /\ Len(Slice(q, limit, offset)) = Left(Len(q), limit, offset)
           /\ Left(Len(q), limit, offset) \in Nat
           /\ Slice(q, limit, offset) = <<>> <=> Left(Len(q), limit, offset) = 0
           /\ \A x : x \in ItemsOf(Slice(q, limit, offset)) <=>
                 \E i \in offset + 1 .. offset + Left(Len(q), limit, offset) : x = q[i]
<1> DEFINE s == Slice(q, limit, offset)
           k == Left(Len(q), limit, offset)
<1>1. /\ s \in Seq(S) /\ Len(s) = k
      /\ \A i \in 1..Len(s) : s[i] = q[offset + i]
  BY SMTT(30) DEF Slice, Least, Left
<1>2. k \in Nat /\ (s = <<>> <=> k = 0)
  BY <1>1
<1> HIDE DEF s, k
<1>3. \A x : x \in ItemsOf(s) <=> \E i \in offset + 1 .. offset + k : x = q[i]
  <2>1. ASSUME NEW i \in 1..k
        PROVE  offset + i \in offset + 1 .. offset + k
    BY <1>2
  <2>2. ASSUME NEW i \in offset + 1 .. offset + k
        PROVE  i - offset \in 1..k /\ q[i] = s[i - offset]
    BY <1>1, <1>2
  <2>3. QED
    BY <1>1, <2>1, <2>2 DEF ItemsOf
<1>4. QED
  BY <1>1, <1>2, <1>3 DEF s, k

\* How many items of the list come before e.
Place(e) == Cardinality({f \in Items(walk) : Before(walk, f, e)})

\* A list is finite, and has users or numbers of rows in it.
LEMMA ItemsFinite ==
    ASSUME TablesTypeOK, walk.kind \in Kinds
    PROVE  /\ IsFiniteSet(Items(walk)) /\ Cardinality(Items(walk)) \in Nat
           /\ Items(walk) \subseteq Users \cup Nat
<1> USE DEF Kinds, ByName, Arriving
<1>1. CASE walk.kind \notin Arriving
  <2>1. Items(walk) \in SUBSET Users
    BY <1>1 DEF Items, Followers, Following, Named, TablesTypeOK
  <2>2. QED
    BY <2>1, UsersAssumption, FS_Subset, FS_CardinalityType
<1>2. CASE walk.kind \in Arriving
  <2>1. Items(walk) = 1..arrived[walk.kind] /\ arrived[walk.kind] \in Nat
    BY <1>2 DEF Items, TablesTypeOK
  <2>2. IsFiniteSet(1..arrived[walk.kind])
    BY <2>1, FS_Interval
  <2>3. QED
    BY <2>1, <2>2, FS_CardinalityType
<1>3. QED
  BY <1>1, <1>2

\* ORDER BY puts no item before itself.
LEMMA BeforeIrreflexive ==
    ASSUME TablesTypeOK, walk.kind \in Kinds, NEW e \in Items(walk)
    PROVE  ~Before(walk, e, e)
<1> USE DEF Kinds, ByName, Arriving
<1>1. CASE walk.kind = "followers"
  <2>1. follows[<<e, walk.subject>>] \in Int
    BY <1>1 DEF Items, Followers, TablesTypeOK
  <2>2. QED
    BY <1>1, <2>1 DEF Before, GetFollowers
<1>2. CASE walk.kind = "following"
  <2>1. follows[<<walk.subject, e>>] \in Int
    BY <1>2 DEF Items, Following, TablesTypeOK
  <2>2. QED
    BY <1>2, <2>1 DEF Before, GetFollowing
<1>3. CASE walk.kind \in {"new", "popular", "search"}
  <2>1. joined[e] \in Int
    BY <1>3 DEF Items, Named, TablesTypeOK, Registered
  <2>2. Cardinality(Followers(e)) \in Nat
    <3>1. Followers(e) \in SUBSET Users
      BY DEF Followers, TablesTypeOK
    <3>2. QED
      BY <3>1, UsersAssumption, FS_Subset, FS_CardinalityType
  <2>3. QED
    BY <1>3, <2>1, <2>2 DEF Before, DiscoverUsersNew, DiscoverUsersPopular, MoreFollowers,
                            SearchUsers
<1>4. CASE walk.kind \in Arriving
  <2>1. e \in Int
    BY <1>4 DEF Items, TablesTypeOK
  <2>2. QED
    BY <1>4, <2>1 DEF Before, ListNotificationsByUser, GetRecentProfileViewEvents
<1>5. QED
  BY <1>1, <1>2, <1>3, <1>4

\* An item's place is one of the list's.
LEMMA PlaceBound ==
    ASSUME TablesTypeOK, walk.kind \in Kinds, NEW e \in Items(walk)
    PROVE  Place(e) \in Nat /\ Place(e) < Cardinality(Items(walk))
<1> DEFINE T == {f \in Items(walk) : Before(walk, f, e)}
<1>1. /\ T \subseteq Items(walk) /\ e \notin T /\ IsFiniteSet(Items(walk))
      /\ Cardinality(Items(walk)) \in Nat
  BY ItemsFinite, BeforeIrreflexive
<1>2. /\ IsFiniteSet(T) /\ Cardinality(T) <= Cardinality(Items(walk))
      /\ (Cardinality(Items(walk)) = Cardinality(T) => Items(walk) = T)
  BY <1>1, FS_Subset
<1>3. Cardinality(T) \in Nat
  BY <1>2, FS_CardinalityType
<1>4. QED
  BY <1>1, <1>2, <1>3 DEF Place

\* Where ORDER BY leaves nothing open, a list returned has its items at their places.
LEMMA ListsByPlace ==
    ASSUME TablesTypeOK, walk.kind \in Kinds, ~Tied(walk), NEW q \in Lists(walk)
    PROVE  /\ \A i \in 1..Cardinality(Items(walk)) : Place(q[i]) = i - 1
           /\ \A e \in Items(walk) : \E i \in 1..Cardinality(Items(walk)) : e = q[i]
<1> DEFINE n == Cardinality(Items(walk))
           S == Items(walk)
<1>1. /\ n \in Nat /\ IsFiniteSet(S) /\ q \in [1..n -> S]
      /\ \A i, j \in 1..n : i < j => q[i] # q[j] /\ ~Before(walk, q[j], q[i])
  BY ItemsFinite DEF Lists
<1> HIDE DEF n, S
<1>2. \A i, j \in 1..n : q[i] = q[j] => i = j
  BY <1>1
<1>3. \A e \in S : \E i \in 1..n : e = q[i]
  <2>1. q \in Injection(1..n, S)
    BY <1>1, <1>2 DEF Injection, IsInjective
  <2>2. Cardinality(1..n) = n
    BY <1>1, FS_Interval
  <2>3. q \in Surjection(1..n, S)
    BY <1>1, <2>1, <2>2, FS_Injection DEF n, S
  <2>4. QED
    BY <2>3 DEF Surjection
<1>4. ASSUME NEW i \in 1..n PROVE Place(q[i]) = i - 1
  <2> DEFINE T == {f \in S : Before(walk, f, q[i])}
             r == [j \in 1 .. i - 1 |-> q[j]]
  <2>1. ASSUME NEW j \in 1..n PROVE Before(walk, q[j], q[i]) <=> j < i
    <3>1. CASE j = i
      BY <1>1, <3>1, BeforeIrreflexive DEF S
    <3>2. CASE j < i
      <4>1. q[i] \in S /\ q[j] \in S /\ q[i] # q[j] /\ ~Before(walk, q[i], q[j])
        BY <1>1, <3>2
      <4>2. QED
        BY <4>1, <3>2 DEF Tied, S
    <3>3. CASE i < j
      BY <1>1, <3>3
    <3>4. QED
      BY <3>1, <3>2, <3>3
  <2>2. r \in Bijection(1 .. i - 1, T)
    <3>1. \A j \in 1 .. i - 1 : j \in 1..n /\ j < i /\ r[j] = q[j]
      BY <1>1
    <3>2. r \in [1 .. i - 1 -> T]
      BY <1>1, <2>1, <3>1
    <3>3. r \in Injection(1 .. i - 1, T)
      BY <1>2, <3>1, <3>2 DEF Injection, IsInjective
    <3>4. \A t \in T : \E j \in 1 .. i - 1 : r[j] = t
      <4> SUFFICES ASSUME NEW t \in T PROVE \E j \in 1 .. i - 1 : r[j] = t
        OBVIOUS
      <4>1. PICK j \in 1..n : t = q[j]
        BY <1>3
      <4>2. j < i
        BY <2>1, <4>1
      <4>3. QED
        BY <4>1, <4>2, <3>1
    <3>5. QED
      BY <3>2, <3>3, <3>4 DEF Bijection, Surjection
  <2>3. IsFiniteSet(1 .. i - 1) /\ Cardinality(1 .. i - 1) = i - 1
    BY FS_Interval
  <2>4. Cardinality(T) = i - 1
    BY <2>2, <2>3, FS_Bijection DEF ExistsBijection
  <2>5. QED
    BY <2>4 DEF Place, S
<1>5. QED
  BY <1>3, <1>4 DEF n, S

\* ItemsFinite, as a predicate of a state.
ListFinite == IsFiniteSet(Items(walk)) /\ Items(walk) \subseteq Users \cup Nat

\* The same of the list after a step.
LEMMA ItemsFiniteNext ==
    TablesTypeOK' /\ walk'.kind \in Kinds =>
        IsFiniteSet(Items(walk)') /\ Items(walk)' \subseteq Users \cup Nat
<1>1. TablesTypeOK /\ walk.kind \in Kinds => ListFinite
  BY ItemsFinite DEF ListFinite
<1>2. (TablesTypeOK /\ walk.kind \in Kinds => ListFinite)'
  BY <1>1, PTL
<1>3. QED
  BY <1>2 DEF ListFinite

-----------------------------------------------------------------------------
\* The tables keep their types.
LEMMA TablesTyped ==
    ASSUME DirectoryTypeOK, [DirectoryNext]_<<vars, directoryVars>>
    PROVE  TablesTypeOK'
<1> USE DEF TablesTypeOK, Registered
<1> TablesTypeOK /\ UpdatesTypeOK
  BY DEF DirectoryTypeOK
<1>1. ASSUME UNCHANGED <<tables, changes>> PROVE TablesTypeOK'
  BY <1>1 DEF tables
<1>2. ASSUME Change PROVE changes' \in 0..MaxChanges /\ Now \in Int
  BY <1>2, ChangesAssumption DEF Change, Now
<1>3. ASSUME NEW u \in Users, InsertUser(u) PROVE TablesTypeOK'
  <2>1. /\ joined' = [v \in Registered \cup {u} |-> IF v = u THEN Now ELSE joined[v]]
        /\ UNCHANGED <<name, follows, arrived>> /\ changes' \in 0..MaxChanges /\ Now \in Int
    BY <1>2, <1>3 DEF InsertUser
  <2>2. Registered' = Registered \cup {u} /\ joined' \in [Registered \cup {u} -> Int]
    BY <2>1
  <2>3. DOMAIN follows \subseteq (Registered \cup {u}) \X (Registered \cup {u})
    OBVIOUS
  <2>4. QED
    BY <2>1, <2>2, <2>3
<1>4. ASSUME NEW u \in Users, NEW v \in Users, FollowUser(u, v) PROVE TablesTypeOK'
  <2>1. /\ follows' = [e \in DOMAIN follows \cup {<<u, v>>} |->
                         IF e = <<u, v>> THEN Now ELSE follows[e]]
        /\ UNCHANGED <<joined, name, arrived>> /\ changes' \in 0..MaxChanges /\ Now \in Int
        /\ <<u, v>> \in Registered \X Registered
    BY <1>2, <1>4 DEF FollowUser
  <2>2. /\ DOMAIN follows' = DOMAIN follows \cup {<<u, v>>}
        /\ follows' \in [DOMAIN follows' -> Int]
    BY <2>1
  <2>3. QED
    BY <2>1, <2>2
<1>5. ASSUME NEW u \in Users, NEW v \in Users, UnfollowUser(u, v) PROVE TablesTypeOK'
  <2>1. /\ follows' = [e \in DOMAIN follows \ {<<u, v>>} |-> follows[e]]
        /\ UNCHANGED <<joined, name, arrived>> /\ changes' \in 0..MaxChanges
    BY <1>2, <1>5 DEF UnfollowUser
  <2>2. /\ DOMAIN follows' = DOMAIN follows \ {<<u, v>>}
        /\ follows' \in [DOMAIN follows' -> Int]
    BY <2>1
  <2>3. QED
    BY <2>1, <2>2
<1>6. ASSUME NEW kind \in Arriving, Arrive(kind) PROVE TablesTypeOK'
  BY <1>2, <1>6 DEF Arrive
<1>7. ASSUME NEW r \in Requests, upc[r] = "write", put[r].name # None,
             WriteName(r, put[r].name)
      PROVE  TablesTypeOK'
  BY <1>2, <1>7 DEF WriteName, UpdatesTypeOK
<1>8. ASSUME NEW r \in Requests, CheckUsername(r) \/ UpdateUser(r) \/ UpdateFails(r)
      PROVE  TablesTypeOK'
  BY <1>1, <1>7, <1>8 DEF CheckUsername, UpdateUser, UpdateFails, Answered
<1>9. CASE TableStep
  BY <1>3, <1>4, <1>5, <1>6, <1>8, <1>9 DEF TableStep
<1>10. CASE WalkStep
  BY <1>1, <1>10 DEF WalkStep, BeginWalk, Lookup, NotFound, CheckWalk, CountRows, GetPage,
                     Refused, Answer, WalkFails, WalkGoto
<1>11. CASE SettingsStep
  BY <1>1, <1>11 DEF SettingsStep
<1>12. CASE UNCHANGED <<vars, directoryVars>>
  BY <1>1, <1>12 DEF directoryVars, tables
<1>13. QED
  BY <1>9, <1>10, <1>11, <1>12 DEF DirectoryNext

\* The requests that change names keep their types.
LEMMA UpdatesTyped ==
    ASSUME DirectoryTypeOK, [DirectoryNext]_<<vars, directoryVars>>
    PROVE  UpdatesTypeOK'
<1> USE DEF UpdatesTypeOK
<1> UpdatesTypeOK
  BY DEF DirectoryTypeOK
<1>1. ASSUME UNCHANGED updateVars PROVE UpdatesTypeOK'
  BY <1>1 DEF updateVars
<1>2. ASSUME NEW r \in Requests,
             NEW answer \in {"write", "ok", "taken", "unique", "norow", "error"},
             Answered(r, answer)
      PROVE  UpdatesTypeOK'
  BY <1>2 DEF Answered
<1>3. ASSUME NEW r \in Requests, put[r].name # None, WriteName(r, put[r].name)
      PROVE  UpdatesTypeOK'
  <2>1. put[r].name \in Names
    BY <1>3
  <2>2. QED
    BY <1>3, <2>1 DEF WriteName
<1>4. ASSUME NEW r \in Requests, CheckUsername(r) \/ UpdateUser(r) \/ UpdateFails(r)
      PROVE  UpdatesTypeOK'
  BY <1>2, <1>3, <1>4 DEF CheckUsername, UpdateUser, UpdateFails
<1>5. CASE TableStep
  BY <1>1, <1>4, <1>5 DEF TableStep, InsertUser, FollowUser, UnfollowUser, Arrive
<1>6. CASE WalkStep
  BY <1>1, <1>6 DEF WalkStep, BeginWalk, Lookup, NotFound, CheckWalk, CountRows, GetPage,
                    Refused, Answer, WalkFails, WalkGoto
<1>7. CASE SettingsStep
  BY <1>1, <1>7 DEF SettingsStep
<1>8. CASE UNCHANGED <<vars, directoryVars>>
  BY <1>1, <1>8 DEF directoryVars, updateVars
<1>9. QED
  BY <1>5, <1>6, <1>7, <1>8 DEF DirectoryNext

\* A step of the tables is a change of them, or leaves them and the walk alone.
LEMMA TableSteps == TableStep => Change \/ UNCHANGED <<tables, walkVars>>
  BY DEF TableStep, InsertUser, FollowUser, UnfollowUser, Arrive, CheckUsername,
         UpdateUser, WriteName, UpdateFails, Answered

\* An empty page has no items.
LEMMA ItemsOfEmpty == Len(<<>>) = 0 /\ ItemsOf(<<>>) = {}
  BY DEF ItemsOf

\* What GetPage returns is a piece of a list of the walk.
LEMMA PageOfList ==
    ASSUME DirectoryTypeOK, WalkIsRecord, GetPage
    PROVE  \E q \in Lists(walk) :
              LET n == Cardinality(Items(walk))
                  k == Left(n, walk.limit, walk.offset)
              IN  /\ n \in Nat /\ q \in [1..n -> Items(walk)]
                  /\ Len(walk'.page) = k /\ k \in Nat /\ (walk'.page = <<>> <=> k = 0)
                  /\ \A x : x \in ItemsOf(walk'.page) <=>
                        \E i \in walk.offset + 1 .. walk.offset + k : x = q[i]
                  /\ ItemsOf(walk'.page) \subseteq Items(walk)
                  /\ Left(n, walk.limit + 1, walk.offset) \in Nat
                  /\ walk'.total = IF walk.kind # "notifications" THEN walk.total
                         ELSE walk.offset + Left(n, walk.limit + 1, walk.offset)
<1>1. PICK q \in Lists(walk) :
         /\ walk'.page = Slice(q, walk.limit, walk.offset)
         /\ walk'.total = IF walk.kind # "notifications" THEN walk.total
               ELSE walk.offset + Len(Slice(q, walk.limit + 1, walk.offset))
  BY GetPageFields
<1> DEFINE n == Cardinality(Items(walk))
           k == Left(n, walk.limit, walk.offset)
<1>2. walk.limit \in Nat /\ walk.offset \in Nat /\ walk.limit + 1 \in Nat /\ n \in Nat
  BY ItemsFinite DEF GetPage, DirectoryTypeOK, WalkTypeOK
<1>3. q \in [1..n -> Items(walk)] /\ q \in Seq(Items(walk)) /\ Len(q) = n
  BY <1>2 DEF Lists
<1> HIDE DEF n
<1>4. /\ Len(Slice(q, walk.limit, walk.offset)) = k /\ k \in Nat
      /\ Slice(q, walk.limit, walk.offset) = <<>> <=> k = 0
      /\ \A x : x \in ItemsOf(Slice(q, walk.limit, walk.offset)) <=>
            \E i \in walk.offset + 1 .. walk.offset + k : x = q[i]
  <2> DEFINE limit == walk.limit
             offset == walk.offset
  <2>1. limit \in Nat /\ offset \in Nat /\ q \in Seq(Items(walk)) /\ Len(q) = n
    BY <1>2, <1>3
  <2> HIDE DEF limit, offset
  <2>2. /\ Len(Slice(q, limit, offset)) = Left(Len(q), limit, offset)
        /\ Left(Len(q), limit, offset) \in Nat
        /\ Slice(q, limit, offset) = <<>> <=> Left(Len(q), limit, offset) = 0
    BY <2>1, SliceOfList
  <2>3. \A x : x \in ItemsOf(Slice(q, limit, offset)) <=>
            \E i \in offset + 1 .. offset + Left(Len(q), limit, offset) : x = q[i]
    BY <2>1, SliceOfList
  <2>4. QED
    BY <2>1, <2>2, <2>3 DEF limit, offset
<1>5. /\ Len(Slice(q, walk.limit + 1, walk.offset)) = Left(n, walk.limit + 1, walk.offset)
      /\ Left(n, walk.limit + 1, walk.offset) \in Nat
  BY <1>2, <1>3, SliceOfList
<1>6. ItemsOf(walk'.page) \subseteq Items(walk)
  <2> SUFFICES ASSUME NEW x \in ItemsOf(walk'.page) PROVE x \in Items(walk)
    OBVIOUS
  <2>1. PICK i \in walk.offset + 1 .. walk.offset + k : x = q[i]
    BY <1>1, <1>4
  <2>2. i \in 1..n
    BY <1>2, <1>4 DEF Left, Least
  <2>3. QED
    BY <1>3, <2>1, <2>2
<1> HIDE DEF k
<1>7. QED
  BY <1>1, <1>2, <1>3, <1>4, <1>5, <1>6 DEF n, k

\* The walk keeps its types.
LEMMA WalkTyped ==
    ASSUME DirectoryTypeOK, WalkIsRecord, [DirectoryNext]_<<vars, directoryVars>>
    PROVE  WalkIsRecord' /\ WalkTypeOK'
<1> WalkTypeOK /\ TablesTypeOK
  BY DEF DirectoryTypeOK
<1> DEFINE Typed == WalkIsRecord /\ WalkTypeOK
<1>1. ASSUME UNCHANGED walkVars PROVE Typed'
  BY <1>1 DEF walkVars, WalkIsRecord, WalkTypeOK
<1>2. TablesTypeOK' /\ (walk'.kind \in Kinds => Items(walk)' \subseteq Users \cup Nat)
  BY TablesTyped, ItemsFiniteNext
<1>3. ASSUME Change PROVE Typed'
  <2>1. Shift \subseteq {"shrank", "grew", "moved", "tied"}
    BY DEF Shift
  <2>2. QED
    BY <1>2, <1>3, <2>1 DEF Change, WalkTypeOK, WalkIsRecord
<1>4. ASSUME UNCHANGED <<walk, stable, got, again, shifts, gap>>,
             wpc' \in {"count", "notfound", "private", "refused", "failed"}
      PROVE  Typed'
  BY <1>4 DEF WalkTypeOK, WalkIsRecord
<1>5. ASSUME NEW kind \in Kinds, NEW n \in Names \cup {None}, NEW viewer \in Viewers,
             NEW rawLimit \in RawLimits, NEW rawOffset \in RawOffsets,
             BeginWalk(kind, n, viewer, rawLimit, rawOffset)
      PROVE  Typed'
  <2>1. rawLimit \in Nat /\ rawOffset \in Nat
    BY RawAssumption
  <2>2. Limit(kind, rawLimit) \in Int /\ Offset(kind, rawOffset) \in Int
    BY <2>1, LimitsType
  <2>3. UNCHANGED <<stable, got, again, shifts, gap>> /\ wpc' = "next"
    BY <1>5 DEF BeginWalk
  <2>4. /\ WalkIsRecord' /\ walk'.kind = kind /\ walk'.name = n /\ walk'.viewer = viewer
        /\ walk'.rawLimit = rawLimit /\ walk'.rawOffset = rawOffset
        /\ walk'.limit \in Int /\ walk'.start \in Int /\ walk'.offset \in Int
        /\ walk'.total = 0 /\ walk'.page = <<>> /\ walk'.subject = None
    BY <1>5, <2>2, BeginWalkFields
  <2>5. walk'.asked \in BOOLEAN /\ walk'.excused \in BOOLEAN
    BY <1>5, BeginWalkFields, Zenon
  <2>6. QED
    BY <2>1, <2>3, <2>4, <2>5, ItemsOfEmpty DEF WalkTypeOK
<1>6. CASE Lookup
  <2>1. wpc' \in {"check", "count", "page"} /\ UNCHANGED <<got, again, gap>>
    BY <1>6 DEF Lookup
  <2>2. walk'.excused \in BOOLEAN
    BY <1>6, LookupExcuse
  <2>3. walk'.subject \in Users \cup {None}
    BY <1>6, LookupFields DEF TablesTypeOK
  <2>4. /\ KeepsParameters /\ walk'.offset = walk.offset /\ walk'.total = walk.total
        /\ walk'.page = walk.page
    BY <1>6, LookupFields
  <2>7. walk'.asked \in BOOLEAN
    BY <1>6, LookupFields
  <2>8. shifts' \in {shifts, shifts \cup {"moved"}} /\ stable' \subseteq Items(walk)'
    BY <1>6, LookupHistory
  <2>5. Items(walk)' \subseteq Users \cup Nat
    BY <1>2, <2>4 DEF KeepsParameters, WalkTypeOK
  <2>6. QED
    BY <2>1, <2>2, <2>3, <2>4, <2>5, <2>7, <2>8 DEF WalkTypeOK, KeepsParameters
<1>7. CASE CountRows
  <2>1. /\ wpc' \in {"page", "answer"} /\ UNCHANGED <<stable, got, again, shifts, gap>>
        /\ Cardinality(Items(walk)) \in Nat
    BY <1>7, ItemsFinite DEF CountRows, WalkTypeOK
  <2>2. QED
    BY <1>7, <2>1, CountRowsFields DEF WalkTypeOK, KeepsParameters
<1>8. CASE GetPage
  <2>1. /\ wpc' \in {"count", "answer"} /\ UNCHANGED <<stable, got, again, gap>>
        /\ shifts' \in {shifts, shifts \cup {"tied"}} /\ walk.offset >= 0
    BY <1>8 DEF GetPage
  <2>2. /\ Len(walk'.page) \in Nat /\ ItemsOf(walk'.page) \subseteq Users \cup Nat
        /\ walk'.total \in Nat
    <3>1. Cardinality(Items(walk)) \in Nat /\ Items(walk) \subseteq Users \cup Nat
      BY ItemsFinite DEF WalkTypeOK
    <3>2. walk.limit >= 0
      BY <1>8 DEF GetPage
    <3>3. QED
      BY <1>8, <2>1, <3>1, <3>2, PageOfList DEF WalkTypeOK
  <2>3. QED
    BY <1>8, <2>1, <2>2, GetPageFields DEF WalkTypeOK, KeepsParameters
<1>9. CASE Answer
  <2>1. /\ wpc' \in {"done", "stuck", "next"} /\ UNCHANGED <<stable, shifts, gap>>
        /\ got' = got \cup ItemsOf(walk.page)
        /\ again' = again \cup (got \cap ItemsOf(walk.page))
    BY <1>9 DEF Answer
  <2>2. QED
    BY <1>9, <2>1, AnswerFields, ItemsOfEmpty DEF WalkTypeOK, KeepsParameters
<1>10. CASE NotFound \/ CheckWalk \/ Refused \/ WalkFails
  BY <1>4, <1>10 DEF NotFound, CheckWalk, Refused, WalkFails, WalkGoto
<1>11. CASE SettingsStep
  <2>1. UNCHANGED <<wpc, stable, got, again, shifts, gap>>
    BY <1>11 DEF SettingsStep
  <2>2. walk'.excused \in BOOLEAN
    BY <1>11, SettingsExcuse DEF WalkTypeOK
  <2>3. QED
    BY <1>11, <2>1, <2>2, SettingsFields DEF WalkTypeOK, KeepsParameters
<1>12. CASE TableStep
  BY <1>1, <1>3, <1>12, TableSteps
<1>13. CASE WalkStep
  BY <1>5, <1>6, <1>7, <1>8, <1>9, <1>10, <1>13 DEF WalkStep
<1>14. CASE UNCHANGED <<vars, directoryVars>>
  BY <1>1, <1>14 DEF directoryVars, walkVars
<1>15. QED
  BY <1>11, <1>12, <1>13, <1>14 DEF DirectoryNext

\* The types are right from the beginning and stay so.
LEMMA TypesInvariant == DirectorySpec => [](WalkIsRecord /\ DirectoryTypeOK)
<1> DEFINE Typed == WalkIsRecord /\ TablesTypeOK /\ UpdatesTypeOK /\ WalkTypeOK
<1>1. DirectoryInit => Typed
  <2> SUFFICES ASSUME DirectoryInit PROVE Typed
    OBVIOUS
  <2> USE DEF DirectoryInit, TablesEmpty, NothingAsked
  <2>1. TablesTypeOK
    BY ChangesAssumption DEF TablesTypeOK, Registered
  <2>2. UpdatesTypeOK
    BY DEF UpdatesTypeOK
  <2>3. WalkIsRecord
    BY DEF Idle, WalkIsRecord
  <2>4. /\ walk.kind = "new" /\ walk.name = None /\ walk.viewer = None
        /\ walk.subject = None /\ walk.rawLimit = 0 /\ walk.rawOffset = 0
        /\ walk.total = 0 /\ walk.limit = DefaultLimit /\ walk.start = 0
        /\ walk.offset = 0 /\ walk.page = <<>>
    BY DEF Idle
  <2>5. walk.asked \in BOOLEAN /\ walk.excused \in BOOLEAN
    BY DEF Idle
  <2>6. WalkTypeOK
    BY <2>4, <2>5, ItemsOfEmpty, LimitsAssumption DEF WalkTypeOK, Kinds
  <2>7. QED
    BY <2>1, <2>2, <2>3, <2>6
<1>2. TypeOK /\ Typed /\ [DirectoryNext]_<<vars, directoryVars>> => Typed'
  BY TablesTyped, UpdatesTyped, WalkTyped DEF DirectoryTypeOK
<1>3. TypeOK /\ Typed => DirectoryTypeOK
  BY DEF DirectoryTypeOK
<1>4. QED
  BY <1>1, <1>2, <1>3, DirectoryKeepsSettings, TypeCorrect, PTL DEF DirectorySpec

\* Type correctness: users that follow or are followed have a row, rows and requests
\* are what they should be, and what walks meet are users or numbers of rows.
THEOREM DirectoryTypeCorrect == DirectorySpec => []DirectoryTypeOK
  BY TypesInvariant, PTL

-----------------------------------------------------------------------------
(* What happens to the list *)

\* A step that leaves the walk where it was in the list, and the list with it.
Stands ==
    /\ KeepsParameters
    /\ walk'.offset = walk.offset /\ walk'.total = walk.total /\ walk'.page = walk.page
    /\ walk'.subject = walk.subject /\ walk'.asked = walk.asked
    /\ UNCHANGED <<tables, stable, got, again, shifts, gap>>

\* Where such a step may go.
Goes ==
    \/ wpc' = wpc
    \/ wpc = "check" /\ wpc' = "count"
    \/ wpc = "page" /\ wpc' = "refused" /\ (walk.limit < 0 \/ walk.offset < 0)
    \/ wpc' \in {"notfound", "private", "failed"}

\* Some client begins a walk.
Begins ==
    \E kind \in Kinds, n \in Names \cup {None}, viewer \in Viewers,
       rawLimit \in RawLimits, rawOffset \in RawOffsets :
          BeginWalk(kind, n, viewer, rawLimit, rawOffset)

\* Every step is of one of these sorts.
LEMMA DirectorySteps ==
    ASSUME WalkIsRecord, [DirectoryNext]_<<vars, directoryVars>>
    PROVE  \/ Change \/ Begins
           \/ Stands /\ Goes
           \/ Lookup \/ CountRows \/ GetPage \/ Answer
<1>1. ASSUME UNCHANGED <<tables, walkVars>> PROVE Stands /\ Goes
  <2>1. UNCHANGED <<tables, wpc, walk, stable, got, again, shifts, gap>>
    BY <1>1 DEF walkVars
  <2>2. KeepsParameters
    BY <2>1 DEF WalkIsRecord, KeepsParameters
  <2>3. QED
    BY <2>1, <2>2 DEF Stands, Goes
<1>2. CASE TableStep
  <2>1. CASE Change
    BY <2>1
  <2>2. CASE UNCHANGED <<tables, walkVars>>
    BY <1>1, <2>2
  <2>3. QED
    BY <1>2, <2>1, <2>2, TableSteps
<1>3. CASE NotFound \/ CheckWalk \/ Refused \/ WalkFails
  <2>1. Stands
    BY <1>3 DEF NotFound, CheckWalk, Refused, WalkFails, WalkGoto, WalkIsRecord,
                Stands, KeepsParameters
  <2>2. Goes
    BY <1>3 DEF NotFound, CheckWalk, Refused, WalkFails, WalkGoto, Goes
  <2>3. QED
    BY <2>1, <2>2
<1>4. CASE WalkStep
  BY <1>3, <1>4 DEF WalkStep, Begins
<1>5. CASE SettingsStep
  <2>1. Stands
    <3>1. UNCHANGED <<tables, stable, got, again, shifts, gap>>
      BY <1>5 DEF SettingsStep
    <3>2. /\ KeepsParameters /\ walk'.offset = walk.offset /\ walk'.total = walk.total
          /\ walk'.page = walk.page /\ walk'.subject = walk.subject
          /\ walk'.asked = walk.asked
      BY <1>5, SettingsFields
    <3>3. QED
      BY <3>1, <3>2 DEF Stands
  <2>2. Goes
    BY <1>5 DEF SettingsStep, Goes
  <2>3. QED
    BY <2>1, <2>2
<1>6. CASE UNCHANGED <<vars, directoryVars>>
  BY <1>1, <1>6 DEF directoryVars, tables, walkVars
<1>7. QED
  BY <1>2, <1>4, <1>5, <1>6 DEF DirectoryNext

\* The list is that of the kind, the subject and the viewer.
LEMMA SameList ==
    ASSUME UNCHANGED tables, walk'.kind = walk.kind, walk'.subject = walk.subject,
           walk'.viewer = walk.viewer
    PROVE  Items(walk)' = Items(walk) /\ (\A e : Place(e)' = Place(e))
<1>1. Items(walk)' = Items(walk)
  BY DEF tables, Items, Followers, Following, Named, Registered
<1>2. \A f, e : Before(walk, f, e)' <=> Before(walk, f, e)
  BY DEF tables, Before, GetFollowers, GetFollowing, DiscoverUsersNew, MoreFollowers,
         DiscoverUsersPopular, SearchUsers, ListNotificationsByUser,
         GetRecentProfileViewEvents, Followers, Registered
<1>3. QED
  BY <1>1, <1>2 DEF Place

\* A change that does not shrink the list loses none of its items, one that does not
\* make it grow adds none; between the two statements of a request the gap tells so, too.
LEMMA ChangeOfList ==
    ASSUME DirectoryTypeOK, TablesTypeOK', Change, Walking
    PROVE  /\ walk' = walk /\ wpc' = wpc /\ got' = got /\ again' = again
           /\ shifts \subseteq shifts' /\ gap \subseteq gap'
           /\ stable' = stable \cap Items(walk)'
           /\ "shrank" \notin shifts' =>
                /\ Items(walk) \subseteq Items(walk)'
                /\ Cardinality(Items(walk)) <= Cardinality(Items(walk)')
           /\ "grew" \notin shifts' =>
                /\ Items(walk)' \subseteq Items(walk)
                /\ Cardinality(Items(walk)') <= Cardinality(Items(walk))
           /\ Between => /\ "shrank" \notin gap' => Items(walk) \subseteq Items(walk)'
                         /\ "grew" \notin gap' => Items(walk)' \subseteq Items(walk)
           /\ Cardinality(Items(walk)) \in Nat /\ Cardinality(Items(walk)') \in Nat
<1>1. /\ walk' = walk /\ wpc' = wpc /\ got' = got /\ again' = again
      /\ shifts' = shifts \cup Shift /\ gap' = IF Between THEN gap \cup Shift ELSE gap
      /\ stable' = stable \cap Items(walk)'
  BY DEF Change
<1>2. /\ "shrank" \notin Shift => Items(walk) \subseteq Items(walk)'
      /\ "grew" \notin Shift => Items(walk)' \subseteq Items(walk)
  BY DEF Shift
<1>3. IsFiniteSet(Items(walk)) /\ IsFiniteSet(Items(walk)')
  BY <1>1, ItemsFinite, ItemsFiniteNext DEF DirectoryTypeOK, WalkTypeOK
<1>4. /\ Items(walk) \subseteq Items(walk)' =>
            Cardinality(Items(walk)) <= Cardinality(Items(walk)')
      /\ Items(walk)' \subseteq Items(walk) =>
            Cardinality(Items(walk)') <= Cardinality(Items(walk))
      /\ Cardinality(Items(walk)) \in Nat /\ Cardinality(Items(walk)') \in Nat
  BY <1>3, FS_Subset, FS_CardinalityType
<1>5. QED
  BY <1>1, <1>2, <1>4

\* If the order stays as it is, too, no item comes before fewer others than it did; if
\* the list does not grow, after more.
LEMMA ChangeOfPlaces ==
    ASSUME DirectoryTypeOK, TablesTypeOK', Change, Walking, "moved" \notin shifts'
    PROVE  \A e \in Items(walk) \cap Items(walk)' :
             /\ Place(e) \in Nat /\ Place(e)' \in Nat
             /\ "shrank" \notin shifts' => Place(e) <= Place(e)'
             /\ "grew" \notin shifts' => Place(e)' <= Place(e)
<1> SUFFICES ASSUME NEW e \in Items(walk) \cap Items(walk)'
             PROVE  /\ Place(e) \in Nat /\ Place(e)' \in Nat
                    /\ "shrank" \notin shifts' => Place(e) <= Place(e)'
                    /\ "grew" \notin shifts' => Place(e)' <= Place(e)
  OBVIOUS
<1> DEFINE S == {f \in Items(walk) : Before(walk, f, e)}
           T == {f \in Items(walk)' : Before(walk, f, e)'}
<1>1. \A f \in Items(walk) \cap Items(walk)' : Before(walk, f, e)' <=> Before(walk, f, e)
  <2>1. ~Reordered
    BY DEF Change, Shift
  <2>2. QED
    BY <2>1 DEF Reordered
<1>2. /\ "shrank" \notin shifts' => S \subseteq T
      /\ "grew" \notin shifts' => T \subseteq S
  BY <1>1, ChangeOfList
<1>3. IsFiniteSet(S) /\ IsFiniteSet(T)
  <2>1. IsFiniteSet(Items(walk)) /\ IsFiniteSet(Items(walk)')
    BY ChangeOfList, ItemsFinite, ItemsFiniteNext DEF DirectoryTypeOK, WalkTypeOK
  <2>2. S \in SUBSET Items(walk) /\ T \in SUBSET Items(walk)'
    OBVIOUS
  <2>3. QED
    BY <2>1, <2>2, FS_Subset
<1>4. Place(e) = Cardinality(S) /\ Place(e)' = Cardinality(T)
  BY DEF Place
<1> HIDE DEF S, T
<1>5. /\ S \subseteq T => Cardinality(S) <= Cardinality(T)
      /\ T \subseteq S => Cardinality(T) <= Cardinality(S)
      /\ Cardinality(S) \in Nat /\ Cardinality(T) \in Nat
  BY <1>3, FS_Subset, FS_CardinalityType
<1>6. QED
  BY <1>2, <1>4, <1>5

\* Where ORDER BY leaves nothing open, a page holds the items at its places.
LEMMA PageByPlace ==
    ASSUME DirectoryTypeOK, WalkIsRecord, GetPage, ~Tied(walk)
    PROVE  /\ \A e \in Items(walk) :
                 /\ Place(e) \in Nat /\ Place(e) < Cardinality(Items(walk))
                 /\ e \in ItemsOf(walk'.page) <=>
                       /\ walk.offset <= Place(e)
                       /\ Place(e) < walk.offset + Len(walk'.page)
           /\ ItemsOf(walk'.page) \subseteq Items(walk)
<1> TablesTypeOK /\ walk.kind \in Kinds /\ walk.offset \in Nat
  BY DEF DirectoryTypeOK, WalkTypeOK, GetPage
<1> DEFINE n == Cardinality(Items(walk))
           k == Left(n, walk.limit, walk.offset)
<1>1. PICK q \in Lists(walk) :
         /\ n \in Nat /\ Len(walk'.page) = k /\ k \in Nat
         /\ \A x : x \in ItemsOf(walk'.page) <=>
               \E i \in walk.offset + 1 .. walk.offset + k : x = q[i]
         /\ ItemsOf(walk'.page) \subseteq Items(walk)
  BY PageOfList
<1>2. /\ \A i \in 1..n : Place(q[i]) = i - 1
      /\ \A e \in Items(walk) : \E i \in 1..n : e = q[i]
  BY ListsByPlace
<1>3. k > 0 => walk.offset + k <= n
  BY <1>1 DEF Left, Least, GetPage, DirectoryTypeOK, WalkTypeOK
<1> HIDE DEF n, k
<1>4. ASSUME NEW e \in Items(walk)
      PROVE  e \in ItemsOf(walk'.page) <=>
                walk.offset <= Place(e) /\ Place(e) < walk.offset + k
  <2>1. PICK i \in 1..n : e = q[i]
    BY <1>2
  <2>2. Place(e) = i - 1
    BY <1>2, <2>1
  <2>3. ASSUME e \in ItemsOf(walk'.page)
        PROVE  walk.offset <= Place(e) /\ Place(e) < walk.offset + k
    <3>1. PICK j \in walk.offset + 1 .. walk.offset + k : e = q[j]
      BY <1>1, <2>3
    <3>2. j \in 1..n
      BY <1>1, <1>3, <3>1
    <3>3. Place(e) = j - 1
      BY <1>2, <3>1, <3>2
    <3>4. QED
      BY <3>3, <1>1
  <2>4. ASSUME walk.offset <= Place(e), Place(e) < walk.offset + k
        PROVE  e \in ItemsOf(walk'.page)
    <3>1. i \in walk.offset + 1 .. walk.offset + k
      BY <1>1, <2>2, <2>4
    <3>2. QED
      BY <1>1, <2>1, <3>1
  <2>5. QED
    BY <2>3, <2>4
<1>5. QED
  BY <1>1, <1>4, PlaceBound DEF n

-----------------------------------------------------------------------------
(* Walks *)

\* How far a walk is, and what it has been given.
Reached == walk.offset + Len(walk.page)
\* The items the client has or is about to be given.
Seen == got \cup ItemsOf(walk.page)

\* The total is read before the page.
TotalFirst == walk.kind \in CountFirst

\* A request has its page, but the client has not.
HasPage == wpc = "answer" \/ (wpc = "count" /\ ~TotalFirst)

\* A walk has been in the list since its first lookup.  Pages are there from GetPage to
\* the answer.
PhaseInv ==
    /\ wpc \in {"idle", "next", "check", "page"} => walk.page = <<>>
    /\ wpc = "count" /\ TotalFirst => walk.page = <<>>
    /\ wpc = "check" => TotalFirst
    /\ wpc \in {"check", "count", "page", "answer"} => walk.asked = TRUE
    /\ wpc = "idle" => walk.asked = FALSE
    /\ walk.asked = FALSE => got = {} /\ walk.offset = walk.start
    /\ HasPage => walk.limit \in Nat /\ walk.offset \in Nat /\ Len(walk.page) <= walk.limit
    /\ Walking => stable \subseteq Items(walk)

\* Limits and offsets are those that were sent, within bounds, where they fit.
LimitInv ==
    /\ Fits(walk.rawLimit) => walk.limit \in 1..MaxLimit
    /\ Fits(walk.rawOffset) => walk.start = walk.rawOffset
    /\ walk.start \in Nat => walk.offset \in Nat
    /\ walk.limit <= MaxLimit /\ Len(walk.page) <= MaxLimit
    /\ walk.limit < 1 => ConvertsLimit(walk.kind)
    /\ walk.start < 0 => walk.kind = "notifications"
    /\ wpc = "refused" => walk.limit < 0 \/ walk.start < 0

\* PhaseInv is preserved by every step.
LEMMA PhaseInductive ==
    ASSUME DirectoryTypeOK, DirectoryTypeOK', WalkIsRecord, PhaseInv,
           [DirectoryNext]_<<vars, directoryVars>>
    PROVE  PhaseInv'
<1> WalkTypeOK /\ TablesTypeOK /\ TablesTypeOK'
  BY DEF DirectoryTypeOK
<1> USE DEF PhaseInv, HasPage, TotalFirst
<1>1. CASE Change
  <2>1. CASE Walking
    <3>1. walk' = walk /\ wpc' = wpc /\ got' = got /\ stable' \subseteq Items(walk)'
      BY <1>1, <2>1, ChangeOfList
    <3>2. QED
      BY <3>1
  <2>2. CASE ~Walking
    <3>1. walk' = walk /\ wpc' = wpc /\ got' = got /\ ~Walking'
      BY <1>1, <2>2 DEF Change, Walking
    <3>2. QED
      BY <3>1
  <2>3. QED
    BY <2>1, <2>2
<1>2. CASE Stands /\ Goes
  <2>1. Items(walk)' = Items(walk) /\ stable' = stable /\ got' = got
    BY <1>2, SameList DEF Stands, KeepsParameters
  <2>2. Walking' => Walking
    BY <1>2 DEF Stands, Goes, Walking, PhaseInv
  <2>3. QED
    BY <1>2, <2>1, <2>2 DEF Stands, Goes, KeepsParameters
<1>3. CASE Begins
  <2>1. PICK kind \in Kinds, n \in Names \cup {None}, viewer \in Viewers,
             rawLimit \in RawLimits, rawOffset \in RawOffsets :
                BeginWalk(kind, n, viewer, rawLimit, rawOffset)
    BY <1>3 DEF Begins
  <2>2. /\ walk'.page = <<>> /\ walk'.asked = FALSE /\ walk'.offset = walk'.start
        /\ wpc' = "next" /\ got' = got /\ wpc = "idle"
    <3>1. wpc' = "next" /\ got' = got /\ wpc = "idle"
      BY <2>1 DEF BeginWalk
    <3>2. walk'.page = <<>> /\ walk'.offset = walk'.start
      BY <2>1, BeginWalkFields
    <3>3. walk'.asked = FALSE
      BY <2>1, BeginWalkFields, Zenon
    <3>4. QED
      BY <3>1, <3>2, <3>3
  <2>3. ~Walking'
    BY <2>2 DEF Walking
  <2>4. QED
    BY <2>2, <2>3
<1>4. CASE Lookup
  <2>1. /\ wpc' \in {"check", "count", "page"} /\ wpc = "next"
        /\ walk.kind \in ByName <=> wpc' = "check"
        /\ walk.kind \notin ByName => (walk.kind \in CountFirst <=> wpc' = "count")
    BY <1>4 DEF Lookup
  <2>2. /\ walk'.page = walk.page /\ walk'.asked = TRUE /\ walk'.kind = walk.kind
    BY <1>4, LookupFields DEF KeepsParameters
  <2>3. stable' \subseteq Items(walk)'
    BY <1>4, LookupHistory
  <2>4. QED
    BY <2>1, <2>2, <2>3 DEF CountFirst
<1>5. CASE CountRows
  <2>1. /\ wpc = "count" /\ stable' = stable
        /\ TotalFirst => wpc' = "page"
        /\ ~TotalFirst => wpc' = "answer"
    BY <1>5 DEF CountRows
  <2>2. /\ walk'.page = walk.page /\ walk'.asked = walk.asked /\ walk'.kind = walk.kind
        /\ walk'.limit = walk.limit /\ walk'.offset = walk.offset
    BY <1>5, CountRowsFields DEF KeepsParameters
  <2>3. Items(walk)' = Items(walk)
    BY <1>5, CountRowsFields, SameList DEF KeepsParameters, CountRows
  <2>4. QED
    BY <2>1, <2>2, <2>3 DEF Walking
<1>6. CASE GetPage
  <2>1. /\ wpc = "page" /\ walk.limit \in Nat /\ walk.offset \in Nat /\ stable' = stable
        /\ wpc' = "answer" \/ (wpc' = "count" /\ ~TotalFirst)
    BY <1>6 DEF GetPage, WalkTypeOK
  <2>2. /\ walk'.asked = walk.asked /\ walk'.kind = walk.kind
        /\ walk'.limit = walk.limit /\ walk'.offset = walk.offset
    BY <1>6, GetPageFields DEF KeepsParameters
  <2>3. Items(walk)' = Items(walk)
    BY <1>6, GetPageFields, SameList DEF KeepsParameters, GetPage
  <2>4. Len(walk'.page) <= walk.limit
    BY <1>6, <2>1, PageOfList DEF Left, Least
  <2>5. QED
    BY <2>1, <2>2, <2>3, <2>4 DEF Walking
<1>7. CASE Answer
  <2>1. wpc = "answer" /\ wpc' \in {"done", "stuck", "next"} /\ stable' = stable
    BY <1>7 DEF Answer
  <2>2. walk'.asked = walk.asked /\ walk'.page = <<>>
    BY <1>7, AnswerFields
  <2>3. Items(walk)' = Items(walk)
    BY <1>7, AnswerFields, SameList DEF KeepsParameters, Answer
  <2>4. QED
    BY <2>1, <2>2, <2>3 DEF Walking
<1>8. QED
  BY <1>1, <1>2, <1>3, <1>4, <1>5, <1>6, <1>7, DirectorySteps

\* LimitInv is preserved by every step.
LEMMA LimitInductive ==
    ASSUME DirectoryTypeOK, WalkIsRecord, LimitInv, PhaseInv,
           [DirectoryNext]_<<vars, directoryVars>>
    PROVE  LimitInv'
<1> WalkTypeOK
  BY DEF DirectoryTypeOK
<1> USE DEF LimitInv
<1>1. CASE Change
  BY <1>1 DEF Change
<1>2. CASE Stands /\ Goes
  <2>1. wpc' = "refused" => walk.limit < 0 \/ walk.start < 0
    BY <1>2 DEF Goes, WalkTypeOK
  <2>2. QED
    BY <1>2, <2>1 DEF Stands, KeepsParameters
<1>3. CASE Begins
  <2>1. PICK kind \in Kinds, n \in Names \cup {None}, viewer \in Viewers,
             rawLimit \in RawLimits, rawOffset \in RawOffsets :
                BeginWalk(kind, n, viewer, rawLimit, rawOffset)
    BY <1>3 DEF Begins
  <2>2. rawLimit \in Nat /\ rawOffset \in Nat
    BY RawAssumption
  <2>3. /\ walk'.rawLimit = rawLimit /\ walk'.rawOffset = rawOffset
        /\ walk'.limit = Limit(kind, rawLimit) /\ walk'.start = Offset(kind, rawOffset)
        /\ walk'.offset = walk'.start /\ walk'.kind = kind /\ walk'.page = <<>>
    BY <2>1, BeginWalkFields
  <2>4. wpc' = "next"
    BY <2>1 DEF BeginWalk
  <2>5. Len(walk'.page) <= MaxLimit
    BY <2>3, LimitsAssumption
  <2>6. /\ Limit(kind, rawLimit) <= MaxLimit /\ Offset(kind, rawOffset) \in Int
        /\ Limit(kind, rawLimit) < 1 => ConvertsLimit(kind)
        /\ Offset(kind, rawOffset) < 0 => kind = "notifications"
        /\ Fits(rawLimit) => Limit(kind, rawLimit) \in 1..MaxLimit
        /\ Fits(rawOffset) => Offset(kind, rawOffset) = rawOffset
    BY <2>2, LimitsType
  <2>7. QED
    BY <2>3, <2>4, <2>5, <2>6 DEF Fits
<1>4. CASE Lookup \/ CountRows \/ GetPage
  <2>1. wpc' \in {"check", "count", "page", "answer"}
    BY <1>4 DEF Lookup, CountRows, GetPage
  <2>2. KeepsParameters /\ walk'.offset = walk.offset
    BY <1>4, LookupFields, CountRowsFields, GetPageFields
  <2>3. Len(walk'.page) <= MaxLimit
    <3>1. CASE Lookup \/ CountRows
      BY <3>1, LookupFields, CountRowsFields
    <3>2. CASE GetPage
      <4>1. walk.limit \in Nat /\ walk.offset \in Nat
        BY <3>2 DEF GetPage, WalkTypeOK
      <4>2. PICK n \in Nat : Len(walk'.page) = Left(n, walk.limit, walk.offset)
        BY <3>2, PageOfList
      <4>3. QED
        BY <4>1, <4>2, LimitsAssumption DEF Left, Least
    <3>3. QED
      BY <1>4, <3>1, <3>2
  <2>4. QED
    BY <2>1, <2>2, <2>3 DEF KeepsParameters
<1>5. CASE Answer
  <2>1. wpc' \in {"done", "stuck", "next"}
    BY <1>5 DEF Answer
  <2>2. KeepsParameters /\ walk'.offset = walk.offset + Len(walk.page) /\ walk'.page = <<>>
    BY <1>5, AnswerFields
  <2>3. Len(walk'.page) <= MaxLimit
    BY <2>2, LimitsAssumption
  <2>4. QED
    BY <2>1, <2>2, <2>3 DEF KeepsParameters, WalkTypeOK
<1>6. QED
  BY <1>1, <1>2, <1>3, <1>4, <1>5, DirectorySteps

\* PlaceBound, as a predicate of a state.
PlacesInList ==
    \A e \in Items(walk) : Place(e) \in Nat /\ Place(e) < Cardinality(Items(walk))

\* PlaceBound of the list after a step.
LEMMA PlacesNext ==
    TablesTypeOK' /\ walk'.kind \in Kinds =>
        /\ \A e \in Items(walk)' :
              Place(e)' \in Nat /\ Place(e)' < Cardinality(Items(walk)')
        /\ Cardinality(Items(walk)') \in Nat
<1>1. TablesTypeOK /\ walk.kind \in Kinds =>
         PlacesInList /\ Cardinality(Items(walk)) \in Nat
  BY PlaceBound, ItemsFinite DEF PlacesInList
<1>2. (TablesTypeOK /\ walk.kind \in Kinds =>
         PlacesInList /\ Cardinality(Items(walk)) \in Nat)'
  BY <1>1, PTL
<1>3. QED
  BY <1>2 DEF PlacesInList

\* Nothing has left the list and its order has not changed.
Growing == "shrank" \notin shifts /\ "moved" \notin shifts /\ "tied" \notin shifts

\* The walk has every item that is there from its beginning and lies before the place
\* it has reached.
PrefixSeen == Walking => \A e \in stable : Place(e) < Reached => e \in Seen

\* What lies behind that place is promised.  Where the total comes first, items that
\* come after it may push others behind it.
RestPromised ==
    /\ wpc = "page" /\ TotalFirst =>
          walk.total = Cardinality(Items(walk)) \/ "grew" \in gap
    /\ wpc = "count" /\ ~TotalFirst =>
          stable \subseteq Seen \/ Cardinality(Items(walk)) > walk.offset + walk.limit
    /\ wpc = "answer" =>
          \/ stable \subseteq Seen
          \/ HasMore(walk)
          \/ TotalFirst /\ "grew" \in gap
    /\ wpc = "done" => stable \subseteq got \/ (TotalFirst /\ "grew" \in gap)

\* The inductive invariant behind MissedOnlyByShift.
MissedInv == walk.start = 0 /\ Growing => PrefixSeen /\ RestPromised

\* MissedInv is preserved by every step.
LEMMA MissedInductive ==
    ASSUME DirectoryTypeOK, DirectoryTypeOK', WalkIsRecord, PhaseInv, LimitInv, MissedInv,
           [DirectoryNext]_<<vars, directoryVars>>
    PROVE  MissedInv'
<1> SUFFICES ASSUME walk'.start = 0, Growing' PROVE PrefixSeen' /\ RestPromised'
  BY DEF MissedInv
<1> WalkTypeOK /\ TablesTypeOK /\ TablesTypeOK' /\ WalkTypeOK'
  BY DEF DirectoryTypeOK
<1> USE DEF Growing
<1>1. CASE Change
  <2>1. CASE ~Walking
    <3>1. /\ walk' = walk /\ wpc' = wpc /\ got' = got /\ stable' = stable
          /\ shifts' = shifts /\ gap' = gap /\ ~Walking'
      BY <1>1, <2>1 DEF Change, Walking
    <3>2. wpc \notin {"check", "count", "page", "answer"}
      BY <2>1 DEF Walking, PhaseInv
    <3>3. QED
      BY <3>1, <3>2 DEF MissedInv, PrefixSeen, RestPromised, TotalFirst
  <2>2. CASE Walking
    <3>1. /\ walk' = walk /\ wpc' = wpc /\ got' = got /\ shifts \subseteq shifts'
          /\ gap \subseteq gap' /\ stable' \subseteq stable
          /\ stable' \subseteq Items(walk) \cap Items(walk)'
          /\ Cardinality(Items(walk)) <= Cardinality(Items(walk)')
          /\ Cardinality(Items(walk)) \in Nat /\ Cardinality(Items(walk)') \in Nat
      BY <1>1, <2>2, ChangeOfList DEF PhaseInv
    <3>2. PrefixSeen /\ RestPromised /\ wpc \in {"next", "check", "count", "page", "answer"}
      BY <2>2, <3>1 DEF MissedInv, Walking
    <3>3. PrefixSeen'
      <4> SUFFICES ASSUME NEW e \in stable', Place(e)' < Reached' PROVE e \in Seen'
        BY DEF PrefixSeen
      <4>1. Place(e) <= Place(e)' /\ Place(e) \in Nat /\ Place(e)' \in Nat
        BY <1>1, <2>2, <3>1, ChangeOfPlaces
      <4>2. Place(e) < Reached
        BY <3>1, <4>1 DEF Reached, WalkTypeOK
      <4>3. QED
        BY <2>2, <3>1, <3>2, <4>2 DEF PrefixSeen, Seen
    <3>4. wpc = "page" /\ TotalFirst =>
             walk.total = Cardinality(Items(walk)') \/ "grew" \in gap'
      <4> SUFFICES ASSUME wpc = "page", TotalFirst, "grew" \notin gap'
                     PROVE  Items(walk)' = Items(walk)
        BY <3>1, <3>2 DEF RestPromised
      <4>2. Between
        BY DEF Between, TotalFirst
      <4>3. Items(walk)' \subseteq Items(walk) /\ Items(walk) \subseteq Items(walk)'
        BY <1>1, <2>2, <4>2, ChangeOfList
      <4>4. QED
        BY <4>3
    <3>5. RestPromised'
      BY <3>1, <3>2, <3>4 DEF RestPromised, Seen, TotalFirst, HasMore, WalkTypeOK
    <3>6. QED
      BY <3>3, <3>5
  <2>3. QED
    BY <2>1, <2>2
<1>2. CASE Stands /\ Goes
  <2>1. Items(walk)' = Items(walk) /\ (\A e : Place(e)' = Place(e))
    BY <1>2, SameList DEF Stands, KeepsParameters
  <2>2. /\ Walking' => Walking
        /\ wpc' \in {"page", "answer", "done"} => wpc' = wpc
        /\ wpc' = "count" => wpc = "count" \/ TotalFirst
    BY <1>2 DEF Stands, Goes, Walking, PhaseInv
  <2>3. /\ walk'.start = walk.start /\ walk'.offset = walk.offset
        /\ walk'.total = walk.total
        /\ walk'.limit = walk.limit /\ walk'.page = walk.page /\ walk'.kind = walk.kind
        /\ stable' = stable /\ got' = got /\ shifts' = shifts /\ gap' = gap
    BY <1>2 DEF Stands, KeepsParameters
  <2>4. QED
    BY <2>1, <2>2, <2>3 DEF MissedInv, PrefixSeen, RestPromised, Reached, Seen, TotalFirst,
                            HasMore
<1>3. CASE Begins
  <2>1. PICK kind \in Kinds, n \in Names \cup {None}, viewer \in Viewers,
             rawLimit \in RawLimits, rawOffset \in RawOffsets :
                BeginWalk(kind, n, viewer, rawLimit, rawOffset)
    BY <1>3 DEF Begins
  <2>2. wpc' = "next"
    BY <2>1 DEF BeginWalk
  <2>3. walk'.asked = FALSE
    BY <2>1, BeginWalkFields, Zenon
  <2>4. QED
    BY <2>2, <2>3 DEF PrefixSeen, RestPromised, Walking
<1>4. CASE Lookup
  <2>1. wpc' \in {"check", "count", "page"} /\ wpc = "next" /\ got' = got
    BY <1>4 DEF Lookup
  <2>2. UNCHANGED tables
    BY <1>4 DEF Lookup
  <2>3. (wpc' = "page" => ~TotalFirst) /\ (wpc' = "count" => TotalFirst)
    BY <1>4 DEF Lookup, TotalFirst, CountFirst
  <2>4. /\ walk'.page = walk.page /\ walk'.kind = walk.kind /\ walk'.offset = walk.offset
        /\ walk'.start = walk.start /\ walk'.viewer = walk.viewer /\ walk.page = <<>>
    BY <1>4, <2>1, LookupFields DEF KeepsParameters, PhaseInv
  <2>5. RestPromised'
    BY <2>1, <2>3, <2>4 DEF RestPromised, TotalFirst
  <2>6. CASE walk.asked = FALSE
    <3>1. walk'.offset = 0 /\ stable' = Items(walk)'
      BY <1>4, <2>4, <2>6, LookupHistory DEF PhaseInv
    <3>2. Reached' = 0
      BY <2>4, <3>1, ItemsOfEmpty DEF Reached
    <3>3. \A e \in Items(walk)' : Place(e)' \in Nat
      BY PlacesNext DEF WalkTypeOK
    <3>4. PrefixSeen'
      BY <3>1, <3>2, <3>3 DEF PrefixSeen
    <3>5. QED
      BY <2>5, <3>4
  <2>7. CASE walk.asked = TRUE
    <3>1. shifts' = shifts /\ walk'.subject = walk.subject /\ stable' \subseteq stable
      BY <1>4, <2>7, LookupHistory
    <3>2. \A e : Place(e)' = Place(e)
      BY <2>2, <2>4, <3>1, SameList
    <3>3. Walking
      BY <2>1, <2>7 DEF Walking
    <3>4. PrefixSeen
      BY <2>4, <3>1 DEF MissedInv
    <3>5. PrefixSeen'
      BY <2>1, <2>4, <3>1, <3>2, <3>3, <3>4 DEF PrefixSeen, Reached, Seen
    <3>6. QED
      BY <2>5, <3>5
  <2>8. QED
    BY <2>6, <2>7 DEF WalkTypeOK
<1>5. CASE CountRows
  <2>1. /\ wpc = "count" /\ wpc' = IF TotalFirst THEN "page" ELSE "answer"
        /\ UNCHANGED <<tables, stable, got, shifts, gap>>
    BY <1>5 DEF CountRows, TotalFirst
  <2>2. /\ walk'.page = walk.page /\ walk'.kind = walk.kind /\ walk'.offset = walk.offset
        /\ walk'.start = walk.start /\ walk'.viewer = walk.viewer
        /\ walk'.subject = walk.subject /\ walk'.asked = walk.asked
        /\ walk'.limit = walk.limit /\ walk'.total = Cardinality(Items(walk))
    BY <1>5, CountRowsFields DEF KeepsParameters
  <2>3. Items(walk)' = Items(walk) /\ (\A e : Place(e)' = Place(e))
    BY <2>1, <2>2, SameList
  <2>4. Walking' => Walking
    BY <2>1, <2>2 DEF Walking
  <2>5. PrefixSeen /\ RestPromised
    BY <2>1, <2>2 DEF MissedInv
  <2>6. PrefixSeen'
    BY <2>1, <2>2, <2>3, <2>4, <2>5 DEF PrefixSeen, Reached, Seen
  <2>7. RestPromised'
    <3>1. CASE TotalFirst
      BY <2>1, <2>2, <2>3, <3>1 DEF RestPromised, TotalFirst
    <3>2. CASE ~TotalFirst
      <4>1. Len(walk.page) <= walk.limit /\ walk.limit \in Nat /\ walk.offset \in Nat
        BY <2>1, <3>2 DEF PhaseInv, HasPage
      <4>2. Cardinality(Items(walk)) \in Nat /\ Len(walk.page) \in Nat
        BY ItemsFinite DEF WalkTypeOK
      <4>3. Cardinality(Items(walk)) > walk.offset + walk.limit => HasMore(walk')
        BY <2>2, <4>1, <4>2 DEF HasMore
      <4>4. HasMore(walk)' = HasMore(walk')
        BY DEF HasMore
      <4>5. QED
        BY <2>1, <2>2, <2>3, <2>5, <3>2, <4>3, <4>4 DEF RestPromised, TotalFirst, Seen
    <3>3. QED
      BY <3>1, <3>2
  <2>8. QED
    BY <2>6, <2>7
<1>6. CASE GetPage
  <2> DEFINE n == Cardinality(Items(walk))
             k == Left(n, walk.limit, walk.offset)
  <2>1. /\ wpc = "page" /\ walk.limit \in Nat /\ walk.offset \in Nat
        /\ wpc' = IF walk.kind \in CountFirst \cup {"notifications"} THEN "answer"
                  ELSE "count"
        /\ shifts' = IF Tied(walk) THEN shifts \cup {"tied"} ELSE shifts
        /\ UNCHANGED <<tables, stable, got, gap>>
    BY <1>6 DEF GetPage, WalkTypeOK
  <2>2. /\ walk'.kind = walk.kind /\ walk'.offset = walk.offset /\ walk'.start = walk.start
        /\ walk'.viewer = walk.viewer /\ walk'.subject = walk.subject
        /\ walk'.asked = walk.asked /\ walk'.limit = walk.limit
    BY <1>6, GetPageFields DEF KeepsParameters
  <2>3. Items(walk)' = Items(walk) /\ (\A e : Place(e)' = Place(e))
    BY <2>1, <2>2, SameList
  <2>4. ~Tied(walk) /\ shifts' = shifts
    BY <2>1
  <2>5. /\ \A e \in Items(walk) :
              /\ Place(e) \in Nat /\ Place(e) < n
              /\ e \in ItemsOf(walk'.page) <=>
                    walk.offset <= Place(e) /\ Place(e) < walk.offset + Len(walk'.page)
    BY <1>6, <2>4, PageByPlace
  <2>6. /\ n \in Nat /\ Len(walk'.page) = k /\ k \in Nat
        /\ Left(n, walk.limit + 1, walk.offset) \in Nat
        /\ walk'.total = IF walk.kind # "notifications" THEN walk.total
                         ELSE walk.offset + Left(n, walk.limit + 1, walk.offset)
    BY <1>6, PageOfList
  <2>7. PrefixSeen /\ RestPromised /\ walk.page = <<>> /\ walk.asked = TRUE
    BY <2>1, <2>2, <2>4 DEF MissedInv, PhaseInv
  <2>8. Walking /\ stable \subseteq Items(walk)
    BY <2>1, <2>7 DEF Walking, PhaseInv
  <2>9. ASSUME NEW e \in stable, Place(e) < walk.offset + k PROVE e \in Seen'
    <3>1. CASE Place(e) < walk.offset
      <4>1. Reached = walk.offset /\ Seen = got
        BY <2>7, ItemsOfEmpty, <2>1 DEF Reached, Seen
      <4>2. e \in got
        BY <2>7, <2>8, <3>1, <4>1 DEF PrefixSeen
      <4>3. QED
        BY <2>1, <4>2 DEF Seen
    <3>2. CASE walk.offset <= Place(e)
      BY <2>5, <2>6, <2>8, <2>9, <3>2 DEF Seen
    <3>3. QED
      BY <2>1, <2>5, <2>8, <3>1, <3>2
  <2>10. PrefixSeen'
    BY <2>1, <2>2, <2>3, <2>6, <2>9 DEF PrefixSeen, Reached
  <2>11. n <= walk.offset + k => stable \subseteq Seen'
    <3> SUFFICES ASSUME n <= walk.offset + k, NEW e \in stable PROVE e \in Seen'
      OBVIOUS
    <3>1. Place(e) \in Nat /\ Place(e) < n
      BY <2>5, <2>8
    <3>2. QED
      BY <2>1, <2>6, <2>9, <3>1
  <2>12. RestPromised'
    <3>1. CASE TotalFirst
      <4>1. /\ wpc' = "answer" /\ walk'.total = walk.total /\ walk.kind # "search"
        BY <2>1, <2>6, <3>1 DEF TotalFirst, CountFirst, ByName
      <4>2. walk.total = n \/ "grew" \in gap
        BY <2>1, <2>7, <3>1 DEF RestPromised
      <4>3. walk.total = n /\ ~HasMore(walk)' => n <= walk.offset + k
        BY <2>1, <2>2, <2>6, <4>1 DEF HasMore
      <4>4. QED
        BY <2>1, <2>2, <2>11, <3>1, <4>1, <4>2, <4>3 DEF RestPromised, TotalFirst
    <3>2. CASE walk.kind = "notifications"
      <4>1. wpc' = "answer"
        BY <2>1, <3>2
      <4>2. ~HasMore(walk)' => n <= walk.offset + k
        BY <2>1, <2>2, <2>6, <3>2 DEF HasMore, Left, Least
      <4>3. QED
        BY <2>1, <2>11, <4>1, <4>2 DEF RestPromised
    <3>3. CASE ~TotalFirst /\ walk.kind # "notifications"
      <4>1. wpc' = "count"
        BY <2>1, <3>3 DEF TotalFirst
      <4>2. n <= walk.offset + k \/ n > walk.offset + walk.limit
        BY <2>1, <2>6 DEF Left, Least
      <4>3. QED
        BY <2>1, <2>2, <2>3, <2>11, <4>1, <4>2 DEF RestPromised
    <3>4. QED
      BY <3>1, <3>2, <3>3
  <2>13. QED
    BY <2>10, <2>12
<1>7. CASE Answer
  <2>1. /\ wpc = "answer"
        /\ wpc' = IF ~HasMore(walk) THEN "done"
                  ELSE IF walk.page = <<>> THEN "stuck" ELSE "next"
        /\ got' = got \cup ItemsOf(walk.page)
        /\ UNCHANGED <<tables, stable, shifts, gap>>
    BY <1>7 DEF Answer
  <2>2. /\ walk'.kind = walk.kind /\ walk'.offset = walk.offset + Len(walk.page)
        /\ walk'.start = walk.start /\ walk'.viewer = walk.viewer
        /\ walk'.subject = walk.subject /\ walk'.asked = walk.asked /\ walk'.page = <<>>
    BY <1>7, AnswerFields DEF KeepsParameters
  <2>3. Items(walk)' = Items(walk) /\ (\A e : Place(e)' = Place(e))
    BY <2>1, <2>2, SameList
  <2>4. Reached' = Reached /\ Seen' = Seen /\ got' = Seen
    BY <2>1, <2>2, ItemsOfEmpty DEF Reached, Seen, WalkTypeOK
  <2>5. PrefixSeen /\ RestPromised
    BY <2>1, <2>2 DEF MissedInv
  <2>6. PrefixSeen'
    BY <2>1, <2>2, <2>3, <2>4, <2>5 DEF PrefixSeen, Walking
  <2>7. RestPromised'
    BY <2>1, <2>2, <2>4, <2>5 DEF RestPromised, TotalFirst
  <2>8. QED
    BY <2>6, <2>7
<1>8. QED
  BY <1>1, <1>2, <1>3, <1>4, <1>5, <1>6, <1>7, DirectorySteps

\* Nothing has come into the list and its order has not changed.
Shrinking == "grew" \notin shifts /\ "moved" \notin shifts /\ "tied" \notin shifts

\* What the walk has seen and is still in the list lies before the place reached.
SeenLiesBefore == Walking => \A e \in Seen \cap Items(walk) : Place(e) < Reached

\* No page repeats an item of an earlier one.
NothingTwice ==
    /\ HasPage => got \cap ItemsOf(walk.page) = {}
    /\ again = {}

\* The inductive invariant behind AgainOnlyByShift.
AgainInv == Shrinking => SeenLiesBefore /\ NothingTwice

\* AgainInv is preserved by every step.
LEMMA AgainInductive ==
    ASSUME DirectoryTypeOK, DirectoryTypeOK', WalkIsRecord, PhaseInv, AgainInv,
           [DirectoryNext]_<<vars, directoryVars>>
    PROVE  AgainInv'
<1> SUFFICES ASSUME Shrinking' PROVE SeenLiesBefore' /\ NothingTwice'
  BY DEF AgainInv
<1> WalkTypeOK /\ TablesTypeOK /\ TablesTypeOK' /\ WalkTypeOK'
  BY DEF DirectoryTypeOK
<1> USE DEF Shrinking
<1>1. CASE Change
  <2>1. CASE ~Walking
    <3>1. /\ walk' = walk /\ wpc' = wpc /\ got' = got /\ again' = again
          /\ shifts' = shifts /\ ~Walking'
      BY <1>1, <2>1 DEF Change, Walking
    <3>2. QED
      BY <3>1 DEF AgainInv, SeenLiesBefore, NothingTwice, HasPage, TotalFirst
  <2>2. CASE Walking
    <3>1. /\ walk' = walk /\ wpc' = wpc /\ got' = got /\ again' = again
          /\ shifts \subseteq shifts' /\ Items(walk)' \subseteq Items(walk)
      BY <1>1, <2>2, ChangeOfList
    <3>2. SeenLiesBefore /\ NothingTwice
      BY <3>1 DEF AgainInv
    <3>3. SeenLiesBefore'
      <4> SUFFICES ASSUME NEW e \in Seen' \cap Items(walk)' PROVE Place(e)' < Reached'
        BY DEF SeenLiesBefore
      <4>1. Place(e)' <= Place(e) /\ Place(e) \in Nat /\ Place(e)' \in Nat
        BY <1>1, <2>2, <3>1, ChangeOfPlaces
      <4>2. Place(e) < Reached
        BY <2>2, <3>1, <3>2 DEF SeenLiesBefore, Seen
      <4>3. QED
        BY <3>1, <4>1, <4>2 DEF Reached, WalkTypeOK
    <3>4. NothingTwice'
      BY <3>1, <3>2 DEF NothingTwice, HasPage, TotalFirst
    <3>5. QED
      BY <3>3, <3>4
  <2>3. QED
    BY <2>1, <2>2
<1>2. CASE Stands /\ Goes
  <2>1. Items(walk)' = Items(walk) /\ (\A e : Place(e)' = Place(e))
    BY <1>2, SameList DEF Stands, KeepsParameters
  <2>2. (Walking' => Walking) /\ (HasPage' => HasPage)
    BY <1>2 DEF Stands, Goes, Walking, PhaseInv, HasPage, TotalFirst, KeepsParameters
  <2>3. /\ walk'.offset = walk.offset /\ walk'.page = walk.page
        /\ got' = got /\ again' = again /\ shifts' = shifts
    BY <1>2 DEF Stands, KeepsParameters
  <2>4. QED
    BY <2>1, <2>2, <2>3 DEF AgainInv, SeenLiesBefore, NothingTwice, Reached, Seen
<1>3. CASE Begins
  <2>1. PICK kind \in Kinds, n \in Names \cup {None}, viewer \in Viewers,
             rawLimit \in RawLimits, rawOffset \in RawOffsets :
                BeginWalk(kind, n, viewer, rawLimit, rawOffset)
    BY <1>3 DEF Begins
  <2>2. wpc' = "next" /\ again' = again /\ shifts' = shifts
    BY <2>1 DEF BeginWalk
  <2>3. walk'.asked = FALSE
    BY <2>1, BeginWalkFields, Zenon
  <2>4. QED
    BY <2>2, <2>3 DEF AgainInv, SeenLiesBefore, NothingTwice, Walking, HasPage
<1>4. CASE Lookup
  <2>1. /\ wpc' \in {"check", "count", "page"} /\ wpc = "next" /\ got' = got
        /\ again' = again /\ shifts \subseteq shifts'
    BY <1>4 DEF Lookup
  <2>2. UNCHANGED tables
    BY <1>4 DEF Lookup
  <2>3. wpc' = "count" => TotalFirst
    BY <1>4 DEF Lookup, TotalFirst, CountFirst
  <2>4. /\ walk'.page = walk.page /\ walk'.kind = walk.kind /\ walk'.offset = walk.offset
        /\ walk'.viewer = walk.viewer /\ walk.page = <<>>
    BY <1>4, <2>1, LookupFields DEF KeepsParameters, PhaseInv
  <2>5. NothingTwice' /\ SeenLiesBefore
    BY <2>1, <2>3, <2>4 DEF AgainInv, NothingTwice, HasPage, TotalFirst
  <2>6. CASE walk.asked = FALSE
    <3>1. Seen' = {}
      BY <2>1, <2>4, <2>6, ItemsOfEmpty DEF Seen, PhaseInv
    <3>2. QED
      BY <2>5, <3>1 DEF SeenLiesBefore
  <2>7. CASE walk.asked = TRUE
    <3>1. walk'.subject = walk.subject
      BY <1>4, <2>7, LookupHistory
    <3>2. Items(walk)' = Items(walk) /\ (\A e : Place(e)' = Place(e))
      BY <2>2, <2>4, <3>1, SameList
    <3>3. Walking
      BY <2>1, <2>7 DEF Walking
    <3>4. QED
      BY <2>1, <2>4, <2>5, <3>2, <3>3 DEF SeenLiesBefore, Reached, Seen
  <2>8. QED
    BY <2>6, <2>7 DEF WalkTypeOK
<1>5. CASE CountRows
  <2>1. /\ wpc = "count" /\ wpc' = IF TotalFirst THEN "page" ELSE "answer"
        /\ UNCHANGED <<tables, got, again, shifts>>
    BY <1>5 DEF CountRows, TotalFirst
  <2>2. /\ walk'.page = walk.page /\ walk'.kind = walk.kind /\ walk'.offset = walk.offset
        /\ walk'.viewer = walk.viewer /\ walk'.subject = walk.subject
        /\ walk'.asked = walk.asked
    BY <1>5, CountRowsFields DEF KeepsParameters
  <2>3. Items(walk)' = Items(walk) /\ (\A e : Place(e)' = Place(e))
    BY <2>1, <2>2, SameList
  <2>4. (Walking' => Walking) /\ (HasPage' => HasPage)
    BY <2>1, <2>2 DEF Walking, HasPage, TotalFirst
  <2>5. QED
    BY <2>1, <2>2, <2>3, <2>4 DEF AgainInv, SeenLiesBefore, NothingTwice, Reached, Seen
<1>6. CASE GetPage
  <2>1. /\ wpc = "page" /\ walk.offset \in Nat
        /\ shifts' = IF Tied(walk) THEN shifts \cup {"tied"} ELSE shifts
        /\ UNCHANGED <<tables, got, again>>
    BY <1>6 DEF GetPage, WalkTypeOK
  <2>2. /\ walk'.kind = walk.kind /\ walk'.offset = walk.offset
        /\ walk'.viewer = walk.viewer /\ walk'.subject = walk.subject
    BY <1>6, GetPageFields DEF KeepsParameters
  <2>3. Items(walk)' = Items(walk) /\ (\A e : Place(e)' = Place(e))
    BY <2>1, <2>2, SameList
  <2>4. ~Tied(walk) /\ shifts' = shifts
    BY <2>1
  <2>5. /\ \A e \in Items(walk) :
              /\ Place(e) \in Nat
              /\ e \in ItemsOf(walk'.page) <=>
                    walk.offset <= Place(e) /\ Place(e) < walk.offset + Len(walk'.page)
        /\ ItemsOf(walk'.page) \subseteq Items(walk)
    BY <1>6, <2>4, PageByPlace
  <2>6. SeenLiesBefore /\ NothingTwice /\ walk.page = <<>> /\ walk.asked = TRUE
    BY <2>1, <2>4 DEF AgainInv, PhaseInv
  <2>7. \A e \in got \cap Items(walk) : Place(e) < walk.offset
    <3>1. Reached = walk.offset /\ got \subseteq Seen /\ Walking
      BY <2>1, <2>6, ItemsOfEmpty DEF Reached, Seen, Walking
    <3>2. QED
      BY <2>6, <3>1 DEF SeenLiesBefore
  <2>8. got \cap ItemsOf(walk'.page) = {}
    <3> SUFFICES ASSUME NEW e \in got \cap ItemsOf(walk'.page) PROVE FALSE
      OBVIOUS
    <3>1. e \in Items(walk) /\ Place(e) \in Nat /\ walk.offset <= Place(e)
      BY <2>5
    <3>2. QED
      BY <2>1, <2>7, <3>1
  <2>9. SeenLiesBefore'
    <3> SUFFICES ASSUME NEW e \in Seen' \cap Items(walk)' PROVE Place(e)' < Reached'
      BY DEF SeenLiesBefore
    <3>1. e \in Items(walk) /\ Place(e) \in Nat /\ Len(walk'.page) \in Nat
      BY <2>3, <2>5 DEF WalkTypeOK
    <3>2. CASE e \in got
      BY <2>1, <2>2, <2>3, <2>7, <3>1, <3>2 DEF Reached
    <3>3. CASE e \in ItemsOf(walk'.page)
      BY <2>2, <2>3, <2>5, <3>1, <3>3 DEF Reached
    <3>4. QED
      BY <2>1, <3>2, <3>3 DEF Seen
  <2>10. QED
    BY <2>1, <2>6, <2>8, <2>9 DEF NothingTwice
<1>7. CASE Answer
  <2>1. /\ wpc = "answer" /\ wpc' \in {"done", "stuck", "next"}
        /\ got' = got \cup ItemsOf(walk.page)
        /\ again' = again \cup (got \cap ItemsOf(walk.page))
        /\ UNCHANGED <<tables, shifts>>
    BY <1>7 DEF Answer
  <2>2. /\ walk'.kind = walk.kind /\ walk'.offset = walk.offset + Len(walk.page)
        /\ walk'.viewer = walk.viewer
        /\ walk'.subject = walk.subject /\ walk'.asked = walk.asked /\ walk'.page = <<>>
    BY <1>7, AnswerFields DEF KeepsParameters
  <2>3. Items(walk)' = Items(walk) /\ (\A e : Place(e)' = Place(e))
    BY <2>1, <2>2, SameList
  <2>4. Reached' = Reached /\ Seen' = Seen
    BY <2>1, <2>2, ItemsOfEmpty DEF Reached, Seen, WalkTypeOK
  <2>5. SeenLiesBefore /\ NothingTwice
    BY <2>1 DEF AgainInv
  <2>6. SeenLiesBefore'
    BY <2>1, <2>2, <2>3, <2>4, <2>5 DEF SeenLiesBefore, Walking
  <2>7. NothingTwice'
    BY <2>1, <2>5 DEF NothingTwice, HasPage
  <2>8. QED
    BY <2>6, <2>7
<1>8. QED
  BY <1>1, <1>2, <1>3, <1>4, <1>5, <1>6, <1>7, DirectorySteps

\* Nothing has come or left between the two statements of a request.
Quiet == "grew" \notin gap /\ "shrank" \notin gap

\* An empty page is one behind the end, and promises nothing.
EmptyPromisesNothing ==
    /\ wpc = "page" /\ TotalFirst => walk.total = Cardinality(Items(walk))
    /\ wpc = "count" /\ ~TotalFirst =>
          (walk.page = <<>> => Cardinality(Items(walk)) <= walk.offset)
    /\ wpc = "answer" => (walk.page = <<>> => ~HasMore(walk))
    /\ wpc # "stuck"

\* The inductive invariant behind StuckOnlyByShift.
StuckInv == Quiet /\ Fits(walk.rawLimit) => EmptyPromisesNothing

\* StuckInv is preserved by every step.
LEMMA StuckInductive ==
    ASSUME DirectoryTypeOK, DirectoryTypeOK', WalkIsRecord, PhaseInv, LimitInv, StuckInv,
           [DirectoryNext]_<<vars, directoryVars>>
    PROVE  StuckInv'
<1> SUFFICES ASSUME Quiet', Fits(walk'.rawLimit) PROVE EmptyPromisesNothing'
  BY DEF StuckInv, Fits
<1> WalkTypeOK /\ TablesTypeOK /\ TablesTypeOK' /\ WalkTypeOK'
  BY DEF DirectoryTypeOK
<1> USE DEF Quiet
<1>1. CASE Change
  <2>1. CASE ~Walking
    <3>1. walk' = walk /\ wpc' = wpc /\ gap' = gap
      BY <1>1, <2>1 DEF Change, Walking
    <3>2. wpc \notin {"check", "count", "page", "answer"}
      BY <2>1 DEF Walking, PhaseInv
    <3>3. QED
      BY <3>1, <3>2 DEF StuckInv, EmptyPromisesNothing, Fits
  <2>2. CASE Walking
    <3>1. /\ walk' = walk /\ wpc' = wpc /\ gap \subseteq gap'
          /\ Between => Items(walk)' = Items(walk)
      BY <1>1, <2>2, ChangeOfList
    <3>2. EmptyPromisesNothing
      BY <3>1 DEF StuckInv
    <3>3. QED
      BY <3>1, <3>2 DEF EmptyPromisesNothing, Between, TotalFirst, HasMore
  <2>3. QED
    BY <2>1, <2>2
<1>2. CASE Stands /\ Goes
  <2>1. Items(walk)' = Items(walk)
    BY <1>2, SameList DEF Stands, KeepsParameters
  <2>2. /\ wpc' \in {"page", "answer", "stuck"} => wpc' = wpc
        /\ wpc' = "count" => wpc = "count" \/ TotalFirst
    BY <1>2 DEF Stands, Goes, PhaseInv
  <2>3. /\ walk'.offset = walk.offset /\ walk'.total = walk.total /\ walk'.kind = walk.kind
        /\ walk'.limit = walk.limit /\ walk'.page = walk.page /\ gap' = gap
        /\ walk'.rawLimit = walk.rawLimit
    BY <1>2 DEF Stands, KeepsParameters
  <2>4. QED
    BY <2>1, <2>2, <2>3 DEF StuckInv, EmptyPromisesNothing, TotalFirst, HasMore
<1>3. CASE Begins
  <2>1. wpc' = "next"
    BY <1>3 DEF Begins, BeginWalk
  <2>2. QED
    BY <2>1 DEF EmptyPromisesNothing
<1>4. CASE Lookup
  <2>1. wpc' \in {"check", "count", "page"}
    BY <1>4 DEF Lookup
  <2>2. (wpc' = "page" => ~TotalFirst) /\ (wpc' = "count" => TotalFirst)
    BY <1>4 DEF Lookup, TotalFirst, CountFirst
  <2>3. walk'.kind = walk.kind
    BY <1>4, LookupFields DEF KeepsParameters
  <2>4. QED
    BY <2>1, <2>2, <2>3 DEF EmptyPromisesNothing, TotalFirst
<1>5. CASE CountRows
  <2>1. /\ wpc = "count" /\ gap' = gap
        /\ wpc' = IF TotalFirst THEN "page" ELSE "answer"
    BY <1>5 DEF CountRows, TotalFirst
  <2>2. /\ walk'.page = walk.page /\ walk'.kind = walk.kind /\ walk'.offset = walk.offset
        /\ walk'.limit = walk.limit /\ walk'.total = Cardinality(Items(walk))
        /\ walk'.rawLimit = walk.rawLimit
    BY <1>5, CountRowsFields DEF KeepsParameters
  <2>3. Items(walk)' = Items(walk)
    BY <1>5, CountRowsFields, SameList DEF KeepsParameters, CountRows
  <2>4. CASE TotalFirst
    BY <2>1, <2>2, <2>3, <2>4 DEF EmptyPromisesNothing, TotalFirst
  <2>5. CASE ~TotalFirst
    <3>1. EmptyPromisesNothing
      BY <2>1, <2>2 DEF StuckInv
    <3>2. walk.limit \in Nat /\ walk.offset \in Nat /\ Cardinality(Items(walk)) \in Nat
      BY <2>1, <2>5, ItemsFinite DEF PhaseInv, HasPage, WalkTypeOK
    <3>3. walk.page = <<>> => Cardinality(Items(walk)) <= walk.offset
      BY <2>1, <2>5, <3>1 DEF EmptyPromisesNothing
    <3>4. walk'.page = <<>> => ~HasMore(walk)'
      BY <2>2, <3>2, <3>3, ItemsOfEmpty DEF HasMore
    <3>5. QED
      BY <2>1, <2>5, <3>4 DEF EmptyPromisesNothing
  <2>6. QED
    BY <2>4, <2>5
<1>6. CASE GetPage
  <2> DEFINE n == Cardinality(Items(walk))
             k == Left(n, walk.limit, walk.offset)
  <2>1. /\ wpc = "page" /\ walk.offset \in Nat /\ gap' = gap
        /\ wpc' = IF walk.kind \in CountFirst \cup {"notifications"} THEN "answer"
                  ELSE "count"
    BY <1>6 DEF GetPage, WalkTypeOK
  <2>2. /\ walk'.kind = walk.kind /\ walk'.offset = walk.offset
        /\ walk'.limit = walk.limit /\ walk'.rawLimit = walk.rawLimit
    BY <1>6, GetPageFields DEF KeepsParameters
  <2>3. Items(walk)' = Items(walk)
    BY <1>6, GetPageFields, SameList DEF KeepsParameters, GetPage
  <2>4. walk.limit \in Nat \ {0}
    BY <2>2 DEF LimitInv
  <2>5. /\ n \in Nat /\ (walk'.page = <<>> <=> k = 0)
        /\ walk'.total = IF walk.kind # "notifications" THEN walk.total
                         ELSE walk.offset + Left(n, walk.limit + 1, walk.offset)
    BY <1>6, PageOfList
  <2>6. n \in Nat /\ (walk'.page = <<>> => n <= walk.offset)
    BY <1>6, <2>1, <2>4, <2>5, ItemsFinite DEF Left, Least, WalkTypeOK
  <2>7. EmptyPromisesNothing
    BY <2>1, <2>2 DEF StuckInv
  <2>8. CASE TotalFirst
    <3>1. /\ wpc' = "answer" /\ walk'.total = n /\ walk.kind # "search"
      BY <2>1, <2>5, <2>7, <2>8 DEF TotalFirst, CountFirst, ByName, EmptyPromisesNothing
    <3>2. walk'.page = <<>> => ~HasMore(walk)'
      BY <2>1, <2>2, <2>6, <3>1, ItemsOfEmpty DEF HasMore
    <3>3. QED
      BY <3>1, <3>2 DEF EmptyPromisesNothing
  <2>9. CASE walk.kind = "notifications"
    <3>1. wpc' = "answer"
      BY <2>1, <2>9
    <3>2. walk'.page = <<>> => ~HasMore(walk)'
      BY <2>1, <2>2, <2>5, <2>6, <2>9, ItemsOfEmpty DEF HasMore, Left
    <3>3. QED
      BY <3>1, <3>2 DEF EmptyPromisesNothing
  <2>10. CASE ~TotalFirst /\ walk.kind # "notifications"
    <3>1. wpc' = "count"
      BY <2>1, <2>10 DEF TotalFirst
    <3>2. QED
      BY <2>2, <2>3, <2>6, <3>1 DEF EmptyPromisesNothing
  <2>11. QED
    BY <2>8, <2>9, <2>10
<1>7. CASE Answer
  <2>1. /\ wpc = "answer" /\ gap' = gap
        /\ wpc' = IF ~HasMore(walk) THEN "done"
                  ELSE IF walk.page = <<>> THEN "stuck" ELSE "next"
    BY <1>7 DEF Answer
  <2>2. walk'.rawLimit = walk.rawLimit
    BY <1>7, AnswerFields DEF KeepsParameters
  <2>3. EmptyPromisesNothing
    BY <2>1, <2>2 DEF StuckInv
  <2>4. wpc' \in {"done", "next"}
    BY <2>1, <2>3 DEF EmptyPromisesNothing
  <2>5. QED
    BY <2>4 DEF EmptyPromisesNothing
<1>8. QED
  BY <1>1, <1>2, <1>3, <1>4, <1>5, <1>6, <1>7, DirectorySteps

-----------------------------------------------------------------------------
(* What walks promise *)

\* At the beginning there is no walk.
LEMMA WalkInvariantsInit ==
    ASSUME DirectoryInit
    PROVE  PhaseInv /\ LimitInv /\ MissedInv /\ AgainInv /\ StuckInv
<1>1. /\ wpc = "idle" /\ got = {} /\ again = {} /\ walk.page = <<>>
      /\ walk.offset = 0 /\ walk.start = 0 /\ walk.rawOffset = 0
      /\ walk.limit = DefaultLimit
  BY DEF DirectoryInit, NothingAsked, Idle
<1>2. walk.asked = FALSE
  BY DEF DirectoryInit, NothingAsked, Idle
<1>3. ~Walking /\ ~HasPage
  BY <1>1 DEF Walking, HasPage
<1>4. PhaseInv
  BY <1>1, <1>2, <1>3 DEF PhaseInv
<1>5. LimitInv
  BY <1>1, LimitsAssumption DEF LimitInv
<1>6. MissedInv
  BY <1>1, <1>3 DEF MissedInv, PrefixSeen, RestPromised
<1>7. AgainInv
  BY <1>1, <1>3 DEF AgainInv, SeenLiesBefore, NothingTwice
<1>8. StuckInv
  BY <1>1 DEF StuckInv, EmptyPromisesNothing
<1>9. QED
  BY <1>4, <1>5, <1>6, <1>7, <1>8

\* The inductive invariants hold all the time.
LEMMA WalkInvariants ==
    DirectorySpec => [](PhaseInv /\ LimitInv /\ MissedInv /\ AgainInv /\ StuckInv)
<1> DEFINE Inv == PhaseInv /\ LimitInv /\ MissedInv /\ AgainInv /\ StuckInv
           Typed == WalkIsRecord /\ DirectoryTypeOK
<1>1. DirectoryInit => Inv
  BY WalkInvariantsInit
<1>2. Typed /\ Typed' /\ Inv /\ [DirectoryNext]_<<vars, directoryVars>> => Inv'
  BY PhaseInductive, LimitInductive, MissedInductive, AgainInductive, StuckInductive
<1>3. DirectorySpec => []Typed
  BY TypesInvariant
<1> HIDE DEF Inv, Typed
<1>4. DirectorySpec => []Inv
  BY <1>1, <1>2, <1>3, PTL DEF DirectorySpec
<1>5. QED
  BY <1>4 DEF Inv

\* Safety: no page is larger than MaxLimit, and only a limit of users' lists or an
\* offset of notifications that does not fit is spoilt by its conversion or refused.
THEOREM PaginationIsSane == DirectorySpec => []PaginationSane
<1>1. DirectoryTypeOK /\ LimitInv => PaginationSane
  BY LimitsAssumption DEF DirectoryTypeOK, WalkTypeOK, LimitInv, PaginationSane
<1>2. QED
  BY <1>1, WalkInvariants, DirectoryTypeCorrect, PTL

\* Safety: a walk misses, repeats or is stuck only where the list was shifted under it
\* in the way that MissedOnlyByShift, AgainOnlyByShift and StuckOnlyByShift name.
THEOREM WalksAreExact == DirectorySpec => []WalkExact
<1>1. MissedInv => MissedOnlyByShift
  BY DEF MissedInv, Growing, RestPromised, MissedOnlyByShift, TotalFirst
<1>2. AgainInv => AgainOnlyByShift
  BY DEF AgainInv, Shrinking, NothingTwice, AgainOnlyByShift
<1>3. StuckInv => StuckOnlyByShift
  BY DEF StuckInv, Quiet, EmptyPromisesNothing, StuckOnlyByShift
<1>4. QED
  BY <1>1, <1>2, <1>3, WalkInvariants, PTL DEF WalkExact
=============================================================================
