---------------------------- MODULE ProfilePrivacy ----------------------------
(***************************************************************************)
(* A user's settings (internal/settings) and the requests for the user's   *)
(* profile and follower lists that one of them, profile_public, decides    *)
(* (internal/users).  UpdateSettings reads all settings, changes those the *)
(* request names and writes all back, in two statements; reading them      *)
(* creates the row of defaults if there is none, in two statements too; a  *)
(* profile request checks the privacy and then reads what it shows.        *)
(*                                                                         *)
(* Users share no row of user_settings, so the module is about one.  Every *)
(* setting is a boolean: settings are the set of those that are on.        *)
(***************************************************************************)
EXTENDS Naturals

CONSTANTS
    Fields,     \* the settings
    Public,     \* profile_public
    DefaultOn,  \* those on by default, in Go and in the table's definition
    Updates,    \* PUT /api/settings
    Gets,       \* GET /api/settings
    Views,      \* requests for the profile or its lists
    DbMayFail   \* whether a statement may return an error

\* Profiles are public by default.
ASSUME PublicAssumption == Public \in DefaultOn
ASSUME DefaultAssumption == DefaultOn \subseteq Fields
ASSUME RequestsAssumption == Updates \cap Gets = {}
ASSUME DbMayFailAssumption == DbMayFail \in BOOLEAN

VARIABLES
    exists,     \* whether the user has a row in user_settings
    on,         \* the settings that are on in it
    turnOn,     \* turnOn[w], turnOff[w]: what update w asks for
    turnOff,
    pc,         \* where an update or get is
    draft,      \* draft[w]: what update w has read, changed as it asks
    byOwner,    \* the views that are the user's own
    vpc,        \* where view v is
    asked,      \* history: the settings on by what was last asked for each
    behind,     \* history: behind[w] = the settings others have asked for since
                \*   update w read
    overlapped, \* history: settings an update has written that was behind
    excused     \* history: views during which profile_public was asked for,
                \*   or overlapped

rowVars == <<exists, on>>
requestVars == <<turnOn, turnOff, byOwner>>
histVars == <<asked, behind, overlapped, excused>>
vars == <<exists, on, turnOn, turnOff, pc, draft, byOwner, vpc, asked, behind,
          overlapped, excused>>

\* The settings in force.
Current == IF exists THEN on ELSE DefaultOn
Asks(w) == turnOn[w] \cup turnOff[w]
InProgress == {v \in Views : vpc[v] \in {"check", "read"}}

TypeOK ==
    /\ exists \in BOOLEAN
    /\ on \in SUBSET Fields
    /\ ~exists => on = {}
    /\ turnOn \in [Updates -> SUBSET Fields]
    /\ turnOff \in [Updates -> SUBSET Fields]
    /\ pc \in [Updates \cup Gets -> {"new", "write", "create", "done", "failed"}]
    /\ draft \in [Updates -> SUBSET Fields]
    /\ byOwner \in SUBSET Views
    /\ vpc \in [Views -> {"new", "check", "read", "shown", "private", "failed"}]
    /\ asked \in SUBSET Fields
    /\ behind \in [Updates -> SUBSET Fields]
    /\ overlapped \in SUBSET Fields
    /\ excused \in SUBSET Views

Init ==
    /\ exists = FALSE
    /\ on = {}
    /\ turnOn \in [Updates -> SUBSET Fields]
    /\ turnOff \in [Updates -> SUBSET Fields]
    /\ \A w \in Updates : turnOn[w] \cap turnOff[w] = {}
    /\ pc = [r \in Updates \cup Gets |-> "new"]
    /\ draft = [w \in Updates |-> {}]
    /\ byOwner \in SUBSET Views
    /\ vpc = [v \in Views |-> "new"]
    /\ asked = DefaultOn
    /\ behind = [w \in Updates |-> {}]
    /\ overlapped = {}
    /\ excused = {}

Goto(r, from, to) == pc[r] = from /\ pc' = [pc EXCEPT ![r] = to]
VGoto(v, from, to) == vpc[v] = from /\ vpc' = [vpc EXCEPT ![v] = to]

-----------------------------------------------------------------------------
(* UpdateSettings *)

\* Read the row, or take the defaults, and apply the request.
ReadForUpdate(w) ==
    /\ Goto(w, "new", "write")
    /\ draft' = [draft EXCEPT ![w] = (Current \ turnOff[w]) \cup turnOn[w]]
    /\ behind' = [behind EXCEPT ![w] = {}]
    /\ UNCHANGED <<rowVars, requestVars, vpc, asked, overlapped, excused>>

\* What the history records of the write: requests in progress fall behind, and
\* so does w's own write where w was behind and did not ask.
RecordWrite(w) ==
    /\ asked' = (asked \ turnOff[w]) \cup turnOn[w]
    /\ behind' = [x \in Updates |-> behind[x] \cup Asks(w)]
    /\ overlapped' = (overlapped \cup behind[w]) \ Asks(w)
    /\ excused' = IF Public \in asked' \cup overlapped' THEN excused \cup InProgress
                                                        ELSE excused

\* INSERT ... ON CONFLICT DO UPDATE of all settings.
Upsert(w) ==
    /\ Goto(w, "write", "done")
    /\ exists' = TRUE
    /\ on' = draft[w]
    /\ RecordWrite(w)
    /\ UNCHANGED <<requestVars, draft, vpc>>

-----------------------------------------------------------------------------
(* GetOrCreateSettings *)

ReadOrCreate(g) ==
    /\ \/ exists /\ Goto(g, "new", "done")
       \/ ~exists /\ Goto(g, "new", "create")
    /\ UNCHANGED <<rowVars, requestVars, draft, vpc, histVars>>

\* Faulty variant: a conflict resets the row to the defaults.
CreateDefaultResetting(g) ==
    /\ Goto(g, "create", "done")
    /\ exists' = TRUE
    /\ on' = DefaultOn
    /\ UNCHANGED <<requestVars, draft, vpc, histVars>>

\* INSERT ... ON CONFLICT DO UPDATE SET user_id = EXCLUDED.user_id: a row that
\* was inserted since stays as it is.
CreateDefault(g) ==
    /\ Goto(g, "create", "done")
    /\ exists' = TRUE
    /\ on' = Current
    /\ UNCHANGED <<requestVars, draft, vpc, histVars>>

\* A statement of an update or a get fails and the request ends with an error.
RequestFails(r) ==
    /\ DbMayFail
    /\ pc[r] \notin {"done", "failed"}
    /\ pc' = [pc EXCEPT ![r] = "failed"]
    /\ UNCHANGED <<rowVars, requestVars, draft, vpc, histVars>>

-----------------------------------------------------------------------------
(* GetUserWithStats, GetFollowers, GetFollowing *)

\* The user is looked up by name.
BeginView(v) ==
    /\ VGoto(v, "new", "check")
    /\ excused' = IF Public \in asked \cup overlapped THEN excused \cup {v} ELSE excused
    /\ UNCHANGED <<rowVars, requestVars, pc, draft, asked, behind, overlapped>>

\* Faulty variant: isProfileVisibleTo drops the error of IsProfilePublic, which
\* returns true along with it.
CheckPrivacyIgnoringError(v) ==
    /\ \/ /\ v \in byOwner \/ Public \in Current \/ DbMayFail
          /\ VGoto(v, "check", "read")
       \/ /\ v \notin byOwner /\ Public \notin Current
          /\ VGoto(v, "check", "private")
    /\ UNCHANGED <<rowVars, requestVars, pc, draft, histVars>>

\* isProfileVisibleTo: the owner sees the profile unchecked; no row means public.
CheckPrivacy(v) ==
    /\ \/ /\ v \in byOwner \/ Public \in Current
          /\ VGoto(v, "check", "read")
       \/ /\ v \notin byOwner /\ Public \notin Current
          /\ VGoto(v, "check", "private")
    /\ UNCHANGED <<rowVars, requestVars, pc, draft, histVars>>

\* The counts and lists are read, with no second look at the privacy.
ShowProfile(v) ==
    /\ VGoto(v, "read", "shown")
    /\ UNCHANGED <<rowVars, requestVars, pc, draft, histVars>>

\* The lookup, the check or one of the reads fails.
ViewFails(v) ==
    /\ DbMayFail
    /\ vpc[v] \in {"check", "read"}
    /\ vpc' = [vpc EXCEPT ![v] = "failed"]
    /\ UNCHANGED <<rowVars, requestVars, pc, draft, histVars>>

-----------------------------------------------------------------------------
Next ==
    \/ \E w \in Updates : ReadForUpdate(w) \/ Upsert(w)
    \/ \E g \in Gets : ReadOrCreate(g) \/ CreateDefault(g)
    \/ \E r \in Updates \cup Gets : RequestFails(r)
    \/ \E v \in Views : BeginView(v) \/ CheckPrivacy(v) \/ ShowProfile(v) \/ ViewFails(v)

Spec == Init /\ [][Next]_vars

-----------------------------------------------------------------------------
(* Properties *)

\* A setting is what was last asked for it (the default if nothing was), unless
\* an update that read before that was written has since put back all it read:
\* requests that do not overlap lose nothing, and creating the row of defaults
\* never undoes an update.
LostOnlyByOverlap ==
    \A f \in Fields \ overlapped : f \in Current <=> f \in asked

\* Others are shown a profile and its lists only if at some moment of their
\* request the user's last word was that it be public, or that word was lost to
\* overlapping updates.  So once a request to make it private has been answered,
\* requests that begin later show nothing, whatever failed.
PrivacyKept ==
    \A v \in Views \ byOwner : vpc[v] = "shown" => v \in excused
=============================================================================
