-------------------------------- MODULE SignIn --------------------------------
(***************************************************************************)
(* Who is signed in in a tab of the browser, and which page the tab shows. *)
(* Firebase tells the tab who is there, whether that changed here or in    *)
(* another tab; private pages are there only while somebody is; a handler  *)
(* that sends the tab elsewhere does so whether or not its page is there.  *)
(***************************************************************************)
EXTENDS Naturals

CONSTANTS
  People,      \* who may sign in
  MaxSignIns   \* bound: sign-ins, here and elsewhere

NoOne == "no one"
ASSUME PeopleAssumption == NoOne \notin People

Unset == "unset"
At(name, of) == [page |-> name, of |-> of]
Login == At("login", Unset)
Home == At("home", Unset)
NoPage == At("none", Unset)

VARIABLES
  person,    \* the user of the tab's AuthProvider
  known,     \* people with a row in the users table
  login,     \* the login page: idle, in the popup, synchronising, synchronised
  at,        \* the page the tab shows
  going,     \* the page the router is on its way to
  present,   \* who has been signed in while the page was shown
  profile,   \* the settings page: whose row it shows, and whose it is reading
  signIns

signInVars == <<person, known, login, at, going, present, profile, signIns>>

-----------------------------------------------------------------------------
NoProfile == [shown |-> NoOne, asked |-> NoOne]
\* The settings page begins by reading the row of who is signed in.
ProfileAt(page) ==
  IF page.page = "settings" THEN [NoProfile EXCEPT !.asked = person] ELSE NoProfile

SignInInit ==
  /\ known \in SUBSET People
  /\ \/ person = NoOne /\ at = Login
     \/ person \in known /\ at = Home
  /\ present = IF person = NoOne THEN {} ELSE {person}
  /\ login = "idle" /\ going = NoPage /\ profile = NoProfile /\ signIns = 0

\* A handler sends the tab to a page, which takes a while: the latest one wins.
Push(page) == going' = page

\* The tab shows a page: nobody gets behind the login page without signing in,
\* and a page that is shown already stays as it is.
Arrive(page) ==
  LET reached == IF person = NoOne THEN Login ELSE page IN
    /\ going' = NoPage /\ at' = reached
    /\ IF reached = at THEN UNCHANGED <<login, present, profile>>
       ELSE /\ login' = "idle"
            /\ present' = IF person = NoOne THEN {} ELSE {person}
            /\ profile' = ProfileAt(reached)
    /\ UNCHANGED <<person, known, signIns>>

\* The router arrives where a handler has sent it.
Navigate == going # NoPage /\ Arrive(going)

\* A link leads to a page at once, whatever the router was about to do.
FollowLink(page) ==
  /\ person # NoOne /\ page # at
  /\ Arrive(page)

-----------------------------------------------------------------------------
\* The login page.

HandleLogin ==
  /\ at = Login /\ login = "idle" /\ signIns < MaxSignIns
  /\ login' = "popup" /\ signIns' = signIns + 1
  /\ UNCHANGED <<person, known, at, going, present, profile>>

\* Google's window is done: the tab has its user, the server is told.
SignedIn(u) ==
  /\ login = "popup"
  /\ person' = u /\ login' = "syncing"
  /\ UNCHANGED <<known, at, going, present, profile, signIns>>

SyncMe ==
  /\ login = "syncing" /\ person # NoOne
  /\ known' = known \cup {person} /\ login' = "synced"
  /\ UNCHANGED <<person, at, going, present, profile, signIns>>

LoginDone ==
  /\ login = "synced"
  /\ login' = "idle" /\ Push(Home)
  /\ UNCHANGED <<person, known, at, present, profile, signIns>>

\* The window is closed, or the call or its answer is lost: whoever has signed
\* in stays so, with or without a row.
LoginFails ==
  /\ login # "idle"
  /\ login' = "idle"
  /\ UNCHANGED <<person, known, at, going, present, profile, signIns>>

-----------------------------------------------------------------------------
\* The user changes under a page.

\* Seeded fault: the pages stay, behind whatever is shown.
SignOutKeepsPage ==
  /\ person # NoOne /\ at # Login
  /\ person' = NoOne /\ login' = "idle" /\ going' = NoPage /\ present' = {}
  /\ UNCHANGED <<known, at, profile, signIns>>

\* Signing out here or elsewhere ends every private page.
SignOut ==
  /\ person # NoOne /\ at # Login
  /\ person' = NoOne /\ at' = Login /\ login' = "idle"
  /\ going' = NoPage /\ present' = {} /\ profile' = NoProfile
  /\ UNCHANGED <<known, signIns>>

\* Another tab signs somebody in: this tab's page stays.
SwitchedElsewhere(u) ==
  /\ u \in known \ {person} /\ signIns < MaxSignIns
  /\ login = "idle"
  /\ person' = u /\ signIns' = signIns + 1
  /\ present' = IF at = Login THEN {} ELSE present \cup {u}
  /\ profile' = IF at.page = "settings" THEN [profile EXCEPT !.asked = u] ELSE profile
  /\ UNCHANGED <<known, login, at, going>>

\* The answer of getMe, or its failure; the page keeps what it shows.
ProfileArrives ==
  /\ profile.asked # NoOne
  /\ profile' = [shown |-> IF profile.asked \in known THEN profile.asked ELSE profile.shown,
                 asked |-> NoOne]
  /\ UNCHANGED <<person, known, login, at, going, present, signIns>>

ProfileFails ==
  /\ profile.asked # NoOne
  /\ profile' = [profile EXCEPT !.asked = NoOne]
  /\ UNCHANGED <<person, known, login, at, going, present, signIns>>

-----------------------------------------------------------------------------
SignInStep ==
  \/ Navigate \/ HandleLogin \/ SyncMe \/ LoginDone \/ LoginFails \/ SignOut
  \/ ProfileArrives \/ ProfileFails
  \/ \E u \in People : SignedIn(u) \/ SwitchedElsewhere(u)
=============================================================================
