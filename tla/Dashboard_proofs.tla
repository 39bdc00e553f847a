------------------------- MODULE Dashboard_proofs -------------------------
(***************************************************************************)
(* The pages of the dashboard and the import they lead to.                 *)
(*                                                                         *)
(* For any people, projects, variants and orders: a project with variants  *)
(* has a main one, variants are copied within their project, and a page    *)
(* shows what was answered to somebody signed in while it was there.       *)
(* None is inductive alone.  The first needs that a creation which found   *)
(* variants finds a main one among them when it ends (MainInv); the second *)
(* that answers, cards, the select and creations in flight name variants   *)
(* of the page's project only (BasesInv); the third that nobody is behind  *)
(* the login page unseen (SeenInv).                                        *)
(*                                                                         *)
(* For any files, folders, imports and runs of their jobs: a graph is not  *)
(* built from half an upload, and an import that ran alone shows its own   *)
(* files.  The first rests on what a root holds before anything names it:  *)
(* the row names the root of an import only when its upload is complete,   *)
(* and jobs read and write back what the row names (WholeInv).  The second *)
(* follows one import that nothing runs beside, from its upload to its     *)
(* graph and through the runs of its job after that (AloneInv).            *)
(***************************************************************************)
EXTENDS ProjectPages, GuideLibrary, ImportFlow, TLAPS


-----------------------------------------------------------------------------
\* Types.

Whose == People \cup {NoOne}
OfIds == Projects \cup VariantIds \cup {Unset}
PageNames == Dashboard \cup {"login", "workspace", "import", "compare", "none"}
OnePage == [page : PageNames, of : OfIds]

\* A page of a project or of a variant that is there.
GoodPage(a, V) ==
  /\ a \in OnePage
  /\ a.page = "project" => a.of \in Projects
  /\ a.page \in {"workspace", "import"} => a.of \in V

\* What names a variant names one of the rows V.
ShownVariant(V) == [id : V, main : BOOLEAN, imported : BOOLEAN]
StoredVariant ==
  [project : Projects, main : BOOLEAN, base : VariantIds \cup {Unset}, imported : BOOLEAN]
GotAnswer(V) ==
  [is : {"list", "project"}, projects : SUBSET Projects, variants : SUBSET ShownVariant(V)]
Answers(V) == {Unread, Refused} \cup GotAnswer(V)
Creation(V) ==
  [project : Projects, base : VariantIds \cup {Unset}, who : Whose, nth : Nat,
   id : V \cup {Unset}, counted : BOOLEAN, main : BOOLEAN, here : BOOLEAN, heard : BOOLEAN]

LoginStates == {"idle", "popup", "syncing", "synced"}
SignInTypes ==
  /\ person \in Whose /\ known \subseteq People /\ present \subseteq People
  /\ login \in LoginStates
  /\ GoodPage(at, DOMAIN variantRow) /\ GoodPage(going, DOMAIN variantRow)
  /\ profile \in [shown : Whose, asked : Whose]
PageTypes ==
  /\ view \in [loading : BOOLEAN, for : Whose, projects : SUBSET Projects,
               variants : SUBSET ShownVariant(DOMAIN variantRow)]
  /\ reads \subseteq [who : Whose, got : Answers(DOMAIN variantRow)]
  /\ newProject \in BOOLEAN
  /\ newVariant \in [open : BOOLEAN, base : VariantIds \cup {Unset}]
TableTypes ==
  /\ DOMAIN projectRow \subseteq Projects
  /\ DOMAIN variantRow \subseteq VariantIds
  /\ \A v \in DOMAIN variantRow : variantRow[v] \in StoredVariant
CallTypes ==
  /\ creations \subseteq Creation(DOMAIN variantRow)
  /\ makings \subseteq [who : Whose, id : Projects \cup {Unset}, heard : BOOLEAN, nth : Nat]
  /\ deletions \subseteq [of : Projects, who : Whose, heard : BOOLEAN, done : BOOLEAN]
  /\ orders \in Nat
PagesTypeOK == SignInTypes /\ PageTypes /\ TableTypes /\ CallTypes

\* The pages that the code names, of a project or of a variant, are good ones.
LEMMA GoodPages ==
  ASSUME NEW V \in SUBSET VariantIds
  PROVE  /\ GoodPage(Login, V) /\ GoodPage(Home, V) /\ GoodPage(NoPage, V)
         /\ \A name \in {"home", "projects", "shared", "settings"} : GoodPage(At(name, Unset), V)
         /\ \A p \in Projects : GoodPage(At("project", p), V)
         /\ \A v \in V : GoodPage(At("workspace", v), V) /\ GoodPage(At("import", v), V)
         /\ \A i \in OfIds : GoodPage(At("compare", i), V)
  BY DEF GoodPage, OnePage, PageNames, Dashboard, OfIds, Login, Home, NoPage, At

\* A good page stays one while rows of variants are only added.
LEMMA GoodStays ==
  ASSUME NEW V, NEW W, V \subseteq W, NEW a, GoodPage(a, V)
  PROVE  GoodPage(a, W)
  BY DEF GoodPage

LEMMA ArriveTypes ==
  ASSUME SignInTypes, TableTypes, NEW page, GoodPage(page, DOMAIN variantRow), Arrive(page),
         UNCHANGED variantRow
  PROVE  SignInTypes'
  <1>1. GoodPage(Login, DOMAIN variantRow) /\ GoodPage(NoPage, DOMAIN variantRow)
    BY GoodPages DEF TableTypes
  <1>2. at' \in {Login, page} /\ going' = NoPage
    BY DEF Arrive
  <1>3. GoodPage(at', DOMAIN variantRow') /\ GoodPage(going', DOMAIN variantRow')
    BY <1>1, <1>2
  <1>4. profile' \in [shown : Whose, asked : Whose]
    BY DEF Arrive, SignInTypes, ProfileAt, NoProfile, Whose
  <1>5. present' \subseteq People
    BY DEF Arrive, SignInTypes, Whose
  <1>6. login' \in LoginStates
    BY DEF Arrive, SignInTypes, LoginStates
  <1>7. UNCHANGED <<person, known>>
    BY DEF Arrive
  <1> QED BY <1>3, <1>4, <1>5, <1>6, <1>7 DEF SignInTypes

LEMMA SignInStepTypes ==
  ASSUME SignInTypes, TableTypes, SignInStep, UNCHANGED variantRow
  PROVE  SignInTypes'
  <1> USE DEF SignInTypes, LoginStates
  <1>0. /\ GoodPage(Login, DOMAIN variantRow) /\ GoodPage(NoPage, DOMAIN variantRow)
        /\ GoodPage(Home, DOMAIN variantRow)
    BY GoodPages DEF TableTypes
  <1>1. CASE Navigate
    BY <1>1, ArriveTypes DEF Navigate
  <1>2. CASE HandleLogin
    BY <1>2 DEF HandleLogin
  <1>3. CASE SyncMe
    BY <1>3 DEF SyncMe, Whose
  <1>4. CASE LoginDone
    BY <1>4, <1>0 DEF LoginDone, Push
  <1>5. CASE LoginFails
    BY <1>5 DEF LoginFails
  <1>6. CASE SignOut
    BY <1>6, <1>0 DEF SignOut, Whose, NoProfile
  <1>7. CASE ProfileArrives
    BY <1>7 DEF ProfileArrives, Whose
  <1>8. CASE ProfileFails
    BY <1>8 DEF ProfileFails, Whose
  <1>9. ASSUME NEW u \in People, SignedIn(u) PROVE SignInTypes'
    BY <1>9 DEF SignedIn, Whose
  <1>10. ASSUME NEW u \in People, SwitchedElsewhere(u) PROVE SignInTypes'
    BY <1>10 DEF SwitchedElsewhere, Whose
  <1> QED BY <1>1, <1>2, <1>3, <1>4, <1>5, <1>6, <1>7, <1>8, <1>9, <1>10 DEF SignInStep

\* A page that begins has its types, and so has what goes on without it.
LEMMA MountedTypes ==
  ASSUME PagesTypeOK, SignInTypes', Mounted, UNCHANGED variantRow
  PROVE  PageTypes' /\ creations' \subseteq Creation(DOMAIN variantRow')
         /\ makings' \subseteq [who : Whose, id : Projects \cup {Unset}, heard : BOOLEAN, nth : Nat]
         /\ deletions' \subseteq [of : Projects, who : Whose, heard : BOOLEAN, done : BOOLEAN]
  <1>1. view' \in [loading : BOOLEAN, for : Whose, projects : SUBSET Projects,
                   variants : SUBSET ShownVariant(DOMAIN variantRow')]
    BY DEF Mounted, EmptyView, Whose, Reading
  <1>2. reads' \subseteq [who : Whose, got : Answers(DOMAIN variantRow')]
    BY DEF Mounted, ReadsOf, SignInTypes, Answers, Reading
  <1>3. newProject' \in BOOLEAN /\ newVariant' \in [open : BOOLEAN, base : VariantIds \cup {Unset}]
    BY DEF Mounted, NoVariantDialog
  <1>4. creations' \subseteq Creation(DOMAIN variantRow')
    <2>1. \A c \in Creation(DOMAIN variantRow) :
            [c EXCEPT !.heard = FALSE] \in Creation(DOMAIN variantRow)
      BY DEF Creation
    <2> QED BY <2>1 DEF Mounted, Unheard, PagesTypeOK, CallTypes
  <1>5. makings' \subseteq [who : Whose, id : Projects \cup {Unset}, heard : BOOLEAN, nth : Nat]
    BY DEF Mounted, Unheard, PagesTypeOK, CallTypes
  <1>6. deletions' \subseteq [of : Projects, who : Whose, heard : BOOLEAN, done : BOOLEAN]
    BY DEF Mounted, Unheard, PagesTypeOK, CallTypes
  <1> QED BY <1>1, <1>2, <1>3, <1>4, <1>5, <1>6 DEF PageTypes

LEMMA MovingTypes ==
  ASSUME PagesTypeOK, SignInTypes', UNCHANGED <<tables, orders>>,
         IF at' = at
         THEN UNCHANGED <<view, reads, newProject, newVariant, compared, inFlight, memberCall>>
         ELSE Mounted
  PROVE  PagesTypeOK'
  <1>1. CASE at' = at
    BY <1>1 DEF PagesTypeOK, PageTypes, TableTypes, CallTypes, tables, inFlight
  <1>2. CASE at' # at
    BY <1>2, MountedTypes DEF PagesTypeOK, TableTypes, CallTypes, tables
  <1> QED BY <1>1, <1>2

\* The answer of the server to a page is one.
LEMMA AnswerType ==
  ASSUME PagesTypeOK, NEW u
  PROVE  Answer(at, u) \in Answers(DOMAIN variantRow)
  <1>1. \A p \in OfIds : VariantsOf(p) \subseteq DOMAIN variantRow
    BY DEF VariantsOf
  <1>2. \A v \in DOMAIN variantRow : Shown(v) \in ShownVariant(DOMAIN variantRow)
    BY DEF Shown, ShownVariant, PagesTypeOK, TableTypes, StoredVariant
  <1>3. at.page = "project" => at.of \in Projects
    BY DEF PagesTypeOK, SignInTypes, GoodPage
  <1>4. {Shown(v) : v \in VariantsOf(at.of)} \subseteq ShownVariant(DOMAIN variantRow)
    BY <1>2 DEF VariantsOf
  <1>5. ListAccessibleProjects(at.page, u) \subseteq Projects
    BY DEF ListAccessibleProjects, PagesTypeOK, TableTypes
  <1>6. CASE u \notin known
    BY <1>6 DEF Answer, Answers
  <1>7. CASE u \in known /\ at.page = "project"
    BY <1>3, <1>4, <1>7 DEF Answer, Answers, GotAnswer
  <1>8. CASE u \in known /\ at.page # "project"
    BY <1>5, <1>8 DEF Answer, Answers, GotAnswer
  <1> QED BY <1>6, <1>7, <1>8

LEMMA BaseType ==
  ASSUME NEW V \in SUBSET VariantIds, NEW S \in SUBSET ShownVariant(V)
  PROVE  BasesOf(S) \subseteq VariantIds \cup {Unset}
  BY DEF BasesOf, ShownVariant

\* Reading, and what changes nothing but the page.
LEMMA PageStepTypes ==
  ASSUME PagesTypeOK, PageStep
  PROVE  PagesTypeOK'
  <1> USE DEF PagesTypeOK
  <1> DEFINE Others == UNCHANGED <<signInVars, tables, creations, makings, deletions, orders>>
  <1>a. ASSUME Others, PageTypes' PROVE PagesTypeOK'
    BY <1>a DEF SignInTypes, TableTypes, CallTypes, tables, signInVars
  <1>b. ASSUME NEW page, GoodPage(page, DOMAIN variantRow), Moving(FollowLink(page))
        PROVE  PagesTypeOK'
    <2>1. SignInTypes'
      BY <1>b, ArriveTypes DEF Moving, FollowLink, tables
    <2> QED BY <1>b, <2>1, MovingTypes DEF Moving
  <1>c. DOMAIN variantRow \in SUBSET VariantIds
    BY DEF TableTypes
  <1>d. \A r \in reads : r \in [who : Whose, got : Answers(DOMAIN variantRow)]
    BY DEF PageTypes
  <1>1. ASSUME NEW r \in reads, ReadServed(r) PROVE PagesTypeOK'
    <2>1. [r EXCEPT !.got = Answer(at, r.who)] \in [who : Whose, got : Answers(DOMAIN variantRow)]
      BY <1>d, AnswerType
    <2> QED BY <1>1, <1>a, <2>1 DEF ReadServed, PageTypes, inFlight, tables
  <1>2. ASSUME NEW r \in reads, ReadArrives(r) PROVE PagesTypeOK'
    <2>1. r.got \in GotAnswer(DOMAIN variantRow)
      BY <1>2, <1>d DEF ReadArrives, Answers, Unread, Refused
    <2>2. PICK S \in Displayed(r.got.projects) :
            view' = [loading |-> FALSE, for |-> r.who, projects |-> S, variants |-> r.got.variants]
      BY <1>2 DEF ReadArrives
    <2>3. S \in SUBSET Projects
      BY <2>1, <2>2 DEF Displayed, Recent, GotAnswer
    <2>4. view' \in [loading : BOOLEAN, for : Whose, projects : SUBSET Projects,
                     variants : SUBSET ShownVariant(DOMAIN variantRow')]
      BY <1>2, <2>1, <2>2, <2>3, <1>d DEF GotAnswer, ReadArrives, tables
    <2>5. newVariant' \in [open : BOOLEAN, base : VariantIds \cup {Unset}]
      BY <1>2, <2>1, <1>c, BaseType DEF ReadArrives, NoVariantDialog, GotAnswer
    <2> QED BY <1>2, <1>a, <2>4, <2>5 DEF ReadArrives, PageTypes, inFlight, tables
  <1>3. ASSUME NEW r \in reads, ReadFails(r) PROVE PagesTypeOK'
    BY <1>3, <1>a DEF ReadFails, PageTypes, inFlight, tables
  <1>4. ASSUME NEW name \in Dashboard, FollowSidebar(name) PROVE PagesTypeOK'
    BY <1>4, <1>b, <1>c, GoodPages DEF FollowSidebar
  <1>5. ASSUME NEW p \in Projects, OpenProject(p) PROVE PagesTypeOK'
    BY <1>5, <1>b, <1>c, GoodPages DEF OpenProject
  <1>6. ASSUME NEW p \in Projects, HandleDelete(p) PROVE PagesTypeOK'
    <2>1. [of |-> p, who |-> person, heard |-> TRUE, done |-> FALSE]
            \in [of : Projects, who : Whose, heard : BOOLEAN, done : BOOLEAN]
      BY DEF SignInTypes
    <2>2. orders' \in Nat /\ UNCHANGED <<creations, makings, variantRow>>
      BY <1>6 DEF HandleDelete, Order, CallTypes, tables
    <2>3. deletions' \subseteq [of : Projects, who : Whose, heard : BOOLEAN, done : BOOLEAN]
      BY <1>6, <2>1 DEF HandleDelete, CallTypes
    <2>4. CallTypes'
      BY <2>2, <2>3 DEF CallTypes
    <2> QED BY <1>6, <2>4 DEF HandleDelete, SignInTypes, TableTypes, PageTypes, tables, signInVars
  <1>7. ASSUME NEW s \in view.variants, OpenVariant(s) PROVE PagesTypeOK'
    <2>1. s.id \in DOMAIN variantRow
      BY DEF PageTypes, ShownVariant
    <2>2. GoodPage(At(IF s.imported THEN "workspace" ELSE "import", s.id), DOMAIN variantRow)
      BY <2>1, <1>c, GoodPages
    <2> QED BY <1>7, <2>2, <1>b DEF OpenVariant
  <1>8. ASSUME NEW s \in view.variants, HandleToggleCompare(s) PROVE PagesTypeOK'
    BY <1>8, <1>a DEF HandleToggleCompare, PageTypes, inFlight, tables
  <1>9. ASSUME NEW s \in view.variants, ChooseBase(s) PROVE PagesTypeOK'
    BY <1>9, <1>a DEF ChooseBase, PageTypes, ShownVariant, inFlight, tables, TableTypes
  <1>10. CASE OpenComparison
    <2>1. at.of \in OfIds
      BY DEF SignInTypes, GoodPage, OnePage
    <2> QED BY <1>10, <2>1, <1>b, <1>c, GoodPages DEF OpenComparison
  <1>11. CASE LeaveWorkspace
    <2>1. variantRow[at.of].project \in Projects
      BY <1>11 DEF LeaveWorkspace, SignInTypes, GoodPage, TableTypes, StoredVariant
    <2> QED BY <1>11, <2>1, <1>b, <1>c, GoodPages DEF LeaveWorkspace
  <1>12. ASSUME NEW open \in BOOLEAN, OpenProjectDialog(open) PROVE PagesTypeOK'
    BY <1>12, <1>a DEF OpenProjectDialog, PageTypes, inFlight, tables
  <1>13. ASSUME NEW open \in BOOLEAN, HandleOpen(open) PROVE PagesTypeOK'
    BY <1>13, <1>a DEF HandleOpen, PageTypes, inFlight, tables
  <1>14. CASE HandleCreateProject
    <2>1. [who |-> person, id |-> Unset, heard |-> TRUE, nth |-> orders]
            \in [who : Whose, id : Projects \cup {Unset}, heard : BOOLEAN, nth : Nat]
      BY DEF SignInTypes, CallTypes
    <2>2. orders' \in Nat /\ UNCHANGED <<creations, deletions, variantRow>>
      BY <1>14 DEF HandleCreateProject, Order, CallTypes, tables
    <2>3. makings' \subseteq [who : Whose, id : Projects \cup {Unset}, heard : BOOLEAN, nth : Nat]
      BY <1>14, <2>1 DEF HandleCreateProject, CallTypes
    <2>4. CallTypes'
      BY <2>2, <2>3 DEF CallTypes
    <2> QED BY <1>14, <2>4 DEF HandleCreateProject, SignInTypes, TableTypes, PageTypes, tables, signInVars
  <1>15. CASE HandleCreateVariant
    <2>1. at.of \in Projects /\ person \in Whose
      BY <1>15 DEF HandleCreateVariant, OnProject, SignInTypes, GoodPage
    <2>2. newVariant.base \in VariantIds \cup {Unset}
      BY DEF PageTypes
    <2>3. [project |-> at.of, base |-> newVariant.base, who |-> person, nth |-> orders,
           id |-> Unset, counted |-> FALSE, main |-> FALSE, here |-> TRUE, heard |-> TRUE]
            \in Creation(DOMAIN variantRow)
      BY <2>1, <2>2 DEF Creation, CallTypes
    <2>4. newVariant' \in [open : BOOLEAN, base : VariantIds \cup {Unset}]
      <3>1. BasesOf(view.variants) \subseteq VariantIds \cup {Unset}
        BY <1>c, BaseType DEF PageTypes
      <3>2. newVariant \in [open : BOOLEAN, base : VariantIds \cup {Unset}]
        BY DEF PageTypes
      <3> QED BY <1>15, <3>1, <3>2 DEF HandleCreateVariant
    <2>5. UNCHANGED <<signInVars, tables, view, reads, newProject, makings, deletions>>
      BY <1>15 DEF HandleCreateVariant
    <2>6. orders' \in Nat
      BY <1>15 DEF HandleCreateVariant, Order, CallTypes
    <2>7. creations' \subseteq Creation(DOMAIN variantRow)
      BY <1>15, <2>3 DEF HandleCreateVariant, CallTypes
    <2> QED BY <2>4, <2>5, <2>6, <2>7 DEF SignInTypes, TableTypes, PageTypes, CallTypes, tables, signInVars
  <1>16. CASE ChangeMembers
    BY <1>16 DEF ChangeMembers, Order, SignInTypes, TableTypes, PageTypes, CallTypes, tables, signInVars, inFlight
  <1>17. CASE MembersNotChanged
    BY <1>17, <1>a DEF MembersNotChanged, PageTypes, inFlight, tables
  <1> QED
    BY <1>1, <1>2, <1>3, <1>4, <1>5, <1>6, <1>7, <1>8, <1>9, <1>10, <1>11, <1>12, <1>13,
       <1>14, <1>15, <1>16, <1>17 DEF PageStep

\* What a call does to the tables and to those in flight.
LEMMA CallStepTypes ==
  ASSUME PagesTypeOK, CallStep
  PROVE  PagesTypeOK'
  <1> USE DEF PagesTypeOK
  <1> DEFINE Makings == [who : Whose, id : Projects \cup {Unset}, heard : BOOLEAN, nth : Nat]
             Deletions == [of : Projects, who : Whose, heard : BOOLEAN, done : BOOLEAN]
             V == DOMAIN variantRow
  <1>0. V \in SUBSET VariantIds
    BY DEF TableTypes
  \* Steps after which the page, the way and the rows of variants are as before.
  <1>a. ASSUME UNCHANGED <<signInVars, variantRow, reads, newProject, newVariant, orders>>,
               view' \in [loading : BOOLEAN, for : Whose, projects : SUBSET Projects,
                          variants : SUBSET ShownVariant(V)],
               DOMAIN projectRow' \subseteq Projects,
               creations' \subseteq Creation(V), makings' \subseteq Makings,
               deletions' \subseteq Deletions
        PROVE  PagesTypeOK'
    BY <1>a DEF SignInTypes, TableTypes, PageTypes, CallTypes, signInVars
  <1>b. /\ view \in [loading : BOOLEAN, for : Whose, projects : SUBSET Projects,
                     variants : SUBSET ShownVariant(V)]
        /\ DOMAIN projectRow \subseteq Projects
        /\ creations \subseteq Creation(V) /\ makings \subseteq Makings
        /\ deletions \subseteq Deletions /\ orders \in Nat
    BY DEF TableTypes, PageTypes, CallTypes
  <1>1. ASSUME NEW d \in deletions, DeleteProject(d) PROVE PagesTypeOK'
    <2>1. [d EXCEPT !.done = TRUE] \in Deletions
      BY <1>b
    <2>2. deletions' \subseteq Deletions /\ DOMAIN projectRow' \subseteq Projects
      BY <1>1, <1>b, <2>1 DEF DeleteProject
    <2> QED BY <1>1, <1>a, <1>b, <2>2 DEF DeleteProject
  <1>2. ASSUME NEW d \in deletions, ProjectDeleted(d) PROVE PagesTypeOK'
    <2>1. [view EXCEPT !.projects = @ \ {d.of}]
            \in [loading : BOOLEAN, for : Whose, projects : SUBSET Projects,
                 variants : SUBSET ShownVariant(V)]
      BY <1>b
    <2> QED BY <1>2, <1>a, <1>b, <2>1 DEF ProjectDeleted, tables
  <1>3. ASSUME NEW d \in deletions, DeletionFails(d) PROVE PagesTypeOK'
    BY <1>3, <1>a, <1>b DEF DeletionFails, tables
  <1>4. ASSUME NEW c \in makings, NEW p \in Projects, CreateProjectBundle(c, p)
        PROVE  PagesTypeOK'
    <2>1. [c EXCEPT !.id = p] \in Makings
      BY <1>b
    <2>2. makings' \subseteq Makings /\ DOMAIN projectRow' \subseteq Projects
      BY <1>4, <1>b, <2>1 DEF CreateProjectBundle
    <2> QED BY <1>4, <1>a, <1>b, <2>2 DEF CreateProjectBundle
  <1>5. ASSUME NEW c \in makings, ProjectCreated(c) PROVE PagesTypeOK'
    <2>1. c.id \in Projects
      BY <1>5, <1>b DEF ProjectCreated
    <2>2. SignInTypes'
      BY <1>5, <1>0, <2>1, GoodPages DEF ProjectCreated, Push, SignInTypes, tables
    <2>3. reads' \subseteq [who : Whose, got : Answers(V)]
      BY <1>5 DEF ProjectCreated, ReadsOf, PageTypes, SignInTypes, Answers
    <2>4. PageTypes'
      BY <1>5, <2>3 DEF ProjectCreated, PageTypes, tables
    <2>5. TableTypes' /\ CallTypes'
      BY <1>5, <1>b DEF ProjectCreated, TableTypes, CallTypes, tables
    <2> QED BY <2>2, <2>4, <2>5
  <1>6. ASSUME NEW c \in makings, ProjectNotCreated(c) PROVE PagesTypeOK'
    BY <1>6, <1>a, <1>b DEF ProjectNotCreated, tables
  <1>7. ASSUME NEW p \in Projects, NEW u \in People, NEW base \in VariantIds \cup {Unset},
               CreateElsewhere(p, u, base)
        PROVE  PagesTypeOK'
    <2>1. [project |-> p, base |-> base, who |-> u, nth |-> orders, id |-> Unset,
           counted |-> FALSE, main |-> FALSE, here |-> FALSE, heard |-> FALSE] \in Creation(V)
      BY <1>b DEF Creation, Whose
    <2>2. orders' \in Nat
      BY <1>7, <1>b DEF CreateElsewhere, Order
    <2>a. creations' \subseteq Creation(V)
      BY <1>7, <1>b, <2>1 DEF CreateElsewhere
    <2>3. UNCHANGED <<signInVars, tables, view, reads, newProject, newVariant, makings, deletions>>
      BY <1>7 DEF CreateElsewhere
    <2>4. SignInTypes' /\ TableTypes' /\ PageTypes'
      BY <2>3 DEF SignInTypes, TableTypes, PageTypes, tables, signInVars
    <2>5. CallTypes'
      BY <2>2, <2>3, <2>a, <1>b DEF CallTypes, tables
    <2> QED BY <2>4, <2>5
  <1>8. ASSUME NEW c \in creations, NEW v \in VariantIds, SaveVariant(c, v)
        PROVE  PagesTypeOK'
    <2>1. DOMAIN variantRow' = V \cup {v}
      BY <1>8 DEF SaveVariant
    <2>2. c \in Creation(V)
      BY <1>b
    <2>3. \A w \in V \cup {v} : variantRow'[w] \in StoredVariant
      <3>1. c.base # Unset => variantRow[c.base].imported \in BOOLEAN
        BY <1>8 DEF SaveVariant, TableTypes, StoredVariant
      <3>2. [project |-> c.project, main |-> c.main, base |-> c.base,
             imported |-> c.base # Unset /\ variantRow[c.base].imported] \in StoredVariant
        BY <2>2, <3>1 DEF StoredVariant, Creation
      <3> QED BY <1>8, <3>2 DEF SaveVariant, TableTypes
    <2>4. ShownVariant(V) \subseteq ShownVariant(V \cup {v})
      BY DEF ShownVariant
    <2>5. Answers(V) \subseteq Answers(V \cup {v})
      BY <2>4 DEF Answers, GotAnswer
    <2>6. Creation(V) \subseteq Creation(V \cup {v})
      BY DEF Creation
    <2>7. [c EXCEPT !.id = v] \in Creation(V \cup {v})
      BY <2>2 DEF Creation
    <2>8. creations' \subseteq Creation(V \cup {v})
      BY <1>8, <1>b, <2>6, <2>7 DEF SaveVariant
    <2>9. SignInTypes'
      BY <1>8, <2>1, GoodStays DEF SaveVariant, SignInTypes, signInVars
    <2>10. PageTypes'
      BY <1>8, <2>1, <2>4, <2>5 DEF SaveVariant, PageTypes
    <2>11. TableTypes'
      BY <1>8, <2>1, <2>3, <1>0 DEF SaveVariant, TableTypes
    <2>12. CallTypes'
      BY <1>8, <2>1, <2>8 DEF SaveVariant, CallTypes
    <2> QED BY <2>9, <2>10, <2>11, <2>12
  <1>9. ASSUME NEW c \in creations, CountVariants(c) PROVE PagesTypeOK'
    <2>1. [c EXCEPT !.counted = TRUE, !.main = VariantsOf(c.project) = {}] \in Creation(V)
      BY <1>b DEF Creation
    <2> QED BY <1>9, <1>a, <1>b, <2>1 DEF CountVariants, tables
  <1>10. ASSUME NEW c \in creations, VariantCreated(c) PROVE PagesTypeOK'
    <2>1. c.id \in V
      BY <1>10, <1>b DEF VariantCreated, Creation
    <2>2. Shown(c.id) \in ShownVariant(V)
      BY <2>1 DEF Shown, ShownVariant, TableTypes, StoredVariant
    <2>3. SignInTypes'
      BY <1>10, <1>0, <2>1, GoodPages DEF VariantCreated, Push, SignInTypes, tables
    <2>4. [view EXCEPT !.variants = @ \cup {Shown(c.id)}]
            \in [loading : BOOLEAN, for : Whose, projects : SUBSET Projects,
                 variants : SUBSET ShownVariant(V)]
      BY <1>b, <2>2
    <2>5. PageTypes'
      BY <1>10, <2>4 DEF VariantCreated, PageTypes, tables
    <2>6. TableTypes' /\ CallTypes'
      BY <1>10 DEF VariantCreated, TableTypes, CallTypes, tables
    <2> QED BY <2>3, <2>5, <2>6
  <1>11. ASSUME NEW c \in creations, VariantNotCreated(c) PROVE PagesTypeOK'
    BY <1>11, <1>a, <1>b DEF VariantNotCreated, tables
  <1>12. ASSUME NEW v \in VariantIds, Imported(v) PROVE PagesTypeOK'
    <2>1. v \in V
      BY <1>12 DEF Imported, SignInTypes, GoodPage, At
    <2>2. DOMAIN variantRow' = V /\ \A w \in V : variantRow'[w] \in StoredVariant
      BY <1>12, <2>1 DEF Imported, TableTypes, StoredVariant
    <2>3. SignInTypes'
      BY <1>12, <1>0, <2>1, <2>2, GoodPages DEF Imported, Push, SignInTypes
    <2>4. PageTypes'
      BY <1>12, <2>2 DEF Imported, PageTypes
    <2>5. TableTypes' /\ CallTypes'
      BY <1>12, <2>2 DEF Imported, TableTypes, CallTypes, inFlight
    <2> QED BY <2>3, <2>4, <2>5
  <1> QED
    BY <1>1, <1>2, <1>3, <1>4, <1>5, <1>6, <1>7, <1>8, <1>9, <1>10, <1>11, <1>12 DEF CallStep

LEMMA TypesInit ==
  ASSUME ProjectsInit
  PROVE  PagesTypeOK
  <1>1. DOMAIN variantRow \in SUBSET VariantIds
    BY DEF ProjectsInit
  <1>2. SignInTypes
    BY <1>1, GoodPages DEF ProjectsInit, SignInInit, SignInTypes, LoginStates, Whose, NoProfile
  <1>3. reads \subseteq [who : Whose, got : Answers(DOMAIN variantRow)]
    BY <1>2 DEF ProjectsInit, ReadsOf, SignInTypes, Answers
  <1>4. PageTypes
    <2>1. view \in [loading : BOOLEAN, for : Whose, projects : SUBSET Projects,
                    variants : SUBSET ShownVariant(DOMAIN variantRow)]
      BY DEF ProjectsInit, EmptyView, Whose
    <2>2. newProject \in BOOLEAN /\ newVariant \in [open : BOOLEAN, base : VariantIds \cup {Unset}]
      BY DEF ProjectsInit, NoVariantDialog
    <2> QED BY <1>3, <2>1, <2>2 DEF PageTypes
  <1>5. TableTypes /\ CallTypes
    BY ProjectsAssumption DEF ProjectsInit, TableTypes, CallTypes
  <1> QED BY <1>2, <1>4, <1>5 DEF PagesTypeOK

LEMMA TypesStep ==
  ASSUME PagesTypeOK, [ProjectsNext]_<<signInVars, projectVars>>
  PROVE  PagesTypeOK'
  <1>1. CASE Moving(SignInStep)
    <2>1. SignInTypes'
      BY <1>1, SignInStepTypes DEF Moving, PagesTypeOK, tables
    <2> QED BY <1>1, <2>1, MovingTypes DEF Moving
  <1>2. CASE PageStep
    BY <1>2, PageStepTypes
  <1>3. CASE CallStep
    BY <1>3, CallStepTypes
  <1>4. CASE UNCHANGED <<signInVars, projectVars>>
    BY <1>4 DEF PagesTypeOK, SignInTypes, PageTypes, TableTypes, CallTypes, signInVars, projectVars
  <1> QED BY <1>1, <1>2, <1>3, <1>4 DEF ProjectsNext

\* Whatever is ordered, answered or lost, in whichever order: pages, rows and
\* calls are of their types; above all, a page of a variant, a card and an answer
\* name variants that are stored, as rows of variants are never deleted.
THEOREM PagesTypeCorrect == ProjectsSpec => []PagesTypeOK
  BY TypesInit, TypesStep, PTL DEF ProjectsSpec

-----------------------------------------------------------------------------
\* Main variants.

HasMain(p) == \E w \in VariantsOf(p) : variantRow[w].main

\* A creation that found variants will find a main one among them.
MainInv ==
  /\ \A v \in DOMAIN variantRow : HasMain(variantRow[v].project)
  /\ \A c \in creations : c.counted /\ ~c.main => HasMain(c.project)

\* The steps of pages touch no row, and no creation but to send it or not hear it.
LEMMA PagesLeaveRows ==
  ASSUME PagesTypeOK, Moving(SignInStep) \/ PageStep
  PROVE  /\ UNCHANGED variantRow
         /\ \A c \in creations' :
              \/ c \in creations
              \/ \E d \in creations : c = [d EXCEPT !.heard = FALSE]
              \/ /\ ~c.counted /\ c.id = Unset /\ c.project = at.of /\ at' = at
                 /\ c.base = newVariant.base /\ OnProject
  <1>a. ASSUME UNCHANGED tables, creations' = creations \/ creations' = Unheard(creations)
        PROVE  /\ UNCHANGED variantRow
               /\ \A c \in creations' :
                    c \in creations \/ \E d \in creations : c = [d EXCEPT !.heard = FALSE]
    BY <1>a DEF Unheard, tables
  <1>1. CASE Moving(SignInStep)
    BY <1>1, <1>a DEF Moving, Mounted, inFlight
  <1>2. ASSUME PageStep
        PROVE  \/ UNCHANGED tables /\ (creations' = creations \/ creations' = Unheard(creations))
               \/ HandleCreateVariant
    BY <1>2
    DEF Moving, Mounted, PageStep, ReadServed, ReadArrives, ReadFails, FollowSidebar, OpenProject, HandleDelete,
        OpenVariant, HandleToggleCompare, ChooseBase, OpenComparison, LeaveWorkspace,
        OpenProjectDialog, HandleOpen, HandleCreateProject, ChangeMembers, MembersNotChanged,
        tables, inFlight
  <1>3. CASE HandleCreateVariant
    BY <1>3 DEF HandleCreateVariant, tables, signInVars
  <1> QED BY <1>1, <1>2, <1>3, <1>a

\* The steps of calls leave most of them alone.
LEMMA CallsLeaveRows ==
  ASSUME CallStep
  PROVE  \/ UNCHANGED <<variantRow, creations>>
         \/ \E p \in Projects, u \in People, base \in VariantIds \cup {Unset} : CreateElsewhere(p, u, base)
         \/ \E c \in creations, v \in VariantIds : SaveVariant(c, v)
         \/ \E c \in creations : CountVariants(c)
         \/ UNCHANGED variantRow /\ creations' \subseteq creations
         \/ \E v \in VariantIds : Imported(v)
  BY DEF CallStep, DeleteProject, ProjectDeleted, DeletionFails, CreateProjectBundle, ProjectCreated,
     ProjectNotCreated, VariantCreated, VariantNotCreated, tables

LEMMA MainStep ==
  ASSUME PagesTypeOK, MainInv, ProjectsNext
  PROVE  MainInv'
  <1> USE DEF MainInv
  <1>0. /\ creations \subseteq Creation(DOMAIN variantRow)
        /\ \A v \in DOMAIN variantRow : variantRow[v] \in StoredVariant
    BY DEF PagesTypeOK, CallTypes, TableTypes
  <1>a. ASSUME UNCHANGED variantRow,
               \A c \in creations' : c.counted /\ ~c.main => HasMain(c.project)
        PROVE  MainInv'
    BY <1>a DEF HasMain, VariantsOf
  <1>1. CASE Moving(SignInStep) \/ PageStep
    <2>1. \A d \in creations : /\ [d EXCEPT !.heard = FALSE].counted = d.counted
                              /\ [d EXCEPT !.heard = FALSE].main = d.main
                              /\ [d EXCEPT !.heard = FALSE].project = d.project
      BY <1>0 DEF Creation
    <2>2. ASSUME NEW c \in creations', c.counted, ~c.main PROVE HasMain(c.project)
      <3>1. c \in creations \/ \E d \in creations : c = [d EXCEPT !.heard = FALSE]
        BY <1>1, <2>2, PagesLeaveRows
      <3> QED BY <2>1, <2>2, <3>1
    <2>3. UNCHANGED variantRow
      BY <1>1, PagesLeaveRows
    <2> QED BY <2>2, <2>3, <1>a
  <1>2. ASSUME NEW p \in Projects, NEW u \in People, NEW base \in VariantIds \cup {Unset},
               CreateElsewhere(p, u, base)
        PROVE  MainInv'
    BY <1>2, <1>a DEF CreateElsewhere, tables
  <1>3. ASSUME NEW c \in creations, NEW v \in VariantIds, SaveVariant(c, v)
        PROVE  MainInv'
    <2>1. /\ v \notin DOMAIN variantRow /\ c.counted
          /\ DOMAIN variantRow' = DOMAIN variantRow \cup {v}
          /\ \A w \in DOMAIN variantRow : variantRow'[w] = variantRow[w]
          /\ variantRow'[v].project = c.project /\ variantRow'[v].main = c.main
          /\ creations' = (creations \ {c}) \cup {[c EXCEPT !.id = v]}
      BY <1>3 DEF SaveVariant
    <2>2. \A p : HasMain(p) => HasMain(p)'
      BY <2>1 DEF HasMain, VariantsOf
    <2>3. HasMain(c.project)'
      <3>1. CASE c.main
        BY <2>1, <3>1 DEF HasMain, VariantsOf
      <3>2. CASE ~c.main
        BY <2>1, <2>2, <3>2
      <3> QED BY <3>1, <3>2
    <2>4. LET d == [c EXCEPT !.id = v]
          IN  d.counted = c.counted /\ d.main = c.main /\ d.project = c.project
      BY <1>0 DEF Creation
    <2> QED BY <2>1, <2>2, <2>3, <2>4
  <1>4. ASSUME NEW c \in creations, CountVariants(c) PROVE MainInv'
    <2>1. LET d == [c EXCEPT !.counted = TRUE, !.main = VariantsOf(c.project) = {}]
          IN  d.main = (VariantsOf(c.project) = {}) /\ d.project = c.project
      BY <1>0 DEF Creation
    <2>2. VariantsOf(c.project) # {} => HasMain(c.project)
      BY DEF VariantsOf
    <2> QED BY <1>4, <1>a, <2>1, <2>2 DEF CountVariants, tables
  <1>5. ASSUME NEW v \in VariantIds, Imported(v) PROVE MainInv'
    <2>1. /\ DOMAIN variantRow' = DOMAIN variantRow /\ UNCHANGED creations
          /\ \A w \in DOMAIN variantRow : /\ variantRow'[w].project = variantRow[w].project
                                          /\ variantRow'[w].main = variantRow[w].main
      BY <1>5, <1>0 DEF Imported, StoredVariant, inFlight
    <2>2. \A p : HasMain(p) => HasMain(p)'
      BY <2>1 DEF HasMain, VariantsOf
    <2> QED BY <2>1, <2>2
  <1>6. CASE UNCHANGED variantRow /\ creations' \subseteq creations
    BY <1>6, <1>a
  <1> QED BY <1>1, <1>2, <1>3, <1>4, <1>5, <1>6, CallsLeaveRows DEF ProjectsNext

\* A project with variants has a main one, for any number of creations that
\* overlap, fail or are refused, although CreateVariant decides it by a count.
THEOREM MainAlwaysExists == ProjectsSpec => []MainExists
  <1>1. ProjectsInit => MainInv
    BY DEF ProjectsInit, MainInv
  <1>2. PagesTypeOK /\ MainInv /\ [ProjectsNext]_<<signInVars, projectVars>> => MainInv'
    <2>1. CASE ProjectsNext
      BY <2>1, MainStep
    <2>2. CASE UNCHANGED <<signInVars, projectVars>>
      BY <2>2 DEF MainInv, HasMain, VariantsOf, projectVars
    <2> QED BY <2>1, <2>2
  <1>3. MainInv => MainExists
    BY DEF MainInv, MainExists, HasMain
  <1> QED BY <1>1, <1>2, <1>3, PagesTypeCorrect, PTL DEF ProjectsSpec

-----------------------------------------------------------------------------
\* Bases of variants.

\* Cards are of variants of the project whose page is shown.
Ours(S) == \A s \in S : at.page = "project" /\ s.id \in VariantsOf(at.of)
OurBase(base) == base # Unset => at.page = "project" /\ base \in VariantsOf(at.of)

\* A creation names variants of its own project, and the page that hears of it
\* is that of its project.
CreationInv(c) ==
  /\ c.base # Unset => c.base \in VariantsOf(c.project)
  /\ c.id # Unset => c.id \in VariantsOf(c.project)
  /\ c.heard => at.page = "project" /\ at.of = c.project

BasesInv ==
  /\ Ours(view.variants)
  /\ \A r \in reads : r.got \in GotAnswer(DOMAIN variantRow) => Ours(r.got.variants)
  /\ OurBase(newVariant.base)
  /\ \A c \in creations : CreationInv(c)
  /\ \A v \in DOMAIN variantRow :
       variantRow[v].base # Unset => variantRow[v].base \in VariantsOf(variantRow[v].project)

\* A step between pages leaves what is shown, or nothing of it.
LEMMA MovingBases ==
  ASSUME PagesTypeOK, BasesInv, UNCHANGED tables,
         IF at' = at
         THEN UNCHANGED <<view, reads, newProject, newVariant, compared, inFlight, memberCall>>
         ELSE Mounted
  PROVE  BasesInv'
  <1> USE DEF BasesInv
  <1>1. CASE at' = at
    BY <1>1 DEF Ours, OurBase, CreationInv, VariantsOf, tables, inFlight
  <1>2. CASE Mounted
    <2>1. view'.variants = {} /\ newVariant'.base = Unset
      BY <1>2 DEF Mounted, EmptyView, NoVariantDialog
    <2>2. \A r \in reads' : r.got = Unread
      BY <1>2 DEF Mounted, ReadsOf
    <2>3. Unread \notin GotAnswer(DOMAIN variantRow')
      BY DEF Unread, GotAnswer
    <2>4. \A c \in creations : /\ [c EXCEPT !.heard = FALSE].base = c.base
                              /\ [c EXCEPT !.heard = FALSE].id = c.id
                              /\ [c EXCEPT !.heard = FALSE].project = c.project
                              /\ [c EXCEPT !.heard = FALSE].heard = FALSE
      BY DEF PagesTypeOK, CallTypes, Creation
    <2>5. ASSUME NEW c \in creations' PROVE CreationInv(c)'
      <3>1. PICK d \in creations : c = [d EXCEPT !.heard = FALSE]
        BY <1>2 DEF Mounted, Unheard
      <3>2. c.base = d.base /\ c.id = d.id /\ c.project = d.project /\ c.heard = FALSE
        BY <2>4, <3>1
      <3> QED BY <3>2 DEF CreationInv, VariantsOf, tables
    <2>6. \A v \in DOMAIN variantRow' : variantRow'[v].base # Unset =>
            variantRow'[v].base \in VariantsOf(variantRow[v].project)'
      BY DEF VariantsOf, tables
    <2> QED BY <2>1, <2>2, <2>3, <2>5, <2>6 DEF Ours, OurBase, tables
  <1> QED BY <1>1, <1>2

\* The answer to a page of a project has variants of it.
LEMMA AnswerIsOurs ==
  ASSUME NEW u, Answer(at, u) \in GotAnswer(DOMAIN variantRow)
  PROVE  Ours(Answer(at, u).variants)
  <1>1. CASE u \notin known
    BY <1>1 DEF Answer, Refused, GotAnswer
  <1>2. CASE u \in known /\ at.page = "project"
    BY <1>2 DEF Answer, Refused, GotAnswer, Ours, Shown
  <1>3. CASE u \in known /\ at.page # "project"
    BY <1>3 DEF Answer, Ours
  <1> QED BY <1>1, <1>2, <1>3

\* A base that the dialog offers is that of a card, or none.
LEMMA OfferedBases ==
  ASSUME NEW S, Ours(S), NEW v \in BasesOf(S)
  PROVE  OurBase(v)
  BY DEF BasesOf, Ours, OurBase

LEMMA PageStepBases ==
  ASSUME PagesTypeOK, BasesInv, PageStep
  PROVE  BasesInv'
  <1> USE DEF BasesInv
  <1>a. ASSUME NEW page, Moving(FollowLink(page)) PROVE BasesInv'
    BY <1>a, MovingBases DEF Moving
  \* Steps that leave the tab, the rows and the creations where they are.
  <1>b. ASSUME UNCHANGED <<at, variantRow>>,
               Ours(view'.variants), OurBase(newVariant'.base),
               \A r \in reads' : r.got \in GotAnswer(DOMAIN variantRow) => Ours(r.got.variants),
               \A c \in creations' : CreationInv(c)
        PROVE  BasesInv'
    BY <1>b DEF Ours, OurBase, CreationInv, VariantsOf
  <1>c. \A r \in reads : r \in [who : Whose, got : Answers(DOMAIN variantRow)]
    BY DEF PagesTypeOK, PageTypes
  <1>d. newVariant \in [open : BOOLEAN, base : VariantIds \cup {Unset}]
    BY DEF PagesTypeOK, PageTypes
  <1>e. view \in [loading : BOOLEAN, for : Whose, projects : SUBSET Projects,
                  variants : SUBSET ShownVariant(DOMAIN variantRow)]
    BY DEF PagesTypeOK, PageTypes
  <1>1. ASSUME NEW r \in reads, ReadServed(r) PROVE BasesInv'
    <2>1. [r EXCEPT !.got = Answer(at, r.who)].got = Answer(at, r.who)
      BY <1>c
    <2>2. \A k \in reads' : k \in reads \/ k.got = Answer(at, r.who)
      BY <1>1, <2>1 DEF ReadServed
    <2>3. \A k \in reads' : k.got \in GotAnswer(DOMAIN variantRow) => Ours(k.got.variants)
      BY <2>2, AnswerIsOurs
    <2> QED BY <1>1, <1>b, <2>3 DEF ReadServed, signInVars, tables, inFlight
  <1>2. ASSUME NEW r \in reads, ReadArrives(r) PROVE BasesInv'
    <2>1. r.got \in GotAnswer(DOMAIN variantRow)
      BY <1>2, <1>c DEF ReadArrives, Answers, Unread, Refused
    <2>2. view'.variants = r.got.variants
      BY <1>2 DEF ReadArrives
    <2>3. OurBase(newVariant'.base)
      BY <1>2, <2>1, OfferedBases DEF ReadArrives, NoVariantDialog
    <2> QED BY <1>2, <1>b, <2>1, <2>2, <2>3 DEF ReadArrives, signInVars, tables, inFlight
  <1>3. ASSUME NEW r \in reads, ReadFails(r) PROVE BasesInv'
    <2>1. view'.variants = view.variants
      BY <1>3, <1>e DEF ReadFails
    <2> QED BY <1>3, <1>b, <2>1 DEF ReadFails, signInVars, tables, inFlight
  <1>4. ASSUME NEW s \in view.variants, ChooseBase(s) PROVE BasesInv'
    <2>1. newVariant'.base = s.id
      BY <1>4, <1>d DEF ChooseBase
    <2>2. OurBase(s.id)
      BY DEF Ours, OurBase
    <2> QED BY <1>4, <1>b, <2>1, <2>2 DEF ChooseBase, signInVars, tables, inFlight
  <1>5. ASSUME NEW open \in BOOLEAN, HandleOpen(open) PROVE BasesInv'
    <2>1. newVariant'.base = newVariant.base
      BY <1>5, <1>d DEF HandleOpen
    <2> QED BY <1>5, <1>b, <2>1 DEF HandleOpen, signInVars, tables, inFlight
  <1>6. CASE HandleCreateVariant
    <2>1. OurBase(newVariant'.base)
      BY <1>6, <1>d, OfferedBases DEF HandleCreateVariant
    <2>2. ASSUME NEW c \in creations', c \notin creations PROVE CreationInv(c)
      BY <1>6, <2>2 DEF HandleCreateVariant, OnProject, CreationInv, OurBase
    <2> QED BY <1>6, <1>b, <2>1, <2>2 DEF HandleCreateVariant, signInVars, tables
  <1>7. CASE UNCHANGED <<at, variantRow, view, newVariant, reads, creations>>
    BY <1>7, <1>b
  <1> QED
    BY <1>a, <1>1, <1>2, <1>3, <1>4, <1>5, <1>6, <1>7
    DEF PageStep, FollowSidebar, OpenProject, HandleDelete,
        OpenVariant, HandleToggleCompare, OpenComparison, LeaveWorkspace,
        OpenProjectDialog, HandleCreateProject, ChangeMembers, MembersNotChanged,
        tables, inFlight, signInVars

LEMMA CallStepBases ==
  ASSUME PagesTypeOK, BasesInv, CallStep
  PROVE  BasesInv'
  <1> USE DEF BasesInv
  <1>0. /\ creations \subseteq Creation(DOMAIN variantRow)
        /\ \A v \in DOMAIN variantRow : variantRow[v] \in StoredVariant
        /\ view \in [loading : BOOLEAN, for : Whose, projects : SUBSET Projects,
                     variants : SUBSET ShownVariant(DOMAIN variantRow)]
    BY DEF PagesTypeOK, PageTypes, CallTypes, TableTypes
  <1>a. ASSUME UNCHANGED <<at, newVariant, variantRow>>,
               Ours(view'.variants),
               \A r \in reads' : r.got \in GotAnswer(DOMAIN variantRow) => Ours(r.got.variants),
               \A c \in creations' : CreationInv(c)
        PROVE  BasesInv'
    BY <1>a DEF Ours, OurBase, CreationInv, VariantsOf
  <1>1. ASSUME NEW d \in deletions, ProjectDeleted(d) PROVE BasesInv'
    <2>1. view'.variants = view.variants
      BY <1>1, <1>0 DEF ProjectDeleted
    <2> QED BY <1>1, <1>a, <2>1 DEF ProjectDeleted, signInVars, tables
  <1>2. ASSUME NEW c \in makings, ProjectCreated(c) PROVE BasesInv'
    <2>1. view'.variants = view.variants
      BY <1>2, <1>0 DEF ProjectCreated
    <2>2. \A r \in reads' : r \in reads \/ r.got = Unread
      BY <1>2 DEF ProjectCreated, ReadsOf
    <2>3. Unread \notin GotAnswer(DOMAIN variantRow)
      BY DEF Unread, GotAnswer
    <2> QED BY <1>2, <1>a, <2>1, <2>2, <2>3 DEF ProjectCreated, tables
  <1>3. ASSUME NEW p \in Projects, NEW u \in People, NEW base \in VariantIds \cup {Unset},
               CreateElsewhere(p, u, base)
        PROVE  BasesInv'
    <2>1. ASSUME NEW c \in creations', c \notin creations PROVE CreationInv(c)
      BY <1>3, <2>1 DEF CreateElsewhere, CreationInv
    <2> QED BY <1>3, <1>a, <2>1 DEF CreateElsewhere, signInVars, tables
  <1>4. ASSUME NEW c \in creations, CountVariants(c) PROVE BasesInv'
    <2>1. LET d == [c EXCEPT !.counted = TRUE, !.main = VariantsOf(c.project) = {}]
          IN  d.base = c.base /\ d.id = c.id /\ d.project = c.project /\ d.heard = c.heard
      BY <1>0 DEF Creation
    <2>2. \A d \in creations' : CreationInv(d)
      BY <1>4, <2>1 DEF CountVariants, CreationInv
    <2> QED BY <1>4, <1>a, <2>2 DEF CountVariants, signInVars, tables
  <1>5. ASSUME NEW c \in creations, NEW v \in VariantIds, SaveVariant(c, v)
        PROVE  BasesInv'
    <2>1. /\ v \notin DOMAIN variantRow /\ c.id = Unset
          /\ DOMAIN variantRow' = DOMAIN variantRow \cup {v}
          /\ \A w \in DOMAIN variantRow : variantRow'[w] = variantRow[w]
          /\ variantRow'[v].project = c.project /\ variantRow'[v].base = c.base
          /\ creations' = (creations \ {c}) \cup {[c EXCEPT !.id = v]}
          /\ UNCHANGED <<at, view, reads, newVariant>>
      BY <1>5 DEF SaveVariant, signInVars
    <2>2. \A p : VariantsOf(p) \subseteq VariantsOf(p)'
      BY <2>1 DEF VariantsOf
    <2>3. v \in VariantsOf(c.project)'
      BY <2>1 DEF VariantsOf
    <2>4. LET d == [c EXCEPT !.id = v]
          IN  d.base = c.base /\ d.id = v /\ d.project = c.project /\ d.heard = c.heard
      BY <1>0 DEF Creation
    <2>5. \A d \in creations' : CreationInv(d)'
      BY <2>1, <2>2, <2>3, <2>4 DEF CreationInv
    <2>6. ASSUME NEW w \in DOMAIN variantRow', variantRow'[w].base # Unset
          PROVE  variantRow'[w].base \in {x \in DOMAIN variantRow' :
                                           variantRow'[x].project = variantRow'[w].project}
      <3>1. CASE w = v
        BY <2>1, <2>6, <3>1 DEF CreationInv, VariantsOf
      <3>2. CASE w # v
        BY <2>1, <2>6, <3>2 DEF VariantsOf
      <3> QED BY <3>1, <3>2
    <2>7. \A S : Ours(S) => Ours(S)'
      BY <2>1, <2>2 DEF Ours
    <2>8. \A r \in reads : r.got \in GotAnswer(DOMAIN variantRow') => r.got \in GotAnswer(DOMAIN variantRow)
      <3>1. ASSUME NEW r \in reads, r.got \in GotAnswer(DOMAIN variantRow')
            PROVE  r.got \in GotAnswer(DOMAIN variantRow)
        BY <3>1 DEF PagesTypeOK, PageTypes, Answers, GotAnswer, Unread, Refused
      <3> QED BY <3>1
    <2>9. OurBase(newVariant.base)'
      BY <2>1, <2>2 DEF OurBase
    <2> QED BY <2>1, <2>5, <2>6, <2>7, <2>8, <2>9 DEF VariantsOf
  <1>6. ASSUME NEW c \in creations, VariantCreated(c) PROVE BasesInv'
    <2>1. view'.variants \subseteq view.variants \cup (IF c.heard THEN {Shown(c.id)} ELSE {})
      BY <1>6, <1>0 DEF VariantCreated
    <2>2. c.heard => Ours({Shown(c.id)})
      BY <1>6 DEF VariantCreated, CreationInv, Ours, Shown
    <2>3. Ours(view'.variants)
      BY <2>1, <2>2 DEF Ours
    <2> QED BY <1>6, <1>a, <2>3 DEF VariantCreated, tables
  <1>7. ASSUME NEW v \in VariantIds, Imported(v) PROVE BasesInv'
    <2>1. /\ DOMAIN variantRow' = DOMAIN variantRow
          /\ UNCHANGED <<at, creations, view, reads, newVariant>>
          /\ \A w \in DOMAIN variantRow : /\ variantRow'[w].project = variantRow[w].project
                                          /\ variantRow'[w].base = variantRow[w].base
      BY <1>7, <1>0 DEF Imported, StoredVariant, inFlight
    <2>2. \A p : VariantsOf(p)' = VariantsOf(p)
      BY <2>1 DEF VariantsOf
    <2> QED BY <2>1, <2>2 DEF Ours, OurBase, CreationInv
  <1>8. CASE UNCHANGED <<at, newVariant, variantRow, view, reads>> /\ creations' \subseteq creations
    BY <1>8, <1>a
  <1> QED
    BY <1>1, <1>2, <1>3, <1>4, <1>5, <1>6, <1>7, <1>8
    DEF CallStep, DeleteProject, DeletionFails, CreateProjectBundle, ProjectNotCreated,
        VariantNotCreated, tables, signInVars

\* Variants are copies of variants of their own project, although the server takes
\* any base: no late answer, nor a page that was left, offers one of another project.
THEOREM ForksAlwaysInProject == ProjectsSpec => []ForksStayInProject
  <1>1. ProjectsInit => BasesInv
    BY DEF ProjectsInit, BasesInv, EmptyView, NoVariantDialog, ReadsOf, Ours, OurBase, Unread,
       GotAnswer
  <1>2. PagesTypeOK /\ BasesInv /\ [ProjectsNext]_<<signInVars, projectVars>> => BasesInv'
    <2>1. CASE Moving(SignInStep)
      BY <2>1, MovingBases DEF Moving
    <2>2. CASE PageStep
      BY <2>2, PageStepBases
    <2>3. CASE CallStep
      BY <2>3, CallStepBases
    <2>4. CASE UNCHANGED <<signInVars, projectVars>>
      BY <2>4 DEF BasesInv, Ours, OurBase, CreationInv, VariantsOf, projectVars, signInVars
    <2> QED BY <2>1, <2>2, <2>3, <2>4 DEF ProjectsNext
  <1>3. BasesInv => ForksStayInProject
    BY DEF BasesInv, ForksStayInProject, VariantsOf
  <1> QED BY <1>1, <1>2, <1>3, PagesTypeCorrect, PTL DEF ProjectsSpec

-----------------------------------------------------------------------------
\* Who sees what.

\* On the login page there is nothing, and nothing is heard of.
Bare == /\ view.for = NoOne /\ view.projects = {} /\ view.variants = {} /\ reads = {}
        /\ profile = NoProfile
        /\ \A c \in creations \cup makings : ~c.heard

SeenInv ==
  /\ person = NoOne => at = Login
  /\ login # "idle" => at = Login
  /\ at # Login => person \in present
  /\ at = Login => Bare
  /\ view.for \in present \cup {NoOne}
  /\ \A r \in reads : r.who \in present

\* The page that is mounted belongs to whoever is signed in.
LEMMA MountedSeen ==
  ASSUME PagesTypeOK, Mounted,
         person' = NoOne => at' = Login, login' = "idle",
         at' # Login => person' \in present',
         at' = Login => profile' = NoProfile
  PROVE  SeenInv'
  <1>1. view'.for = NoOne /\ view'.projects = {} /\ view'.variants = {}
    BY DEF Mounted, EmptyView
  <1>2. \A r \in reads' : at' # Login /\ r.who = person'
    BY DEF Mounted, ReadsOf, Login, At, Reading
  <1>3. \A c \in creations : [c EXCEPT !.heard = FALSE].heard = FALSE
    BY DEF PagesTypeOK, CallTypes, Creation
  <1>4. \A c \in makings : [c EXCEPT !.heard = FALSE].heard = FALSE
    BY DEF PagesTypeOK, CallTypes
  <1>5. \A c \in creations' \cup makings' : ~c.heard
    BY <1>3, <1>4 DEF Mounted, Unheard
  <1> QED BY <1>1, <1>2, <1>5 DEF SeenInv, Bare

LEMMA MovingSeen ==
  ASSUME PagesTypeOK, SeenInv, SignInStep \/ \E page : FollowLink(page),
         IF at' = at
         THEN UNCHANGED <<view, reads, newProject, newVariant, compared, inFlight, memberCall>>
         ELSE Mounted
  PROVE  SeenInv'
  <1> USE DEF SeenInv
  <1>1. ASSUME NEW page, Arrive(page) PROVE SeenInv'
    <2>1. CASE at' = at
      BY <1>1, <2>1 DEF Arrive, Bare, inFlight
    <2>2. CASE at' # at
      <3>1. person' = NoOne => at' = Login
        BY <1>1 DEF Arrive
      <3>2. at' # Login => person' \in present'
        BY <1>1, <2>2 DEF Arrive
      <3>3. at' = Login => profile' = NoProfile
        BY <1>1, <2>2 DEF Arrive, ProfileAt, Login, At
      <3>4. login' = "idle"
        BY <1>1, <2>2 DEF Arrive
      <3> QED BY <2>2, <3>1, <3>2, <3>3, <3>4, MountedSeen
    <2> QED BY <2>1, <2>2
  <1>2. CASE HandleLogin \/ SyncMe \/ LoginDone \/ LoginFails
    BY <1>2 DEF HandleLogin, SyncMe, LoginDone, LoginFails, Bare, inFlight, Push
  <1>3. CASE SignOut
    BY <1>3, MountedSeen DEF SignOut
  <1>4. CASE ProfileArrives \/ ProfileFails
    BY <1>4 DEF ProfileArrives, ProfileFails, Bare, NoProfile, inFlight
  <1>5. ASSUME NEW u \in People, SignedIn(u) PROVE SeenInv'
    BY <1>5, PeopleAssumption DEF SignedIn, Bare, inFlight
  <1>6. ASSUME NEW u \in People, SwitchedElsewhere(u) PROVE SeenInv'
    <2>1. UNCHANGED <<at, login, view, reads, creations, makings>> /\ person' = u
      BY <1>6 DEF SwitchedElsewhere, inFlight
    <2>2. CASE at = Login
      BY <1>6, <2>1, <2>2, PeopleAssumption DEF SwitchedElsewhere, Bare, Login, At
    <2>3. CASE at # Login
      BY <1>6, <2>1, <2>3, PeopleAssumption DEF SwitchedElsewhere
    <2> QED BY <2>2, <2>3
  <1> QED BY <1>1, <1>2, <1>3, <1>4, <1>5, <1>6 DEF SignInStep, Navigate, FollowLink

LEMMA PageStepSeen ==
  ASSUME PagesTypeOK, SeenInv, PageStep
  PROVE  SeenInv'
  <1> USE DEF SeenInv
  <1>a. ASSUME NEW page, Moving(FollowLink(page)) PROVE SeenInv'
    BY <1>a, MovingSeen DEF Moving
  <1>b. ASSUME UNCHANGED signInVars,
               at = Login => view'.for = NoOne /\ view'.projects = {} /\ view'.variants = {} /\ reads' = {},
               at = Login => \A c \in creations' \cup makings' : ~c.heard,
               view'.for \in present \cup {NoOne},
               \A r \in reads' : r.who \in present
        PROVE  SeenInv'
    BY <1>b DEF Bare, signInVars
  <1>c. \A r \in reads : r \in [who : Whose, got : Answers(DOMAIN variantRow)]
    BY DEF PagesTypeOK, PageTypes
  <1>d. view \in [loading : BOOLEAN, for : Whose, projects : SUBSET Projects,
                  variants : SUBSET ShownVariant(DOMAIN variantRow)]
    BY DEF PagesTypeOK, PageTypes
  <1>1. ASSUME NEW r \in reads, ReadServed(r) PROVE SeenInv'
    <2>1. [r EXCEPT !.got = Answer(at, r.who)].who = r.who
      BY <1>c
    <2>2. \A k \in reads' : k.who \in present
      BY <1>1, <2>1 DEF ReadServed
    <2> QED BY <1>1, <1>b, <2>2 DEF ReadServed, Bare, inFlight
  <1>2. ASSUME NEW r \in reads, ReadArrives(r) PROVE SeenInv'
    <2>1. at # Login
      BY DEF Bare
    <2>2. view'.for = r.who
      BY <1>2 DEF ReadArrives
    <2> QED BY <1>2, <1>b, <2>1, <2>2 DEF ReadArrives
  <1>3. ASSUME NEW r \in reads, ReadFails(r) PROVE SeenInv'
    <2>1. view'.for = view.for
      BY <1>3, <1>d DEF ReadFails
    <2>2. at # Login
      BY DEF Bare
    <2> QED BY <1>3, <1>b, <2>1, <2>2 DEF ReadFails
  <1>4. CASE HandleCreateVariant \/ HandleCreateProject
    <2>a. at.page \in {"project", "projects"}
      BY <1>4 DEF HandleCreateVariant, HandleCreateProject, OnProject
    <2>1. at # Login
      BY <2>a DEF Login, At
    <2>2. UNCHANGED <<signInVars, view, reads>>
      BY <1>4 DEF HandleCreateVariant, HandleCreateProject
    <2> QED BY <1>b, <2>1, <2>2
  <1>5. CASE UNCHANGED <<signInVars, view, reads, creations, makings>>
    BY <1>5, <1>b DEF Bare
  <1> QED
    BY <1>a, <1>1, <1>2, <1>3, <1>4, <1>5
    DEF PageStep, FollowSidebar, OpenProject, HandleDelete, ChooseBase, HandleOpen,
        OpenVariant, HandleToggleCompare, OpenComparison, LeaveWorkspace,
        OpenProjectDialog, ChangeMembers, MembersNotChanged, inFlight

LEMMA CallStepSeen ==
  ASSUME PagesTypeOK, SeenInv, CallStep
  PROVE  SeenInv'
  <1> USE DEF SeenInv
  <1>0. /\ creations \subseteq Creation(DOMAIN variantRow)
        /\ makings \subseteq [who : Whose, id : Projects \cup {Unset}, heard : BOOLEAN, nth : Nat]
        /\ view \in [loading : BOOLEAN, for : Whose, projects : SUBSET Projects,
                     variants : SUBSET ShownVariant(DOMAIN variantRow)]
    BY DEF PagesTypeOK, PageTypes, CallTypes
  <1>b. ASSUME UNCHANGED <<person, login, at, present, profile>>,
               at = Login => view'.for = NoOne /\ view'.projects = {} /\ view'.variants = {} /\ reads' = {},
               at = Login => \A c \in creations' \cup makings' : ~c.heard,
               view'.for \in present \cup {NoOne},
               \A r \in reads' : r.who \in present
        PROVE  SeenInv'
    BY <1>b DEF Bare
  <1>1. ASSUME NEW d \in deletions, ProjectDeleted(d) PROVE SeenInv'
    <2>1. /\ view'.for = view.for /\ view'.variants = view.variants
          /\ view'.projects \subseteq view.projects
      BY <1>1, <1>0 DEF ProjectDeleted
    <2> QED BY <1>1, <1>b, <2>1 DEF ProjectDeleted, Bare, signInVars
  <1>2. ASSUME NEW c \in makings, ProjectCreated(c) PROVE SeenInv'
    <2>1. /\ view'.for = view.for /\ view'.variants = view.variants
          /\ view'.projects = view.projects
      BY <1>2, <1>0 DEF ProjectCreated
    <2>2. \A r \in reads' : r \in reads \/ (c.heard /\ r.who = person)
      BY <1>2 DEF ProjectCreated, ReadsOf
    <2>3. c.heard => at # Login
      BY DEF Bare
    <2> QED BY <1>2, <1>b, <2>1, <2>2, <2>3 DEF ProjectCreated, Bare
  <1>3. ASSUME NEW c \in makings, NEW p \in Projects, CreateProjectBundle(c, p) PROVE SeenInv'
    <2>1. [c EXCEPT !.id = p].heard = c.heard
      BY <1>0
    <2> QED BY <1>3, <1>b, <2>1 DEF CreateProjectBundle, Bare, signInVars
  <1>4. ASSUME NEW p \in Projects, NEW u \in People, NEW base \in VariantIds \cup {Unset},
               CreateElsewhere(p, u, base)
        PROVE  SeenInv'
    BY <1>4, <1>b DEF CreateElsewhere, Bare, signInVars
  <1>5. ASSUME NEW c \in creations, NEW v \in VariantIds, SaveVariant(c, v) PROVE SeenInv'
    <2>1. [c EXCEPT !.id = v].heard = c.heard
      BY <1>0 DEF Creation
    <2> QED BY <1>5, <1>b, <2>1 DEF SaveVariant, Bare, signInVars
  <1>6. ASSUME NEW c \in creations, CountVariants(c) PROVE SeenInv'
    <2>1. [c EXCEPT !.counted = TRUE, !.main = VariantsOf(c.project) = {}].heard = c.heard
      BY <1>0 DEF Creation
    <2> QED BY <1>6, <1>b, <2>1 DEF CountVariants, Bare, signInVars
  <1>7. ASSUME NEW c \in creations, VariantCreated(c) PROVE SeenInv'
    <2>1. view'.for = view.for /\ view'.projects = view.projects
      BY <1>7, <1>0 DEF VariantCreated
    <2>2. c.heard => at # Login
      BY DEF Bare
    <2> QED BY <1>7, <1>b, <2>1, <2>2 DEF VariantCreated, Bare
  <1>8. CASE /\ UNCHANGED <<person, login, at, present, profile, view, reads>>
             /\ creations' \subseteq creations /\ makings' \subseteq makings
    BY <1>8, <1>b DEF Bare
  <1> QED
    BY <1>1, <1>2, <1>3, <1>4, <1>5, <1>6, <1>7, <1>8
    DEF CallStep, DeleteProject, DeletionFails, ProjectNotCreated, VariantNotCreated, Imported,
        inFlight, signInVars

\* What a page shows was answered to somebody signed in while it was there, and
\* nothing of it is left after they sign out, in this tab or another.
THEOREM ShownIsForUser == ProjectsSpec => []ShownForUser
  <1>1. ProjectsInit => SeenInv
    BY PeopleAssumption
    DEF ProjectsInit, SignInInit, SeenInv, Bare, EmptyView, ReadsOf, Reading, NoProfile, Login, Home, At
  <1>2. PagesTypeOK /\ SeenInv /\ [ProjectsNext]_<<signInVars, projectVars>> => SeenInv'
    <2>1. CASE Moving(SignInStep)
      BY <2>1, MovingSeen DEF Moving
    <2>2. CASE PageStep
      BY <2>2, PageStepSeen
    <2>3. CASE CallStep
      BY <2>3, CallStepSeen
    <2>4. CASE UNCHANGED <<signInVars, projectVars>>
      BY <2>4 DEF SeenInv, Bare, projectVars, signInVars
    <2> QED BY <2>1, <2>2, <2>3, <2>4 DEF ProjectsNext
  <1>3. SeenInv => ShownForUser
    BY DEF SeenInv, Bare, ShownForUser, NoProfile
  <1> QED BY <1>1, <1>2, <1>3, PagesTypeCorrect, PTL DEF ProjectsSpec
-----------------------------------------------------------------------------
\* The import: what its states are made of.

OneImport == [stage : Stages, files : SUBSET Files]

Early == {"none", "planning", "uploading"}
Past == {"asking layout", "layout", "asking review", "review", "done"}
NotYet == Early \cup {"updating", "error"}
Putting == {"planning", "uploading"}

\* A row that names the root of an import whose upload is complete; files that are
\* those of one import.
NamesWhole(r) ==
  /\ r.root \in Imports /\ r.root <= started
  /\ root[r.root] = flow[r.root].files /\ flow[r.root].stage \notin Putting
IsWhole(F) == \E k \in Imports : k <= started /\ F = flow[k].files

\* What a worker has read: a whole upload, a row that names one, and the files of the
\* graph, which are still its files unless another job has committed since.
JobRight(i, job) ==
  /\ job.work # "none" => i <= started
  /\ job.work \in {"read", "found"} => IsWhole(job.read)
  /\ job.work = "found" => NamesWhole(job.row)
  /\ job.work = "found" /\ ~job.passed => job.found = graph /\ job.gone = {}

\* What has been uploaded, and who names it.
Fresh == \A i \in Imports : i > started =>
           flow[i].stage = "none" /\ graphJob[i] = NoJob /\ root[i] = {}
Uploaded == \A i \in Imports : flow[i].stage = "updating" => root[i] = flow[i].files
Named == savedAs.root # NoRoot => NamesWhole(savedAs)
Unasked == savedAs.root = NoRoot =>
             \A i \in Imports : graphJob[i].work = "none" /\ flow[i].stage \in NotYet
JobsRight == \A i \in Imports : JobRight(i, graphJob[i])
WholeGraph == torn \/ graph = OldFiles \/ IsWhole(graph)
WholeInv == Fresh /\ Uploaded /\ Named /\ Unasked /\ JobsRight /\ WholeGraph

\* An import with another stage, and a job that went on, are what they were.
LEMMA ImportGoesOn ==
  ASSUME NEW x \in OneImport, NEW s \in Stages
  PROVE  [x EXCEPT !.stage = s] \in OneImport
  BY DEF OneImport

LEMMA ReachesStage ==
  ASSUME NEW i \in Imports, NEW stage \in Stages, Reach(i, stage), flow \in [Imports -> OneImport]
  PROVE  /\ flow' \in [Imports -> OneImport]
         /\ flow'[i].stage = stage
         /\ \A j \in Imports : flow'[j].files = flow[j].files
         /\ \A j \in Imports : j # i => flow'[j] = flow[j]
  <1>1. [flow[i] EXCEPT !.stage = stage] \in OneImport
    BY ImportGoesOn
  <1>2. flow' = [flow EXCEPT ![i] = [flow[i] EXCEPT !.stage = stage]]
    BY DEF Reach
  <1>3. flow'[i] = [flow[i] EXCEPT !.stage = stage]
    BY <1>2
  <1>4. flow[i] \in OneImport
    OBVIOUS
  <1>5. flow'[i].stage = stage /\ flow'[i].files = flow[i].files
    BY <1>3, <1>4 DEF OneImport
  <1> QED BY <1>1, <1>2, <1>5

\* A job in each place of its way.
Forgot(n, s, w) == [NoJob EXCEPT !.status = s, !.work = w, !.tries = n]
HasRead(x, F) == [x EXCEPT !.status = "running", !.work = "read", !.tries = @ + 1, !.read = F]
HasFound(x, r, G) ==
  [x EXCEPT !.work = "found", !.row = r, !.found = G, !.gone = {}, !.passed = FALSE]
WasPassed(x, D) == [x EXCEPT !.gone = @ \cup D, !.passed = TRUE]

LEMMA JobForgets ==
  ASSUME NEW n \in 0 .. MaxTries, NEW s \in JobStatus, NEW w \in Works
  PROVE  /\ Forgot(n, s, w) \in JobRecords
         /\ Forgot(n, s, w).status = s /\ Forgot(n, s, w).work = w
  BY DEF Forgot, NoJob, JobRecords, SavedRows, OldRow, NoRoot

LEMMA JobReads ==
  ASSUME NEW x \in JobRecords, NEW F \in SUBSET Files, x.tries < MaxTries
  PROVE  /\ HasRead(x, F) \in JobRecords /\ HasRead(x, F).status = "running"
         /\ HasRead(x, F).work = "read" /\ HasRead(x, F).read = F
  <1>1. x.tries + 1 \in 0 .. MaxTries
    BY MaxTriesAssumption DEF JobRecords
  <1> QED BY <1>1 DEF HasRead, JobRecords, JobStatus, Works

LEMMA JobFinds ==
  ASSUME NEW x \in JobRecords, NEW r \in SavedRows, NEW G \in SUBSET FileRows
  PROVE  /\ HasFound(x, r, G) \in JobRecords
         /\ HasFound(x, r, G).status = x.status /\ HasFound(x, r, G).work = "found"
         /\ HasFound(x, r, G).read = x.read /\ HasFound(x, r, G).row = r
         /\ HasFound(x, r, G).found = G /\ HasFound(x, r, G).gone = {}
         /\ ~HasFound(x, r, G).passed
  BY DEF HasFound, JobRecords, Works

LEMMA JobPassed ==
  ASSUME NEW x \in JobRecords, NEW D \in SUBSET FileRows
  PROVE  /\ WasPassed(x, D) \in JobRecords
         /\ WasPassed(x, D).status = x.status /\ WasPassed(x, D).work = x.work
         /\ WasPassed(x, D).read = x.read /\ WasPassed(x, D).row = x.row
         /\ WasPassed(x, D).passed
  BY DEF WasPassed, JobRecords

LEMMA ImportsAreNumbers ==
  ASSUME started \in 0 .. MaxImports
  PROVE  /\ Imports \subseteq Nat /\ started \in Nat /\ 1 .. started \subseteq Imports
         /\ NoRoot \notin Imports
         /\ \A i \in Imports : i <= started <=> i \in 1 .. started
  BY MaxImportsAssumption DEF Imports, NoRoot

LEMMA NextImport ==
  ASSUME started \in 0 .. MaxImports, started < MaxImports
  PROVE  started + 1 \in Imports /\ started + 1 \in 0 .. MaxImports
  BY MaxImportsAssumption DEF Imports

LEMMA LastImport ==
  ASSUME started \in 0 .. MaxImports, started > 0
  PROVE  started \in Imports
  BY MaxImportsAssumption DEF Imports

\* What a commit does to the graph and to the jobs.
LEMMA Committed ==
  ASSUME ImportTypeOK, NEW i \in Imports, SyncCommits(i)
  PROVE  /\ graphJob[i].work = "found" /\ UNCHANGED <<flow, Form, started, mixed, upload, root>>
         /\ torn' = graphJob[i].passed /\ savedAs' = graphJob[i].row
         /\ graph' \subseteq FileRows
         /\ graphJob[i].found = graph /\ graphJob[i].gone = {} => graph' = graphJob[i].read
         /\ graphJob' \in [Imports -> JobRecords]
         /\ graphJob'[i].work = "synced" /\ graphJob'[i].status = "running"
         /\ \A j \in Imports : j # i => (graphJob[j].work # "found" /\ graphJob'[j] = graphJob[j]) \/
              /\ graphJob[j].work = "found" /\ graphJob'[j].work = "found"
              /\ graphJob'[j].status = graphJob[j].status /\ graphJob'[j].read = graphJob[j].read
              /\ graphJob'[j].row = graphJob[j].row /\ graphJob'[j].passed
  <1> DEFINE job == graphJob[i]
             made == job.read \ job.found
             dropped == (job.found \ job.gone) \ job.read
  <1>1. graphJob \in [Imports -> JobRecords] /\ graph \subseteq FileRows /\ job \in JobRecords
    BY DEF ImportTypeOK
  <1>2. made \in SUBSET FileRows /\ dropped \in SUBSET FileRows
    BY <1>1 DEF JobRecords, FileRows
  <1>3. graph' = (graph \ dropped) \cup made
    BY DEF SyncCommits
  <1>4. graphJob' = [j \in Imports |->
          IF j = i THEN Forgets(i, "running", "synced")
          ELSE IF InSync(j) THEN [graphJob[j] EXCEPT !.gone = @ \cup dropped, !.passed = TRUE]
          ELSE graphJob[j]]
    BY DEF SyncCommits
  <1>5. /\ graphJob[i].work = "found" /\ UNCHANGED <<flow, Form, started, mixed, upload, root>>
        /\ torn' = graphJob[i].passed /\ savedAs' = graphJob[i].row
    BY DEF SyncCommits, Worker, InSync
  <1>6. graphJob[i].found = graph /\ graphJob[i].gone = {} => graph' = graphJob[i].read
    BY <1>3
  <1>7. graph' \subseteq FileRows
    BY <1>1, <1>2, <1>3
  <1> HIDE DEF dropped
  <1>8. graphJob'[i] = Forgets(i, "running", "synced")
    BY <1>4
  <1>9. graphJob'[i] \in JobRecords /\ graphJob'[i].work = "synced" /\ graphJob'[i].status = "running"
    <2>1. graphJob[i].tries \in 0 .. MaxTries /\ "running" \in JobStatus /\ "synced" \in Works
      BY <1>1 DEF JobRecords, JobStatus, Works
    <2>2. PICK n \in 0 .. MaxTries : n = graphJob[i].tries
      BY <2>1
    <2>3. graphJob'[i] = Forgot(n, "running", "synced")
      BY <1>8, <2>2 DEF Forgets, Forgot
    <2> QED BY <2>1, <2>3, JobForgets
  <1>10. ASSUME NEW j \in Imports, j # i
         PROVE  /\ graphJob'[j] \in JobRecords
                /\ (graphJob[j].work # "found" /\ graphJob'[j] = graphJob[j]) \/
                   /\ graphJob[j].work = "found" /\ graphJob'[j].work = "found"
                   /\ graphJob'[j].status = graphJob[j].status
                   /\ graphJob'[j].read = graphJob[j].read
                   /\ graphJob'[j].row = graphJob[j].row /\ graphJob'[j].passed
    <2>1. graphJob[j] \in JobRecords
      BY <1>1
    <2>2. CASE InSync(j)
      <3>1. graphJob'[j] = [graphJob[j] EXCEPT !.gone = @ \cup dropped, !.passed = TRUE]
        BY <1>4, <1>10, <2>2
      <3>2. PICK x \in JobRecords : x = graphJob[j]
        BY <2>1
      <3>3. graphJob'[j] = WasPassed(x, dropped)
        BY <3>1, <3>2 DEF WasPassed
      <3>4. /\ graphJob'[j] \in JobRecords /\ graphJob'[j].status = x.status
            /\ graphJob'[j].work = x.work /\ graphJob'[j].read = x.read
            /\ graphJob'[j].row = x.row /\ graphJob'[j].passed
        BY <1>2, <3>3, JobPassed
      <3> QED BY <2>2, <3>2, <3>4 DEF InSync
    <2>3. CASE ~InSync(j)
      BY <1>4, <1>10, <2>1, <2>3 DEF InSync
    <2> QED BY <2>2, <2>3
  <1>11. graphJob' \in [Imports -> JobRecords]
    <2>1. \A j \in Imports : graphJob'[j] \in JobRecords
      BY <1>9, <1>10
    <2>2. graphJob' = [j \in Imports |-> graphJob'[j]]
      BY <1>4
    <2> QED BY <2>1, <2>2
  <1> QED BY <1>5, <1>6, <1>7, <1>9, <1>10, <1>11

\* A turn of a worker that keeps the rows of the others.
LEMMA Turned ==
  ASSUME ImportTypeOK, NEW i \in Imports, NEW s \in JobStatus, NEW w \in Works, Turns(i, s, w)
  PROVE  /\ UNCHANGED <<flow, Form, started, mixed, upload, root, savedAs, graph, torn>>
         /\ graphJob' \in [Imports -> JobRecords]
         /\ graphJob'[i].work = w /\ graphJob'[i].status = s
         /\ \A j \in Imports : j # i => graphJob'[j] = graphJob[j]
  <1>1. graphJob \in [Imports -> JobRecords] /\ graphJob[i] \in JobRecords
    BY DEF ImportTypeOK
  <1>2. graphJob[i].tries \in 0 .. MaxTries
    BY <1>1 DEF JobRecords
  <1>3. graphJob' = [graphJob EXCEPT ![i] = Forgets(i, s, w)]
    BY DEF Turns
  <1>4. graphJob'[i] = Forgets(i, s, w)
    BY <1>1, <1>3
  <1>5. graphJob'[i] \in JobRecords /\ graphJob'[i].work = w /\ graphJob'[i].status = s
    <2>1. PICK n \in 0 .. MaxTries : n = graphJob[i].tries
      BY <1>2
    <2>2. graphJob'[i] = Forgot(n, s, w)
      BY <1>4, <2>1 DEF Forgets, Forgot
    <2> QED BY <2>2, JobForgets
  <1>6. \A j \in Imports : j # i => graphJob'[j] = graphJob[j]
    BY <1>1, <1>3
  <1>7. graphJob' \in [Imports -> JobRecords]
    BY <1>1, <1>3, <1>4, <1>5
  <1> QED BY <1>5, <1>6, <1>7 DEF Turns, Worker, OtherRows

\* Every step of a job but a start, a reading and a commit is such a turn.
OtherTurn(i) ==
  \/ GraphJobSucceeds(i) \/ GraphJobExits(i) \/ GraphJobFails(i) \/ GraphJobDies(i)

LEMMA OtherTurned ==
  ASSUME ImportTypeOK, NEW i \in Imports, OtherTurn(i)
  PROVE  /\ UNCHANGED <<flow, Form, started, mixed, upload, root, savedAs, graph, torn>>
         /\ graphJob' \in [Imports -> JobRecords]
         /\ graphJob[i].work \in {"read", "found", "synced", "saved"}
         /\ graphJob'[i].work \in {"saved", "exited", "out"}
         /\ graphJob'[i].work \in {"saved", "exited"} => graphJob[i].work \in {"synced", "saved"}
         /\ graphJob'[i].status = "succeeded" =>
              graphJob[i].status = "succeeded" \/ graphJob[i].work \in {"synced", "saved"}
         /\ \A j \in Imports : j # i => graphJob'[j] = graphJob[j]
  <1>1. /\ "succeeded" \in JobStatus /\ "failed" \in JobStatus
        /\ "saved" \in Works /\ "exited" \in Works /\ "out" \in Works
    BY DEF JobStatus, Works
  <1>2. graphJob[i].status \in JobStatus
    <2>1. graphJob[i] \in JobRecords
      BY DEF ImportTypeOK
    <2> QED BY <2>1 DEF JobRecords
  <1>3. CASE GraphJobSucceeds(i)
    BY <1>1, <1>3, Turned DEF GraphJobSucceeds
  <1>4. CASE GraphJobExits(i)
    BY <1>1, <1>4, Turned DEF GraphJobExits
  <1>5. CASE GraphJobFails(i)
    BY <1>1, <1>5, Turned DEF GraphJobFails
  <1>6. CASE GraphJobDies(i)
    BY <1>1, <1>2, <1>6, Turned DEF GraphJobDies
  <1> QED BY <1>3, <1>4, <1>5, <1>6 DEF OtherTurn

\* A start reads the root that the row names.
LEMMA Started ==
  ASSUME ImportTypeOK, NEW i \in Imports, GraphJobStarts(i), savedAs.root \in Imports
  PROVE  /\ UNCHANGED <<flow, Form, started, mixed, upload, root, savedAs, graph, torn>>
         /\ graphJob' \in [Imports -> JobRecords]
         /\ graphJob[i].work \in {"waits", "out"} /\ Unfinished(i)
         /\ graphJob'[i].work = "read" /\ graphJob'[i].status = "running"
         /\ graphJob'[i].read = root[savedAs.root]
         /\ \A j \in Imports : j # i => graphJob'[j] = graphJob[j]
  <1>1. graphJob \in [Imports -> JobRecords] /\ graphJob[i] \in JobRecords
    BY DEF ImportTypeOK
  <1>2. root[savedAs.root] \in SUBSET Files
    BY DEF ImportTypeOK
  <1>3. graphJob[i].work \in {"waits", "out"} /\ graphJob[i].tries < MaxTries
    BY DEF GraphJobStarts
  <1>4. graphJob'[i] = [graphJob[i] EXCEPT !.status = "running", !.work = "read",
                                            !.tries = @ + 1, !.read = root[savedAs.root]]
    BY <1>1 DEF GraphJobStarts
  <1>5. \A j \in Imports : j # i => graphJob'[j] = graphJob[j]
    BY <1>1 DEF GraphJobStarts
  <1>7. /\ graphJob'[i] \in JobRecords /\ graphJob'[i].work = "read"
        /\ graphJob'[i].status = "running" /\ graphJob'[i].read = root[savedAs.root]
    <2>1. PICK x \in JobRecords : x = graphJob[i]
      BY <1>1
    <2>2. PICK F \in SUBSET Files : F = root[savedAs.root]
      BY <1>2
    <2>3. x.tries < MaxTries
      BY <1>3, <2>1
    <2>4. graphJob'[i] = HasRead(x, F)
      BY <1>4, <2>1, <2>2 DEF HasRead
    <2> QED BY <2>2, <2>3, <2>4, JobReads
  <1>8. graphJob' \in [Imports -> JobRecords]
    BY <1>1, <1>7 DEF GraphJobStarts
  <1> QED BY <1>3, <1>5, <1>7, <1>8 DEF GraphJobStarts, Worker, OtherRows, Unfinished, Again

\* A reading takes the row and the rows of files as they are.
LEMMA FilesFound ==
  ASSUME ImportTypeOK, NEW i \in Imports, SyncReads(i)
  PROVE  /\ UNCHANGED <<flow, Form, started, mixed, upload, root, savedAs, graph, torn>>
         /\ graphJob' \in [Imports -> JobRecords]
         /\ graphJob[i].work = "read"
         /\ graphJob'[i].work = "found" /\ graphJob'[i].status = graphJob[i].status
         /\ graphJob'[i].read = graphJob[i].read /\ graphJob'[i].row = savedAs
         /\ graphJob'[i].found = graph /\ graphJob'[i].gone = {} /\ ~graphJob'[i].passed
         /\ \A j \in Imports : j # i => graphJob'[j] = graphJob[j]
  <1>1. /\ graphJob \in [Imports -> JobRecords] /\ graphJob[i] \in JobRecords
        /\ savedAs \in SavedRows /\ graph \in SUBSET FileRows
    BY DEF ImportTypeOK
  <1>2. graphJob'[i] = [graphJob[i] EXCEPT !.work = "found", !.row = savedAs,
                                            !.found = graph, !.gone = {}, !.passed = FALSE]
    BY <1>1 DEF SyncReads
  <1>3. \A j \in Imports : j # i => graphJob'[j] = graphJob[j]
    BY <1>1 DEF SyncReads
  <1>4. /\ graphJob'[i] \in JobRecords /\ graphJob'[i].work = "found"
        /\ graphJob'[i].status = graphJob[i].status
        /\ graphJob'[i].read = graphJob[i].read /\ graphJob'[i].row = savedAs
        /\ graphJob'[i].found = graph /\ graphJob'[i].gone = {} /\ ~graphJob'[i].passed
    <2>1. PICK x \in JobRecords : x = graphJob[i]
      BY <1>1
    <2>2. PICK r \in SavedRows : r = savedAs
      BY <1>1
    <2>3. PICK G \in SUBSET FileRows : G = graph
      BY <1>1
    <2>4. graphJob'[i] = HasFound(x, r, G)
      BY <1>2, <2>1, <2>2, <2>3 DEF HasFound
    <2> QED BY <2>1, <2>2, <2>3, <2>4, JobFinds
  <1>5. graphJob' \in [Imports -> JobRecords]
    BY <1>1, <1>4 DEF SyncReads
  <1> QED BY <1>3, <1>4, <1>5 DEF SyncReads, Worker, OtherRows

AskedJob == [NoJob EXCEPT !.status = "queued", !.work = "waits"]

LEMMA NoJobIsJob == NoJob \in JobRecords /\ NoJob.work = "none"
  <1>1. OldRow \in SavedRows
    BY DEF OldRow, SavedRows, NoRoot
  <1> QED BY <1>1, MaxTriesAssumption DEF NoJob, JobRecords, JobStatus, Works

LEMMA AskedIsJob == AskedJob \in JobRecords /\ AskedJob.work = "waits" /\ AskedJob.status = "queued"
  BY NoJobIsJob DEF AskedJob, JobRecords, JobStatus, Works

\* When a job can start, the row names a root.
LEMMA StartsAreNamed ==
  ASSUME ImportTypeOK, WholeInv, NEW i \in Imports, graphJob[i].work # "none"
  PROVE  /\ savedAs.root \in Imports /\ savedAs.root # NoRoot /\ i <= started
         /\ IsWhole(root[savedAs.root])
  <1>1. savedAs.root # NoRoot
    BY DEF WholeInv, Unasked
  <1>2. NamesWhole(savedAs)
    BY <1>1 DEF WholeInv, Named
  <1>3. i <= started
    BY DEF WholeInv, JobsRight, JobRight
  <1> QED BY <1>1, <1>2, <1>3 DEF NamesWhole, IsWhole

LEMMA ImportTypesStep ==
  ASSUME ImportTypeOK, WholeInv, [ImportNext]_importVars
  PROVE  ImportTypeOK'
  <1>t. /\ flow \in [Imports -> OneImport] /\ graphJob \in [Imports -> JobRecords]
        /\ root \in [Imports -> SUBSET Files] /\ savedAs \in SavedRows
    BY DEF ImportTypeOK, OneImport
  <1>a. ASSUME NEW i \in Imports, NEW stage \in Stages, Reach(i, stage)
        PROVE  flow' \in [Imports -> OneImport]
    BY <1>t, <1>a, ReachesStage
  <1> USE ImportAssumption DEF ImportTypeOK, Server, Form
  <1>1. ASSUME NEW F \in Folders, HandleFolderSelect(F) PROVE ImportTypeOK'
    BY <1>1 DEF HandleFolderSelect, Steps
  <1>2. ASSUME NEW R \in Rows, HandleToggle(R) PROVE ImportTypeOK'
    BY <1>2 DEF HandleToggle
  <1>3. ASSUME NEW S \in {allFiles, {}}, SelectAllOrNone(S) PROVE ImportTypeOK'
    BY <1>3 DEF SelectAllOrNone
  <1>4. ASSUME NEW s \in Steps, GoTo(s) PROVE ImportTypeOK'
    BY <1>4 DEF GoTo
  <1>5. CASE LeaveImport
    BY <1>5 DEF LeaveImport, FormGone, Steps
  <1>6. CASE OpenImport
    BY <1>6 DEF OpenImport
  <1>7. CASE HandleImport
    <2>1. started + 1 \in Imports /\ started' \in 0 .. MaxImports
      <3>1. started < MaxImports /\ started' = started + 1
        BY <1>7 DEF HandleImport
      <3>2. started \in 0 .. MaxImports
        OBVIOUS
      <3> QED BY <3>1, <3>2, NextImport
    <2>2. flow' \in [Imports -> [stage : Stages, files : SUBSET Files]]
      BY <1>7, <2>1 DEF HandleImport, Stages
    <2>3. mixed' \subseteq Imports
      <3>1. 1 .. started \subseteq Imports
        <4>1. started \in 0 .. MaxImports
          OBVIOUS
        <4> QED BY <4>1, ImportsAreNumbers
      <3> QED BY <1>7, <2>1, <3>1 DEF HandleImport
    <2> QED BY <1>7, <2>1, <2>2, <2>3 DEF HandleImport, Steps
  <1>8. ASSUME NEW i \in Imports, FlowStep(i) PROVE ImportTypeOK'
    <2> USE DEF Stands, Page, Stages, OneImport
    <2>1. ASSUME NEW how \in {"direct", "multipart"}, PrepareVariantSourceUpload(i, how)
          PROVE  ImportTypeOK'
      BY <2>1, <1>a DEF PrepareVariantSourceUpload
    <2>2. ASSUME NEW f \in Files, PutFile(i, f) PROVE ImportTypeOK'
      BY <2>2 DEF PutFile
    <2>3. CASE UploadsDone(i)
      BY <2>3, <1>a DEF UploadsDone
    <2>4. CASE UploadMultipart(i)
      BY <2>4, <1>a DEF UploadMultipart, SavedRows
    <2>5. CASE UpdateVariant(i)
      BY <2>5, <1>a DEF UpdateVariant, SavedRows
    <2>6. CASE CreateGraphBuildJob(i)
      <3>1. AskedJob \in JobRecords
        BY AskedIsJob
      <3>2. graphJob' = [graphJob EXCEPT ![i] = AskedJob]
        BY <2>6 DEF CreateGraphBuildJob, AskedJob
      <3>3. graphJob' \in [Imports -> JobRecords]
        BY <1>t, <3>1, <3>2
      <3> QED BY <2>6, <1>a, <3>3 DEF CreateGraphBuildJob
    <2>7. CASE WaitForGraph(i)
      BY <2>7, <1>a DEF WaitForGraph
    <2>8. CASE CreateLaterJob(i)
      BY <2>8, <1>a DEF CreateLaterJob
    <2>9. CASE WaitForLater(i)
      BY <2>9, <1>a DEF WaitForLater
    <2>10. CASE ImportFails(i)
      BY <2>10, <1>a DEF ImportFails
    <2> QED BY <1>8, <2>1, <2>2, <2>3, <2>4, <2>5, <2>6, <2>7, <2>8, <2>9, <2>10 DEF FlowStep
  <1>9. ASSUME NEW i \in Imports, JobStep(i) PROVE ImportTypeOK'
    <2>1. CASE GraphJobStarts(i)
      <3>1. savedAs.root \in Imports
        BY <2>1, StartsAreNamed DEF GraphJobStarts
      <3> QED BY <2>1, <3>1, Started
    <2>2. CASE SyncReads(i)
      BY <2>2, FilesFound
    <2>3. CASE SyncCommits(i)
      <3>1. /\ UNCHANGED <<flow, Form, started, mixed, upload, root>>
            /\ torn' = graphJob[i].passed /\ savedAs' = graphJob[i].row
            /\ graph' \subseteq FileRows /\ graphJob' \in [Imports -> JobRecords]
        BY <2>3, Committed
      <3>2. graphJob[i].passed \in BOOLEAN /\ graphJob[i].row \in SavedRows
        BY <1>t DEF JobRecords
      <3> QED BY <3>1, <3>2
    <2>4. CASE OtherTurn(i)
      BY <2>4, OtherTurned
    <2> QED BY <1>9, <2>1, <2>2, <2>3, <2>4 DEF JobStep, OtherTurn
  <1>10. ASSUME NEW i \in Imports, MoveToWorkspace(i) PROVE ImportTypeOK'
    <2>1. "none" \in Stages
      BY DEF Stages
    <2>2. flow' \in [Imports -> OneImport]
      BY <1>10, <1>a, <2>1 DEF MoveToWorkspace
    <2> QED BY <1>10, <2>2 DEF MoveToWorkspace, FormGone, Steps, OneImport
  <1>11. CASE UNCHANGED importVars
    BY <1>11 DEF importVars
  <1> QED
    BY <1>1, <1>2, <1>3, <1>4, <1>5, <1>6, <1>7, <1>8, <1>9, <1>10, <1>11 DEF ImportNext

-----------------------------------------------------------------------------
\* What a root holds.

\* Imports go on: their files stay, and the root of one that has uploaded too.
Kept ==
  /\ started <= started'
  /\ \A j \in Imports : j <= started =>
       /\ flow'[j].files = flow[j].files /\ j <= started'
       /\ flow[j].stage \notin Putting => flow'[j].stage \notin Putting /\ root'[j] = root[j]

LEMMA NamesStay ==
  ASSUME NEW r, NamesWhole(r), Kept
  PROVE  NamesWhole(r)'
  BY DEF NamesWhole, Kept

LEMMA WholeStays ==
  ASSUME NEW F, IsWhole(F), Kept
  PROVE  IsWhole(F)'
  <1>1. PICK k \in Imports : k <= started /\ F = flow[k].files
    BY DEF IsWhole
  <1>2. k <= started' /\ F = flow'[k].files
    BY <1>1 DEF Kept
  <1> QED BY <1>2 DEF IsWhole

LEMMA RightStays ==
  ASSUME NEW i \in Imports, NEW job, JobRight(i, job), Kept,
         graph' = graph \/ job.work # "found" \/ job.passed
  PROVE  JobRight(i, job)'
  <1>1. job.work # "none" => i <= started'
    BY DEF JobRight, Kept
  <1>2. job.work \in {"read", "found"} => IsWhole(job.read)'
    BY WholeStays DEF JobRight
  <1>3. job.work = "found" => NamesWhole(job.row)'
    BY NamesStay DEF JobRight
  <1>4. job.work = "found" /\ ~job.passed => job.found = graph' /\ job.gone = {}
    BY DEF JobRight
  <1> QED BY <1>1, <1>2, <1>3, <1>4 DEF JobRight

\* Jobs that are as they were are right, but for the one that acts.
LEMMA OthersRight ==
  ASSUME NEW i \in Imports, JobsRight, Kept, graph' = graph,
         \A j \in Imports : j # i => graphJob'[j] = graphJob[j],
         JobRight(i, graphJob[i])'
  PROVE  JobsRight'
  <1>1. ASSUME NEW j \in Imports, j # i PROVE JobRight(j, graphJob[j])'
    <2>1. PICK job : job = graphJob[j]
      OBVIOUS
    <2>2. JobRight(j, job)
      BY <2>1 DEF JobsRight
    <2>3. JobRight(j, job)'
      BY <2>2, RightStays
    <2>4. graphJob'[j] = job
      BY <1>1, <2>1
    <2> QED BY <2>3, <2>4 DEF JobRight
  <1> QED BY <1>1 DEF JobsRight

LEMMA AllRight ==
  ASSUME JobsRight, Kept, UNCHANGED <<graph, graphJob>>
  PROVE  JobsRight'
  <1>1. ASSUME NEW j \in Imports PROVE JobRight(j, graphJob[j])'
    <2>1. PICK job : job = graphJob[j]
      OBVIOUS
    <2>2. JobRight(j, job)
      BY <2>1 DEF JobsRight
    <2>3. JobRight(j, job)'
      BY <2>2, RightStays
    <2>4. graphJob'[j] = job
      BY <2>1
    <2> QED BY <2>3, <2>4 DEF JobRight
  <1> QED BY <1>1 DEF JobsRight

LEMMA GraphStays ==
  ASSUME WholeGraph, Kept, UNCHANGED <<graph, torn>>
  PROVE  WholeGraph'
  <1>1. PICK F : F = graph
    OBVIOUS
  <1>2. IsWhole(F) => IsWhole(F)'
    BY WholeStays
  <1>3. IsWhole(graph) => IsWhole(F)
    BY <1>1
  <1>4. IsWhole(F)' => IsWhole(graph)'
    BY <1>1 DEF IsWhole
  <1> QED BY <1>2, <1>3, <1>4 DEF WholeGraph

LEMMA NameStays ==
  ASSUME Named, Kept, UNCHANGED savedAs
  PROVE  Named'
  <1>1. PICK r : r = savedAs
    OBVIOUS
  <1>2. NamesWhole(r) => NamesWhole(r)'
    BY NamesStay
  <1>3. NamesWhole(savedAs) => NamesWhole(r)
    BY <1>1
  <1>4. NamesWhole(r)' => NamesWhole(savedAs)'
    BY <1>1 DEF NamesWhole
  <1> QED BY <1>2, <1>3, <1>4 DEF Named

\* Stages that have moved on, with nothing stored: nobody leaves an upload but
\* with all its files, and nobody comes back to one.
MovedOn ==
  /\ UNCHANGED <<root, savedAs, graphJob, graph, torn, started>>
  /\ \A j \in Imports :
       /\ flow'[j].files = flow[j].files
       /\ \/ flow'[j].stage = flow[j].stage
          \/ /\ flow[j].stage # "none"
             /\ flow'[j].stage = "updating" => root[j] = flow[j].files
             /\ flow'[j].stage \in Putting => flow[j].stage \in Putting
             /\ flow'[j].stage \notin NotYet => flow[j].stage \notin NotYet

LEMMA WholeMovedOn ==
  ASSUME ImportTypeOK, WholeInv, MovedOn
  PROVE  WholeInv'
  <1>0. started \in Nat
    <2>1. started \in 0 .. MaxImports
      BY DEF ImportTypeOK
    <2> QED BY <2>1, ImportsAreNumbers
  <1>1. Kept
    BY <1>0 DEF MovedOn, Kept
  <1>2. Fresh'
    BY DEF MovedOn, WholeInv, Fresh
  <1>3. Uploaded'
    BY DEF MovedOn, WholeInv, Uploaded
  <1>4. Named' /\ WholeGraph' /\ JobsRight'
    BY <1>1, NameStays, GraphStays, AllRight DEF MovedOn, WholeInv
  <1>5. Unasked'
    BY DEF MovedOn, WholeInv, Unasked
  <1> QED BY <1>2, <1>3, <1>4, <1>5 DEF WholeInv

\* An import alone moves: it is one that has begun, and the others stay.
LEMMA OneMoves ==
  ASSUME ImportTypeOK, Fresh, NEW i \in Imports, i <= started,
         UNCHANGED <<started>>, \A j \in Imports : flow'[j].files = flow[j].files,
         \A j \in Imports : j # i => flow'[j] = flow[j] /\ graphJob'[j] = graphJob[j] /\ root'[j] = root[j],
         flow[i].stage \in Putting \/ (root'[i] = root[i] /\ flow'[i].stage \notin Putting)
  PROVE  Kept /\ Fresh'
  <1>0. started \in Nat /\ Imports \subseteq Nat
    <2>1. started \in 0 .. MaxImports
      BY DEF ImportTypeOK
    <2> QED BY <2>1, ImportsAreNumbers
  <1>1. Kept
    <2>1. ASSUME NEW j \in Imports, j <= started, flow[j].stage \notin Putting
          PROVE  flow'[j].stage \notin Putting /\ root'[j] = root[j]
      BY <2>1
    <2> QED BY <1>0, <2>1 DEF Kept
  <1>2. \A j \in Imports : j > started => j # i
    BY <1>0
  <1> QED BY <1>1, <1>2 DEF Fresh

\* An import whose upload is complete, now named by the row.
LEMMA SavedAnew ==
  ASSUME ImportTypeOK, WholeInv, NEW i \in Imports, i <= started,
         UNCHANGED <<graphJob, graph, torn, started>>, savedAs'.root = i, root'[i] = flow[i].files,
         \A j \in Imports : j # i => root'[j] = root[j],
         flow'[i].stage \in {"updating", "asking graph"},
         flow[i].stage \in Putting \/ root'[i] = root[i],
         \A j \in Imports : flow'[j].files = flow[j].files,
         \A j \in Imports : j # i => flow'[j] = flow[j]
  PROVE  WholeInv'
  <1>1. Kept /\ Fresh'
    BY OneMoves DEF WholeInv, Putting
  <1>2. Uploaded'
    <2>1. ASSUME NEW j \in Imports, flow'[j].stage = "updating" PROVE root'[j] = flow'[j].files
      <3>1. CASE j = i
        BY <3>1
      <3>2. CASE j # i
        BY <2>1, <3>2 DEF WholeInv, Uploaded
      <3> QED BY <3>1, <3>2
    <2> QED BY <2>1 DEF Uploaded
  <1>3. Named' /\ Unasked'
    <2>1. NoRoot \notin Imports
      <3>1. started \in 0 .. MaxImports
        BY DEF ImportTypeOK
      <3> QED BY <3>1, ImportsAreNumbers
    <2> QED BY <2>1 DEF Named, Unasked, NamesWhole, Putting
  <1>4. JobsRight' /\ WholeGraph'
    BY <1>1, AllRight, GraphStays DEF WholeInv
  <1> QED BY <1>1, <1>2, <1>3, <1>4 DEF WholeInv

\* A job that was asked for, and has read nothing yet.
LEMMA AskedFor ==
  ASSUME ImportTypeOK, WholeInv, NEW i \in Imports, i <= started,
         UNCHANGED <<root, savedAs, graph, torn, started>>, savedAs.root # NoRoot,
         graphJob'[i].work = "waits", \A j \in Imports : j # i => graphJob'[j] = graphJob[j],
         flow'[i].stage = "graph",
         \A j \in Imports : flow'[j].files = flow[j].files,
         \A j \in Imports : j # i => flow'[j] = flow[j]
  PROVE  WholeInv'
  <1>1. Kept /\ Fresh'
    BY OneMoves DEF WholeInv, Putting
  <1>2. Uploaded'
    <2>1. ASSUME NEW j \in Imports, flow'[j].stage = "updating" PROVE root'[j] = flow'[j].files
      <3>1. j # i
        BY <2>1
      <3> QED BY <2>1, <3>1 DEF WholeInv, Uploaded
    <2> QED BY <2>1 DEF Uploaded
  <1>3. Named' /\ WholeGraph'
    BY <1>1, NameStays, GraphStays DEF WholeInv
  <1>4. Unasked'
    BY DEF Unasked
  <1>5. JobRight(i, graphJob[i])'
    BY DEF JobRight
  <1>6. JobsRight'
    BY <1>1, <1>5, OthersRight DEF WholeInv
  <1> QED BY <1>1, <1>2, <1>3, <1>4, <1>6 DEF WholeInv

\* Imports stand while a job goes on.
LEMMA JobMovedOn ==
  ASSUME ImportTypeOK, WholeInv, NEW i \in Imports, i <= started,
         UNCHANGED <<flow, root, started>>, savedAs.root # NoRoot,
         \A j \in Imports : j # i /\ graphJob[j].work # "found" => graphJob'[j] = graphJob[j],
         Named', savedAs'.root # NoRoot, JobsRight', WholeGraph'
  PROVE  WholeInv'
  <1>0. started \in Nat /\ Imports \subseteq Nat
    <2>1. started \in 0 .. MaxImports
      BY DEF ImportTypeOK
    <2> QED BY <2>1, ImportsAreNumbers
  <1>1. Fresh'
    <2>1. ASSUME NEW j \in Imports, j > started PROVE graphJob'[j] = NoJob
      <3>1. graphJob[j] = NoJob /\ j # i
        BY <1>0, <2>1 DEF WholeInv, Fresh
      <3>2. NoJob.work = "none"
        BY DEF NoJob
      <3> QED BY <3>1, <3>2
    <2> QED BY <2>1 DEF WholeInv, Fresh
  <1>2. Uploaded'
    BY DEF WholeInv, Uploaded
  <1>3. Unasked'
    BY DEF Unasked
  <1> QED BY <1>1, <1>2, <1>3 DEF WholeInv

LEMMA WholeStep ==
  ASSUME ImportTypeOK, WholeInv, [ImportNext]_importVars
  PROVE  WholeInv'
  <1>0. /\ Imports \subseteq Nat /\ started \in Nat /\ NoRoot \notin Imports
    <2>1. started \in 0 .. MaxImports
      BY DEF ImportTypeOK
    <2> QED BY <2>1, ImportsAreNumbers
  <1>t. /\ flow \in [Imports -> OneImport] /\ graphJob \in [Imports -> JobRecords]
        /\ root \in [Imports -> SUBSET Files] /\ savedAs \in SavedRows
    BY DEF ImportTypeOK, OneImport
  <1>1. ASSUME UNCHANGED <<flow, root, savedAs, graphJob, graph, torn, started>> PROVE WholeInv'
    BY <1>1, WholeMovedOn DEF MovedOn
  <1>a. ASSUME NEW i \in Imports, NEW stage \in Stages, Reach(i, stage)
        PROVE  /\ flow'[i].stage = stage
               /\ \A j \in Imports : flow'[j].files = flow[j].files
               /\ \A j \in Imports : j # i => flow'[j] = flow[j]
    BY <1>t, <1>a, ReachesStage
  \* Only the stage changes.
  <1>b. ASSUME NEW i \in Imports, NEW stage \in Stages, Reach(i, stage),
               UNCHANGED <<root, savedAs, graphJob, graph, torn, started>>, flow[i].stage # "none",
               stage \in {"uploading", "updating", "error", "none"} \/ flow[i].stage \notin NotYet,
               stage = "updating" => root[i] = flow[i].files, stage # "planning",
               stage = "uploading" => flow[i].stage = "planning"
        PROVE  WholeInv'
    <2>1. flow'[i].stage = stage /\ \A j \in Imports : flow'[j].files = flow[j].files
      BY <1>a, <1>b
    <2>2. \A j \in Imports : j # i => flow'[j] = flow[j]
      BY <1>a, <1>b
    <2> QED BY <1>b, <2>1, <2>2, WholeMovedOn DEF MovedOn, NotYet, Early, Putting
  <1>s. Stages = Early \cup Past \cup {"updating", "asking graph", "graph", "error"}
    BY DEF Stages, Early, Past
  <1>2. CASE LeaveImport
    BY <1>2, <1>1 DEF LeaveImport, Server
  <1>3. ASSUME NEW i \in Imports, MoveToWorkspace(i) PROVE WholeInv'
    BY <1>3, <1>b, <1>s DEF MoveToWorkspace, Stands, Server, NotYet, Early
  <1>4. CASE HandleImport
    <2> DEFINE n == started + 1
    <2>1. n \in Imports /\ n \in Nat /\ started' = n
      <3>1. started < MaxImports /\ started \in 0 .. MaxImports /\ started' = started + 1
        BY <1>4 DEF HandleImport, ImportTypeOK
      <3> QED BY <3>1, NextImport, <1>0
    <2>2. UNCHANGED <<root, savedAs, graphJob, graph, torn>>
      BY <1>4 DEF HandleImport, Server
    <2>3. /\ flow'[n].stage = "planning"
          /\ \A j \in Imports : j # n => flow'[j] = flow[j]
      BY <1>4, <1>t, <2>1 DEF HandleImport
    <2>4. \A j \in Imports : j > n => j > started /\ j # n
      BY <1>0, <2>1
    <2>5. \A j \in Imports : j <= started => j # n /\ j <= n
      BY <1>0, <2>1
    <2>6. n > started
      BY <1>0
    <2>7. started <= started'
      BY <1>0, <2>1
    <2> HIDE DEF n
    <2>8. Fresh'
      BY <2>1, <2>2, <2>3, <2>4 DEF WholeInv, Fresh
    <2>9. Uploaded'
      BY <2>2, <2>3 DEF WholeInv, Uploaded
    <2>10. Kept
      BY <2>1, <2>2, <2>3, <2>5, <2>7 DEF Kept
    <2>11. Named' /\ WholeGraph' /\ JobsRight'
      BY <2>2, <2>10, NameStays, GraphStays, AllRight DEF WholeInv
    <2>12. Unasked'
      BY <2>2, <2>3 DEF WholeInv, Unasked, NotYet, Early
    <2> QED BY <2>8, <2>9, <2>11, <2>12 DEF WholeInv
  <1>5. ASSUME NEW i \in Imports, FlowStep(i) PROVE WholeInv'
    <2>p. flow[i].stage # "none" => i <= started
      BY <1>0 DEF WholeInv, Fresh
    <2>1. ASSUME NEW how \in {"direct", "multipart"}, PrepareVariantSourceUpload(i, how)
          PROVE  WholeInv'
      BY <2>1, <1>b, <1>s DEF PrepareVariantSourceUpload, Page, Stands, Early
    <2>2. ASSUME NEW f \in Files, PutFile(i, f) PROVE WholeInv'
      <3>1. /\ flow[i].stage = "uploading"
            /\ UNCHANGED <<flow, savedAs, graphJob, graph, torn, started>>
            /\ \A j \in Imports : j # i => root'[j] = root[j]
        BY <2>2, <1>t DEF PutFile, Page, Stands
      <3>2. Kept /\ Fresh'
        <4>1. i <= started
          BY <3>1, <2>p
        <4> QED BY <3>1, <4>1, OneMoves DEF WholeInv, Putting
      <3>3. Uploaded' /\ Unasked'
        BY <3>1 DEF WholeInv, Uploaded, Unasked
      <3>4. Named' /\ WholeGraph' /\ JobsRight'
        BY <3>1, <3>2, NameStays, GraphStays, AllRight DEF WholeInv
      <3> QED BY <3>2, <3>3, <3>4 DEF WholeInv
    <2>3. CASE UploadsDone(i)
      BY <2>3, <1>b, <1>s DEF UploadsDone, Page, Stands, Server
    <2>4. CASE UploadMultipart(i)
      <3>1. /\ flow[i].stage = "uploading" /\ UNCHANGED <<graphJob, graph, torn, started>>
            /\ \A j \in Imports : j # i => root'[j] = root[j]
            /\ root'[i] = flow[i].files
        BY <2>4, <1>t DEF UploadMultipart, Page, Stands
      <3>2. savedAs'.root = i
        BY <2>4, <1>t DEF UploadMultipart, SavedRows
      <3>3. /\ flow'[i].stage = "updating"
            /\ \A j \in Imports : flow'[j].files = flow[j].files
            /\ \A j \in Imports : j # i => flow'[j] = flow[j]
        BY <2>4, <1>a, <1>s DEF UploadMultipart
      <3> QED BY <2>p, <3>1, <3>2, <3>3, SavedAnew DEF Putting
    <2>5. CASE UpdateVariant(i)
      <3>1. flow[i].stage = "updating" /\ UNCHANGED <<root, graphJob, graph, torn, started>>
        BY <2>5 DEF UpdateVariant, Page, Stands
      <3>2. savedAs'.root = i /\ root'[i] = flow[i].files
        BY <2>5, <3>1 DEF UpdateVariant, WholeInv, Uploaded
      <3>3. /\ flow'[i].stage = "asking graph"
            /\ \A j \in Imports : flow'[j].files = flow[j].files
            /\ \A j \in Imports : j # i => flow'[j] = flow[j]
        BY <2>5, <1>a, <1>s DEF UpdateVariant
      <3> QED BY <2>p, <3>1, <3>2, <3>3, SavedAnew
    <2>6. CASE CreateGraphBuildJob(i)
      <3>1. /\ flow[i].stage = "asking graph" /\ UNCHANGED <<root, savedAs, graph, torn, started>>
            /\ Reach(i, "graph") /\ graphJob' = [graphJob EXCEPT ![i] = AskedJob]
        BY <2>6 DEF CreateGraphBuildJob, Page, Stands, AskedJob
      <3>2. graphJob'[i].work = "waits" /\ \A j \in Imports : j # i => graphJob'[j] = graphJob[j]
        BY <3>1, <1>t, AskedIsJob
      <3>3. /\ flow'[i].stage = "graph"
            /\ \A j \in Imports : flow'[j].files = flow[j].files
            /\ \A j \in Imports : j # i => flow'[j] = flow[j]
        BY <3>1, <1>a, <1>s
      <3>4. i <= started /\ savedAs.root # NoRoot
        BY <3>1, <2>p DEF WholeInv, Unasked, NotYet, Early
      <3> QED BY <3>1, <3>2, <3>3, <3>4, AskedFor
    <2>7. CASE WaitForGraph(i)
      BY <2>7, <1>b, <1>s DEF WaitForGraph, Page, Stands, Server, NotYet, Early, Past
    <2>8. CASE CreateLaterJob(i)
      <3>1. Reach(i, "layout") \/ Reach(i, "review")
        BY <2>8 DEF CreateLaterJob
      <3> QED BY <2>8, <3>1, <1>b, <1>s DEF CreateLaterJob, Page, Stands, Server, NotYet, Early, Past
    <2>9. CASE WaitForLater(i)
      <3>1. Reach(i, "asking review") \/ Reach(i, "done")
        BY <2>9 DEF WaitForLater
      <3> QED BY <2>9, <3>1, <1>b, <1>s DEF WaitForLater, Page, Stands, Server, NotYet, Early, Past
    <2>10. CASE ImportFails(i)
      BY <2>10, <1>b, <1>s DEF ImportFails, Page, Going, Over, Server
    <2> QED BY <1>5, <2>1, <2>2, <2>3, <2>4, <2>5, <2>6, <2>7, <2>8, <2>9, <2>10 DEF FlowStep
  <1>6. ASSUME NEW i \in Imports, JobStep(i) PROVE WholeInv'
    <2>k. ASSUME UNCHANGED <<flow, root, started>> PROVE Kept
      BY <1>0, <2>k DEF Kept
    <2>i. ASSUME graphJob[i].work # "none"
          PROVE  /\ savedAs.root \in Imports /\ savedAs.root # NoRoot /\ i <= started
                 /\ IsWhole(root[savedAs.root]) /\ NamesWhole(savedAs)
      BY <2>i, StartsAreNamed DEF WholeInv, Named
    <2>r. JobRight(i, graphJob[i])
      BY DEF WholeInv, JobsRight
    \* The graph and the row are as they were.
    <2>q. ASSUME UNCHANGED <<flow, root, started, savedAs, graph, torn>>, graphJob[i].work # "none",
                 \A j \in Imports : j # i => graphJob'[j] = graphJob[j],
                 JobRight(i, graphJob[i])'
          PROVE  WholeInv'
      <3>1. Kept
        BY <2>q, <2>k
      <3>2. Named' /\ WholeGraph'
        BY <2>q, <3>1, NameStays, GraphStays DEF WholeInv
      <3>3. JobsRight'
        BY <2>q, <3>1, OthersRight DEF WholeInv
      <3> QED BY <2>q, <2>i, <3>2, <3>3, JobMovedOn
    <2>1. CASE GraphJobStarts(i)
      <3>1. graphJob[i].work # "none"
        BY <2>1 DEF GraphJobStarts
      <3>2. /\ UNCHANGED <<flow, Form, started, mixed, upload, root, savedAs, graph, torn>>
            /\ graphJob'[i].work = "read" /\ graphJob'[i].read = root[savedAs.root]
            /\ \A j \in Imports : j # i => graphJob'[j] = graphJob[j]
        BY <2>1, <2>i, <3>1, Started
      <3>3. PICK F : F = root[savedAs.root]
        OBVIOUS
      <3>4. IsWhole(F)' /\ graphJob'[i].read = F
        BY <2>i, <3>1, <3>2, <3>3 DEF IsWhole
      <3>5. JobRight(i, graphJob[i])'
        BY <2>i, <3>1, <3>2, <3>4 DEF JobRight, IsWhole
      <3> QED BY <2>q, <3>1, <3>2, <3>5
    <2>2. CASE SyncReads(i)
      <3>1. /\ UNCHANGED <<flow, Form, started, mixed, upload, root, savedAs, graph, torn>>
            /\ graphJob[i].work = "read" /\ graphJob'[i].work = "found"
            /\ graphJob'[i].read = graphJob[i].read /\ graphJob'[i].row = savedAs
            /\ graphJob'[i].found = graph /\ graphJob'[i].gone = {} /\ ~graphJob'[i].passed
            /\ \A j \in Imports : j # i => graphJob'[j] = graphJob[j]
        BY <2>2, FilesFound
      <3>2. i <= started /\ NamesWhole(savedAs) /\ IsWhole(graphJob[i].read)
        BY <2>i, <2>r, <3>1 DEF JobRight
      <3>3. NamesWhole(graphJob[i].row)' /\ IsWhole(graphJob[i].read)'
        BY <3>1, <3>2 DEF NamesWhole, IsWhole
      <3>4. JobRight(i, graphJob[i])'
        BY <3>1, <3>2, <3>3 DEF JobRight
      <3> QED BY <2>q, <3>1, <3>4
    <2>3. CASE SyncCommits(i)
      <3>1. /\ graphJob[i].work = "found" /\ UNCHANGED <<flow, Form, started, mixed, upload, root>>
            /\ torn' = graphJob[i].passed /\ savedAs' = graphJob[i].row
            /\ graphJob[i].found = graph /\ graphJob[i].gone = {} => graph' = graphJob[i].read
            /\ graphJob'[i].work = "synced"
            /\ \A j \in Imports : j # i => (graphJob[j].work # "found" /\ graphJob'[j] = graphJob[j]) \/
                 /\ graphJob[j].work = "found" /\ graphJob'[j].work = "found"
                 /\ graphJob'[j].status = graphJob[j].status /\ graphJob'[j].read = graphJob[j].read
                 /\ graphJob'[j].row = graphJob[j].row /\ graphJob'[j].passed
        <4>1. ImportTypeOK /\ SyncCommits(i)
          BY <2>3
        <4> QED BY <4>1, Committed
      <3>2. Kept
        BY <2>k, <3>1
      <3>3. /\ i <= started /\ IsWhole(graphJob[i].read) /\ NamesWhole(graphJob[i].row)
            /\ ~graphJob[i].passed => graphJob[i].found = graph /\ graphJob[i].gone = {}
        BY <2>r, <3>1 DEF JobRight
      <3>4. Named' /\ savedAs'.root # NoRoot
        BY <1>0, <3>1, <3>3 DEF Named, NamesWhole
      <3>5. WholeGraph'
        BY <3>1, <3>3 DEF WholeGraph, IsWhole
      <3>6. ASSUME NEW j \in Imports PROVE JobRight(j, graphJob[j])'
        <4>1. CASE j = i
          BY <3>1, <3>3, <4>1 DEF JobRight
        <4>2. CASE j # i /\ graphJob[j].work = "found"
          <5>1. JobRight(j, graphJob[j])
            BY DEF WholeInv, JobsRight
          <5>2. PICK F, r : F = graphJob[j].read /\ r = graphJob[j].row
            OBVIOUS
          <5>3. j <= started /\ IsWhole(F) /\ NamesWhole(r)
            BY <4>2, <5>1, <5>2 DEF JobRight
          <5>4. IsWhole(F)' /\ NamesWhole(r)'
            BY <3>2, <5>3, WholeStays, NamesStay
          <5>5. /\ graphJob'[j].work = "found" /\ graphJob'[j].read = F /\ graphJob'[j].row = r
                /\ graphJob'[j].passed
            BY <3>1, <4>2, <5>2
          <5>6. IsWhole(graphJob[j].read)' /\ NamesWhole(graphJob[j].row)'
            BY <5>4, <5>5 DEF IsWhole, NamesWhole
          <5> QED BY <3>1, <5>3, <5>5, <5>6 DEF JobRight
        <4>3. CASE j # i /\ graphJob[j].work # "found"
          <5>1. JobRight(j, graphJob[j])
            BY DEF WholeInv, JobsRight
          <5>2. PICK job : job = graphJob[j]
            OBVIOUS
          <5>3. JobRight(j, job)' /\ graphJob'[j] = job
            BY <3>1, <3>2, <4>3, <5>1, <5>2, RightStays
          <5> QED BY <5>3 DEF JobRight
        <4> QED BY <4>1, <4>2, <4>3
      <3>7. JobsRight'
        BY <3>6 DEF JobsRight
      <3>8. \A j \in Imports : j # i /\ graphJob[j].work # "found" => graphJob'[j] = graphJob[j]
        BY <3>1
      <3>9. UNCHANGED <<flow, root, started>>
        BY <3>1
      <3>10. savedAs.root # NoRoot
        BY <2>i, <3>1
      <3> QED BY <3>3, <3>4, <3>5, <3>7, <3>8, <3>9, <3>10, JobMovedOn
    <2>4. CASE OtherTurn(i)
      <3>1. /\ UNCHANGED <<flow, Form, started, mixed, upload, root, savedAs, graph, torn>>
            /\ graphJob[i].work \in {"read", "found", "synced", "saved"}
            /\ graphJob'[i].work \in {"saved", "exited", "out"}
            /\ \A j \in Imports : j # i => graphJob'[j] = graphJob[j]
        BY <2>4, OtherTurned
      <3>2. i <= started
        BY <2>i, <3>1
      <3>3. JobRight(i, graphJob[i])'
        BY <3>1, <3>2 DEF JobRight
      <3> QED BY <2>q, <3>1, <3>3
    <2> QED BY <1>6, <2>1, <2>2, <2>3, <2>4 DEF JobStep, OtherTurn
  <1>7. ASSUME NEW F \in Folders, HandleFolderSelect(F) PROVE WholeInv'
    BY <1>7, <1>1 DEF HandleFolderSelect, Server
  <1>8. ASSUME NEW R \in Rows, HandleToggle(R) PROVE WholeInv'
    BY <1>8, <1>1 DEF HandleToggle, Server
  <1>9. ASSUME NEW S \in {allFiles, {}}, SelectAllOrNone(S) PROVE WholeInv'
    BY <1>9, <1>1 DEF SelectAllOrNone, Server
  <1>10. ASSUME NEW s \in Steps, GoTo(s) PROVE WholeInv'
    BY <1>10, <1>1 DEF GoTo, Server
  <1>11. CASE OpenImport
    BY <1>11, <1>1 DEF OpenImport, Server
  <1>12. CASE UNCHANGED importVars
    BY <1>12, <1>1 DEF importVars
  <1> QED
    BY <1>2, <1>3, <1>4, <1>5, <1>6, <1>7, <1>8, <1>9, <1>10, <1>11, <1>12 DEF ImportNext

-----------------------------------------------------------------------------
LEMMA InitHolds == ImportInit => ImportTypeOK /\ WholeInv
  <1> SUFFICES ASSUME ImportInit PROVE ImportTypeOK /\ WholeInv
    OBVIOUS
  <1>1. OldRow \in SavedRows /\ OldRow.root = NoRoot
    BY DEF OldRow, SavedRows, NoRoot
  <1>2. NoJob \in JobRecords
    BY NoJobIsJob
  <1>3. NoJob.work = "none"
    BY NoJobIsJob
  <1>4. ImportTypeOK
    <2>1. graphJob \in [Imports -> JobRecords]
      BY <1>2 DEF ImportInit
    <2>2. started \in 0 .. MaxImports
      BY MaxImportsAssumption DEF ImportInit
    <2>3. flow \in [Imports -> [stage : Stages, files : SUBSET Files]] /\ root \in [Imports -> SUBSET Files]
      BY DEF ImportInit, Stages
    <2> QED BY <1>1, <2>1, <2>2, <2>3 DEF ImportInit, ImportTypeOK, Steps, FileRows
  <1>5. NoRoot \notin Imports
    BY MaxImportsAssumption DEF Imports, NoRoot
  <1>6. Fresh /\ Uploaded /\ Unasked
    BY <1>3 DEF ImportInit, Fresh, Uploaded, Unasked, NotYet, Early
  <1>7. Named /\ JobsRight /\ WholeGraph
    BY <1>1, <1>3 DEF ImportInit, Named, JobsRight, JobRight, WholeGraph
  <1> QED BY <1>4, <1>6, <1>7 DEF WholeInv

\* The state of imports, jobs and roots has its types, and whatever names a root names
\* a whole upload: the row of the variant, a row a job has read, and what it has read.
THEOREM ImportTypesCorrect == ImportSpec => [](ImportTypeOK /\ WholeInv)
  <1>1. ImportTypeOK /\ WholeInv /\ [ImportNext]_importVars => (ImportTypeOK /\ WholeInv)'
    <2> SUFFICES ASSUME ImportTypeOK, WholeInv, [ImportNext]_importVars
                 PROVE  ImportTypeOK' /\ WholeInv'
      OBVIOUS
    <2>1. ImportTypeOK'
      BY ImportTypesStep
    <2> QED BY <2>1, WholeStep
  <1> QED BY <1>1, InitHolds, PTL DEF ImportSpec

\* However imports fail, are left or overlap, and however often Cloud Run runs their
\* jobs: unless another synchronisation fell into the last one, the graph is that of
\* one upload, whole, or the one from before.
THEOREM GraphsAreWhole == ImportSpec => []GraphOfWholeUpload
  <1>1. ImportTypeOK /\ WholeInv => GraphOfWholeUpload
    <2> SUFFICES ASSUME ImportTypeOK, WholeInv PROVE GraphOfWholeUpload
      OBVIOUS
    <2>1. \A i \in Imports : i <= started <=> i \in 1 .. started
      <3>1. started \in 0 .. MaxImports
        BY DEF ImportTypeOK
      <3> QED BY <3>1, ImportsAreNumbers
    <2> QED BY <2>1 DEF WholeInv, WholeGraph, IsWhole, GraphOfWholeUpload
  <1> QED BY <1>1, ImportTypesCorrect, PTL

-----------------------------------------------------------------------------
\* An import that nothing runs beside.

HasAsked == {"asking graph", "graph"} \cup Past
WithJob == {"graph", "error", "none"} \cup Past
Done == {"synced", "saved", "exited"}

\* From when the row names its root, it is the last that wrote the row; its worker
\* reads its files and no other worker commits; and the graph, once written, is of its
\* files, whether its job is then run again or not.
AloneNow ==
  /\ flow[started].stage \in HasAsked => savedAs.root = started
  /\ graphJob[started].work # "none" =>
       savedAs.root = started /\ flow[started].stage \in WithJob
  /\ graphJob[started].work \in {"read", "found"} => graphJob[started].read = flow[started].files
  /\ graphJob[started].work = "found" =>
       graphJob[started].row.root = started /\ ~graphJob[started].passed
  /\ graphJob[started].work \in Done => graph = flow[started].files
  /\ graphJob[started].status = "succeeded" => graph = flow[started].files
  /\ flow[started].stage \in Past => graph = flow[started].files

Alone ==
  /\ \A j \in Imports : j <= started /\ j # started => ~ Unfinished(j)
  /\ AloneNow

AloneInv == started \in Imports /\ started \notin mixed => Alone

\* Stages that have moved on, in the row and the jobs nothing.
WentOn ==
  /\ UNCHANGED <<savedAs, graphJob, graph, started, mixed>>
  /\ \A j \in Imports :
       /\ flow'[j].files = flow[j].files
       /\ flow[j].stage \in Over => flow'[j].stage \in Over
       /\ flow'[j].stage \in HasAsked => flow[j].stage \in HasAsked
       /\ flow[j].stage \in WithJob => flow'[j].stage \in WithJob
       /\ flow'[j].stage \in Past => flow[j].stage \in Past \/ graphJob[j].status = "succeeded"

LEMMA AloneWentOn ==
  ASSUME AloneInv, WentOn
  PROVE  AloneInv'
  <1> SUFFICES ASSUME started' \in Imports, started' \notin mixed' PROVE Alone'
    BY DEF AloneInv
  <1>1. /\ UNCHANGED <<savedAs, graphJob, graph, started, mixed>>
        /\ started \in Imports /\ started \notin mixed
    BY DEF WentOn, Imports
  <1>2. Alone
    BY <1>1 DEF AloneInv
  <1>3. (\A j \in Imports : j <= started /\ j # started => ~ Unfinished(j))'
    BY <1>1, <1>2 DEF Alone, Unfinished, Again, Going, WentOn
  <1>4. AloneNow'
    BY <1>1, <1>2 DEF Alone, AloneNow, WentOn
  <1> QED BY <1>3, <1>4 DEF Alone

\* A step of the import that runs alone: only it, the row, its job and the graph
\* change, and what they are afterwards is what Alone says of them.
LEMMA AloneActs ==
  ASSUME NEW i \in Imports, i <= started, AloneInv, Unfinished(i),
         UNCHANGED <<started, mixed>>,
         \A j \in Imports : j # i => flow'[j] = flow[j],
         \A j \in Imports : j # i /\ graphJob[j].work # "found" => graphJob'[j] = graphJob[j],
         started \in Imports /\ Alone /\ i = started => AloneNow'
  PROVE  AloneInv'
  <1> SUFFICES ASSUME started' \in Imports, started' \notin mixed' PROVE Alone'
    BY DEF AloneInv
  <1>1. started' = started /\ started \in Imports /\ Alone
    BY DEF AloneInv
  <1>2. i = started
    BY <1>1 DEF Alone
  <1>3. (\A j \in Imports : j <= started /\ j # started => ~ Unfinished(j))'
    <2>1. ASSUME NEW j \in Imports, j <= started, j # started PROVE ~ Unfinished(j)'
      <3>1. ~ Unfinished(j)
        BY <1>1, <2>1 DEF Alone
      <3>2. flow'[j] = flow[j] /\ graphJob'[j] = graphJob[j]
        BY <1>2, <2>1, <3>1 DEF Unfinished
      <3> QED BY <3>1, <3>2 DEF Unfinished, Again, Going
    <2> QED BY <1>1, <2>1
  <1> QED BY <1>1, <1>2, <1>3 DEF Alone

LEMMA AloneStep ==
  ASSUME ImportTypeOK, WholeInv, AloneInv, [ImportNext]_importVars
  PROVE  AloneInv'
  <1>0. Imports \subseteq Nat /\ started \in Nat /\ NoRoot \notin Imports
    <2>1. started \in 0 .. MaxImports
      BY DEF ImportTypeOK
    <2> QED BY <2>1, ImportsAreNumbers
  <1>t. /\ flow \in [Imports -> OneImport] /\ graphJob \in [Imports -> JobRecords]
        /\ savedAs \in SavedRows
    BY DEF ImportTypeOK, OneImport
  <1>1. ASSUME UNCHANGED <<flow, savedAs, graphJob, graph, started, mixed>> PROVE AloneInv'
    BY <1>1, AloneWentOn DEF WentOn
  <1>s. Stages = Early \cup Past \cup {"updating", "asking graph", "graph", "error"}
    BY DEF Stages, Early, Past
  <1>a. ASSUME NEW i \in Imports, NEW stage \in Stages, Reach(i, stage)
        PROVE  /\ flow'[i].stage = stage
               /\ \A j \in Imports : flow'[j].files = flow[j].files
               /\ \A j \in Imports : j # i => flow'[j] = flow[j]
    BY <1>t, <1>a, ReachesStage
  <1>b. ASSUME NEW i \in Imports, NEW stage \in Stages, Reach(i, stage),
               UNCHANGED <<savedAs, graphJob, graph, started, mixed>>,
               flow[i].stage \in Over => stage \in Over,
               stage \in HasAsked => flow[i].stage \in HasAsked,
               flow[i].stage \in WithJob => stage \in WithJob,
               stage \in Past => flow[i].stage \in Past \/ graphJob[i].status = "succeeded"
        PROVE  AloneInv'
    <2>1. flow'[i].stage = stage /\ \A j \in Imports : flow'[j].files = flow[j].files
      BY <1>a, <1>b
    <2>2. \A j \in Imports : j # i => flow'[j] = flow[j]
      BY <1>a, <1>b
    <2> QED BY <1>b, <2>1, <2>2, AloneWentOn DEF WentOn
  <1>2. CASE LeaveImport
    BY <1>2, <1>1 DEF LeaveImport, Server
  <1>3. ASSUME NEW i \in Imports, MoveToWorkspace(i) PROVE AloneInv'
    BY <1>3, <1>b, <1>s DEF MoveToWorkspace, Stands, Server, Over, HasAsked, WithJob, Past, Early
  <1>4. CASE HandleImport
    <2> DEFINE n == started + 1
    <2>1. started' = n /\ \A j \in Imports : j <= n /\ j # n => j \in 1 .. started
      BY <1>0, <1>4 DEF HandleImport, Imports
    <2>2. ASSUME n \in Imports, n \notin mixed' PROVE Alone'
      <3>1. flow'[n].stage = "planning" /\ \A j \in Imports : j # n => flow'[j] = flow[j]
        BY <1>4, <1>t, <2>2 DEF HandleImport
      <3>2. UNCHANGED <<graphJob, savedAs, graph>>
        BY <1>4 DEF HandleImport, Server
      <3>3. \A j \in 1 .. started : ~ Unfinished(j)
        BY <1>4, <2>2 DEF HandleImport
      <3>4. graphJob'[n] = NoJob
        <4>1. n > started
          BY <1>0
        <4> QED BY <4>1, <2>2, <3>2 DEF WholeInv, Fresh
      <3>5. NoJob.work = "none" /\ NoJob.status = "none"
        BY DEF NoJob
      <3>6. (\A j \in Imports : j <= started /\ j # started => ~ Unfinished(j))'
        <4>1. ASSUME NEW j \in Imports, j <= n, j # n PROVE ~ Unfinished(j)'
          <5>1. j \in 1 .. started /\ flow'[j] = flow[j] /\ graphJob'[j] = graphJob[j]
            BY <1>0, <2>1, <3>1, <3>2, <4>1
          <5> QED BY <3>3, <5>1 DEF Unfinished, Again, Going
        <4> HIDE DEF n
        <4> QED BY <2>1, <4>1
      <3> HIDE DEF n
      <3> QED BY <2>1, <3>1, <3>4, <3>5, <3>6 DEF Alone, AloneNow, HasAsked, Past, Done
    <2> HIDE DEF n
    <2> QED BY <2>1, <2>2 DEF AloneInv
  <1>5. ASSUME NEW i \in Imports, FlowStep(i) PROVE AloneInv'
    <2>p. flow[i].stage # "none" => i <= started
      BY <1>0 DEF WholeInv, Fresh
    <2>1. ASSUME NEW how \in {"direct", "multipart"}, PrepareVariantSourceUpload(i, how)
          PROVE  AloneInv'
      BY <2>1, <1>b, <1>s DEF PrepareVariantSourceUpload, Page, Stands, Over, HasAsked, WithJob, Past, Early
    <2>2. ASSUME NEW f \in Files, PutFile(i, f) PROVE AloneInv'
      BY <2>2, <1>1 DEF PutFile, Page
    <2>3. CASE UploadsDone(i)
      BY <2>3, <1>b, <1>s DEF UploadsDone, Page, Stands, Server, Over, HasAsked, WithJob, Past
    <2>4. CASE UploadMultipart(i)
      <3>1. flow[i].stage = "uploading" /\ UNCHANGED <<graphJob, graph, started, mixed>>
        BY <2>4 DEF UploadMultipart, Page, Stands
      <3>2. savedAs'.root = i
        BY <2>4, <1>t DEF UploadMultipart, SavedRows
      <3>3. /\ flow'[i].stage = "updating" /\ \A j \in Imports : j # i => flow'[j] = flow[j]
            /\ flow'[i].files = flow[i].files
        BY <2>4, <1>a, <1>s DEF UploadMultipart
      <3>4. ASSUME Alone, i = started PROVE AloneNow'
        BY <3>1, <3>2, <3>3, <3>4 DEF Alone, AloneNow, HasAsked, WithJob, Past
      <3>5. Unfinished(i)
        BY <3>1 DEF Unfinished, Going, Over
      <3> QED BY <2>p, <3>1, <3>3, <3>4, <3>5, AloneActs
    <2>5. CASE UpdateVariant(i)
      <3>1. flow[i].stage = "updating" /\ UNCHANGED <<graphJob, graph, started, mixed>>
        BY <2>5 DEF UpdateVariant, Page, Stands
      <3>2. savedAs'.root = i
        BY <2>5 DEF UpdateVariant
      <3>3. /\ flow'[i].stage = "asking graph" /\ \A j \in Imports : j # i => flow'[j] = flow[j]
            /\ flow'[i].files = flow[i].files
        BY <2>5, <1>a, <1>s DEF UpdateVariant
      <3>4. ASSUME Alone, i = started PROVE AloneNow'
        BY <3>1, <3>2, <3>3, <3>4 DEF Alone, AloneNow, HasAsked, WithJob, Past
      <3>5. Unfinished(i)
        BY <3>1 DEF Unfinished, Going, Over
      <3> QED BY <2>p, <3>1, <3>3, <3>4, <3>5, AloneActs
    <2>6. CASE CreateGraphBuildJob(i)
      <3>1. /\ flow[i].stage = "asking graph" /\ UNCHANGED <<savedAs, graph, started, mixed>>
            /\ graphJob' = [graphJob EXCEPT ![i] = AskedJob]
        BY <2>6 DEF CreateGraphBuildJob, Page, Stands, AskedJob
      <3>2. /\ graphJob'[i].work = "waits" /\ graphJob'[i].status = "queued"
            /\ \A j \in Imports : j # i => graphJob'[j] = graphJob[j]
        BY <3>1, <1>t, AskedIsJob
      <3>3. flow'[i].stage = "graph" /\ \A j \in Imports : j # i => flow'[j] = flow[j]
        BY <2>6, <1>a, <1>s DEF CreateGraphBuildJob
      <3>4. ASSUME Alone, i = started PROVE AloneNow'
        BY <3>1, <3>2, <3>3, <3>4 DEF Alone, AloneNow, HasAsked, WithJob, Past, Done
      <3>5. Unfinished(i)
        BY <3>1 DEF Unfinished, Going, Over
      <3> QED BY <2>p, <3>1, <3>2, <3>3, <3>4, <3>5, AloneActs
    <2>7. CASE WaitForGraph(i)
      BY <2>7, <1>b, <1>s DEF WaitForGraph, Page, Stands, Server, Over, HasAsked, WithJob, Past
    <2>8. CASE CreateLaterJob(i)
      <3>1. Reach(i, "layout") \/ Reach(i, "review")
        BY <2>8 DEF CreateLaterJob
      <3> QED BY <2>8, <3>1, <1>b, <1>s DEF CreateLaterJob, Page, Stands, Server, Over, HasAsked, WithJob, Past
    <2>9. CASE WaitForLater(i)
      <3>1. Reach(i, "asking review") \/ Reach(i, "done")
        BY <2>9 DEF WaitForLater
      <3> QED BY <2>9, <3>1, <1>b, <1>s DEF WaitForLater, Page, Stands, Server, Over, HasAsked, WithJob, Past
    <2>10. CASE ImportFails(i)
      BY <2>10, <1>b, <1>s DEF ImportFails, Page, Server, Over, HasAsked, WithJob, Past
    <2> QED BY <1>5, <2>1, <2>2, <2>3, <2>4, <2>5, <2>6, <2>7, <2>8, <2>9, <2>10 DEF FlowStep
  <1>6. ASSUME NEW i \in Imports, JobStep(i) PROVE AloneInv'
    <2>i. ASSUME graphJob[i].work # "none"
          PROVE  savedAs.root \in Imports /\ i <= started
      BY <2>i, StartsAreNamed
    <2>1. CASE GraphJobStarts(i)
      <3>1. graphJob[i].work # "none"
        BY <2>1 DEF GraphJobStarts
      <3>2. /\ UNCHANGED <<flow, Form, started, mixed, upload, root, savedAs, graph, torn>>
            /\ Unfinished(i)
            /\ graphJob'[i].work = "read" /\ graphJob'[i].status = "running"
            /\ graphJob'[i].read = root[savedAs.root]
            /\ \A j \in Imports : j # i => graphJob'[j] = graphJob[j]
        BY <2>1, <2>i, <3>1, Started
      <3>3. root[savedAs.root] = flow[savedAs.root].files
        BY <1>0, <2>i, <3>1 DEF WholeInv, Named, NamesWhole
      <3>4. ASSUME Alone, i = started PROVE AloneNow'
        <4>1. savedAs.root = i /\ flow[i].stage \in WithJob /\ AloneNow
          BY <3>1, <3>4 DEF Alone, AloneNow
        <4> QED BY <3>2, <3>3, <3>4, <4>1 DEF AloneNow, Done
      <3> QED BY <2>i, <3>1, <3>2, <3>4, AloneActs
    <2>2. CASE SyncReads(i)
      <3>1. /\ UNCHANGED <<flow, Form, started, mixed, upload, root, savedAs, graph, torn>>
            /\ graphJob[i].work = "read" /\ graphJob'[i].work = "found"
            /\ graphJob'[i].status = graphJob[i].status
            /\ graphJob'[i].read = graphJob[i].read /\ graphJob'[i].row = savedAs
            /\ ~graphJob'[i].passed
            /\ \A j \in Imports : j # i => graphJob'[j] = graphJob[j]
        BY <2>2, FilesFound
      <3>2. ASSUME Alone, i = started PROVE AloneNow'
        BY <3>1, <3>2 DEF Alone, AloneNow, Done
      <3>3. Unfinished(i)
        BY <3>1 DEF Unfinished
      <3> QED BY <2>i, <3>1, <3>2, <3>3, AloneActs
    <2>3. CASE SyncCommits(i)
      <3>1. /\ graphJob[i].work = "found" /\ UNCHANGED <<flow, Form, started, mixed, upload, root>>
            /\ savedAs' = graphJob[i].row
            /\ graphJob[i].found = graph /\ graphJob[i].gone = {} => graph' = graphJob[i].read
            /\ graphJob'[i].work = "synced" /\ graphJob'[i].status = "running"
            /\ \A j \in Imports : j # i => (graphJob[j].work # "found" /\ graphJob'[j] = graphJob[j]) \/
                 /\ graphJob[j].work = "found" /\ graphJob'[j].work = "found"
                 /\ graphJob'[j].status = graphJob[j].status /\ graphJob'[j].read = graphJob[j].read
                 /\ graphJob'[j].row = graphJob[j].row /\ graphJob'[j].passed
        <4>1. ImportTypeOK /\ SyncCommits(i)
          BY <2>3
        <4> QED BY <4>1, Committed
      <3>2. ~graphJob[i].passed => graphJob[i].found = graph /\ graphJob[i].gone = {}
        BY <3>1 DEF WholeInv, JobsRight, JobRight
      <3>3. ASSUME Alone, i = started PROVE AloneNow'
        <4>1. /\ savedAs.root = i /\ flow[i].stage \in WithJob /\ AloneNow
              /\ graphJob[i].read = flow[i].files
              /\ graphJob[i].row.root = i /\ ~graphJob[i].passed
          BY <3>1, <3>3 DEF Alone, AloneNow
        <4>2. graph' = flow[i].files
          BY <3>1, <3>2, <4>1
        <4> QED BY <3>1, <3>3, <4>1, <4>2 DEF AloneNow
      <3>4. Unfinished(i)
        BY <3>1 DEF Unfinished
      <3>5. \A j \in Imports : j # i /\ graphJob[j].work # "found" => graphJob'[j] = graphJob[j]
        BY <3>1
      <3>6. (\A j \in Imports : j # i => flow'[j] = flow[j]) /\ UNCHANGED <<started, mixed>>
        BY <3>1
      <3>7. i <= started
        BY <2>i, <3>1
      <3> QED BY <3>3, <3>4, <3>5, <3>6, <3>7, AloneActs
    <2>4. CASE OtherTurn(i)
      <3>1. /\ UNCHANGED <<flow, Form, started, mixed, upload, root, savedAs, graph, torn>>
            /\ graphJob[i].work \in {"read", "found", "synced", "saved"}
            /\ graphJob'[i].work \in {"saved", "exited", "out"}
            /\ graphJob'[i].work \in {"saved", "exited"} => graphJob[i].work \in {"synced", "saved"}
            /\ graphJob'[i].status = "succeeded" =>
                 graphJob[i].status = "succeeded" \/ graphJob[i].work \in {"synced", "saved"}
            /\ \A j \in Imports : j # i => graphJob'[j] = graphJob[j]
        BY <2>4, OtherTurned
      <3>2. ASSUME Alone, i = started PROVE AloneNow'
        <4>1. AloneNow /\ started' = started
          BY <3>1, <3>2 DEF Alone
        <4>2. graphJob[i].status = "succeeded" \/ graphJob[i].work \in Done => graph = flow[i].files
          BY <3>2, <4>1 DEF AloneNow
        <4>3. savedAs.root = i /\ flow[i].stage \in WithJob
          BY <3>1, <3>2, <4>1 DEF AloneNow
        <4>4. flow[i].stage \in Past => graph = flow[i].files
          BY <3>2, <4>1 DEF AloneNow
        <4>5. graphJob'[i].work \in Done \/ graphJob'[i].status = "succeeded" => graph = flow[i].files
          BY <3>1, <4>2 DEF Done
        <4>6. graphJob'[i].work \notin {"read", "found"}
          BY <3>1
        <4> QED BY <3>1, <3>2, <4>1, <4>3, <4>4, <4>5, <4>6 DEF AloneNow
      <3>3. Unfinished(i)
        BY <3>1 DEF Unfinished
      <3> QED BY <2>i, <3>1, <3>2, <3>3, AloneActs
    <2> QED BY <1>6, <2>1, <2>2, <2>3, <2>4 DEF JobStep, OtherTurn
  <1>7. ASSUME NEW F \in Folders, HandleFolderSelect(F) PROVE AloneInv'
    BY <1>7, <1>1 DEF HandleFolderSelect, Server
  <1>8. ASSUME NEW R \in Rows, HandleToggle(R) PROVE AloneInv'
    BY <1>8, <1>1 DEF HandleToggle, Server
  <1>9. ASSUME NEW S \in {allFiles, {}}, SelectAllOrNone(S) PROVE AloneInv'
    BY <1>9, <1>1 DEF SelectAllOrNone, Server
  <1>10. ASSUME NEW s \in Steps, GoTo(s) PROVE AloneInv'
    BY <1>10, <1>1 DEF GoTo, Server
  <1>11. CASE OpenImport
    BY <1>11, <1>1 DEF OpenImport, Server
  <1>12. CASE UNCHANGED importVars
    BY <1>12, <1>1 DEF importVars
  <1> QED
    BY <1>2, <1>3, <1>4, <1>5, <1>6, <1>7, <1>8, <1>9, <1>10, <1>11, <1>12 DEF ImportNext

\* An import past its graph that ran beside no other, nor beside a job that Cloud Run
\* could still run, shows the files that were picked for it, its own job run again or not.
THEOREM AloneIsShown == ImportSpec => []ImportedIsPicked
  <1>0. ImportTypeOK => started \in 0 .. MaxImports
    BY DEF ImportTypeOK
  <1>1. ImportInit => AloneInv
    BY MaxImportsAssumption DEF ImportInit, AloneInv, Imports
  <1>2. ImportTypeOK /\ WholeInv /\ AloneInv /\ [ImportNext]_importVars => AloneInv'
    BY AloneStep
  <1>3. ImportTypeOK /\ AloneInv => ImportedIsPicked
    <2> SUFFICES ASSUME ImportTypeOK, AloneInv, started > 0, started \notin mixed,
                        flow[started].stage \in {"asking layout", "layout", "asking review", "review", "done"}
                 PROVE  graph = flow[started].files
      BY DEF ImportedIsPicked
    <2>1. started \in Imports
      BY <1>0, LastImport
    <2> QED BY <2>1 DEF AloneInv, Alone, AloneNow, Past
  <1> QED BY <1>1, <1>2, <1>3, ImportTypesCorrect, PTL DEF ImportSpec

-----------------------------------------------------------------------------
(* The library of design guides. *)

Summary == [count : Int, template : BOOLEAN]
SummaryMaps == UNION {[S -> Summary] : S \in SUBSET Guides}

TheList == [tab : Tabs, query : Queries, guides : SummaryMaps, likedGuides : [Guides -> Nat],
            likedGuideIds : SUBSET Guides, filled : {Failed} \cup (Tabs \X Queries),
            loading : BOOLEAN, mounted : Nat]
TheSheet == [of : Guides \cup {NoGuide}, loading : BOOLEAN, there : BOOLEAN, liked : BOOLEAN,
             count : Int, text : Contents, typed : BOOLEAN, saving : BOOLEAN]
ListLoads == [n : Nat, page : {"list"}, tab : Tabs, query : Queries,
              read : SUBSET {"listed", "liked"}, listed : SummaryMaps, liked : SUBSET Guides]
SheetLoads == [n : Nat, page : {"sheet"}, guide : Guides]
LikeCall == [n : Nat \ {0}, guide : Guides, like : BOOLEAN, from : {"list", "detail"},
             visit : Nat, at : {"sent", "found", "done", "error"}, row : Nat]
Write == [visit : Nat, at : {"sent", "done"}, text : Contents, guide : Guides \cup {NoGuide}]

RowTypes == guideRow \in [Guides -> GuideRow] /\ like \in [Guides -> Nat]
LibraryPageTypes == libPage \in {"list", "detail", "edit", "new"} /\ list \in TheList /\ sheet \in TheSheet
LibraryCallTypes ==
  /\ loads \subseteq ListLoads \cup SheetLoads /\ likeCalls \subseteq LikeCall /\ writes \subseteq Write
CountTypes == visits \in Nat \ {0} /\ likings \in Nat /\ unsure \subseteq Guides

\* The loads of this visit: one at most, for the page that is shown and waits.
LoadsInv ==
  /\ \A k \in loads : k.n <= visits
  /\ \A k, m \in loads : k.n = visits /\ m.n = visits => k = m
  /\ \A k \in loads : k.n = visits /\ k.page = "list" =>
       libPage = "list" /\ list.loading /\ k.tab = list.tab /\ k.query = list.query
  /\ \A k \in loads : k.n = visits /\ k.page = "sheet" =>
       libPage # "list" /\ sheet.loading /\ sheet.of \in Guides
  /\ libPage = "edit" /\ sheet.typed => ~sheet.loading
  /\ sheet.there => sheet.of \in Guides
  /\ ShownListIsChosen

\* What a guide and what a load say of the row, and what a call that is alone for
\* its guide knows of the list, of the row and of what it found.
Stored(g) == IF like[g] = NoLike THEN 0 ELSE 1
GuideRight(g) ==
  /\ g \in list.likedGuideIds <=> like[g] # NoLike
  /\ g \in DOMAIN list.guides => list.guides[g].count = Stored(g)
LoadRight(k, g) ==
  /\ "liked" \in k.read => (g \in k.liked <=> like[g] # NoLike)
  /\ "listed" \in k.read /\ g \in DOMAIN k.listed => k.listed[g].count = Stored(g)
CallRight(k) ==
  /\ k.from = "list" /\ k.visit = list.mounted /\ k.at # "error"
  /\ k.guide \in list.likedGuideIds <=> k.like
  /\ k.guide \in DOMAIN list.guides => list.guides[k.guide].count = IF k.like THEN 1 ELSE 0
  /\ k.at \in {"sent", "found"} => (like[k.guide] # NoLike <=> ~k.like)
  /\ k.at = "found" /\ ~k.like => k.row = like[k.guide]
  /\ k.at = "done" => (like[k.guide] # NoLike <=> k.like)

HeartsMatch == \A g \in Guides : list.likedGuides[g] > 0 <=> g \in list.likedGuideIds
LoadsRight ==
  libPage = "list" /\ list.loading =>
    /\ InFlight \subseteq unsure
    /\ \A k \in loads : k.n = visits /\ k.page = "list" =>
         \A g \in Guides : g \notin unsure => LoadRight(k, g)
CallsRight ==
  libPage = "list" /\ list.loading = FALSE /\ list.filled # Failed =>
    /\ \A k, j \in likeCalls : k.guide = j.guide /\ k.guide \notin unsure => k = j
    /\ \A k \in likeCalls : k.guide \notin unsure => CallRight(k)
    /\ \A g \in Guides : g \notin unsure /\ g \notin InFlight => GuideRight(g)
LikesInv == HeartsMatch /\ LoadsRight /\ CallsRight

\* What a click on a heart, a keystroke or a save leaves of a page.
SameList(l, m) == l.tab = m.tab /\ l.query = m.query /\ l.filled = m.filled /\ l.loading = m.loading
SameSheet(s, t) == s.of = t.of /\ s.loading = t.loading /\ s.there = t.there

Types == RowTypes /\ LibraryPageTypes /\ LibraryCallTypes /\ CountTypes

-----------------------------------------------------------------------------
\* Records with some fields changed.

LEMMA ListsAre ==
  ASSUME NEW l \in TheList
  PROVE  /\ l.tab \in Tabs /\ l.query \in Queries /\ l.guides \in SummaryMaps
         /\ l.likedGuides \in [Guides -> Nat] /\ l.likedGuideIds \in SUBSET Guides
         /\ l.filled \in {Failed} \cup (Tabs \X Queries) /\ l.loading \in BOOLEAN /\ l.mounted \in Nat
  BY DEF TheList

LEMMA ListChosen ==
  ASSUME NEW l \in TheList, NEW t \in Tabs, NEW q \in Queries
  PROVE  LET m == [l EXCEPT !.tab = t, !.query = q, !.loading = TRUE] IN
           /\ m \in TheList /\ m.tab = t /\ m.query = q /\ m.loading /\ m.likedGuides = l.likedGuides
           /\ m.likedGuideIds = l.likedGuideIds
  BY DEF TheList

LEMMA ListNotFilled ==
  ASSUME NEW l \in TheList
  PROVE  LET m == [l EXCEPT !.filled = Failed, !.loading = FALSE] IN
           /\ m \in TheList /\ m.filled = Failed /\ m.loading = FALSE /\ m.tab = l.tab /\ m.query = l.query
           /\ m.likedGuides = l.likedGuides /\ m.likedGuideIds = l.likedGuideIds
  BY DEF TheList

LEMMA MapsAre ==
  ASSUME NEW f \in SummaryMaps
  PROVE  DOMAIN f \in SUBSET Guides /\ f \in [DOMAIN f -> Summary]
  BY DEF SummaryMaps

LEMMA AreMaps ==
  ASSUME NEW S \in SUBSET Guides, NEW f \in [S -> Summary]
  PROVE  f \in SummaryMaps
  BY DEF SummaryMaps

LEMMA NoMap == << >> \in SummaryMaps
  <1>1. << >> \in [{} -> Summary]
    OBVIOUS
  <1> QED BY <1>1, AreMaps

LEMMA ListFilled ==
  ASSUME NEW k \in ListLoads, list \in TheList
  PROVE  LET m == Filled(k) IN
           /\ m \in TheList /\ m.filled = <<k.tab, k.query>> /\ m.loading = FALSE
           /\ m.tab = list.tab /\ m.query = list.query /\ m.guides = k.listed
           /\ \A g \in Guides : m.likedGuides[g] = IF g \in k.liked THEN 1 ELSE 0
           /\ m.likedGuideIds = k.liked
  <1>1. /\ k.tab \in Tabs /\ k.query \in Queries /\ k.listed \in SummaryMaps /\ k.liked \in SUBSET Guides
        /\ [g \in Guides |-> IF g \in k.liked THEN 1 ELSE 0] \in [Guides -> Nat]
    BY DEF ListLoads
  <1> QED BY <1>1 DEF Filled, TheList

\* What a click on the heart of g makes of a list.
ClickedOn(m, l, g, liked) ==
  /\ m.filled = l.filled /\ m.loading = l.loading /\ m.mounted = l.mounted
  /\ DOMAIN m.guides = DOMAIN l.guides
  /\ \A h \in DOMAIN l.guides : h # g => m.guides[h] = l.guides[h]
  /\ g \in DOMAIN l.guides => m.guides[g].count = l.guides[g].count + (IF liked THEN 1 ELSE -1)
  /\ \A h \in Guides : m.likedGuides[h] =
       IF h # g THEN l.likedGuides[h] ELSE IF liked THEN l.likedGuides[g] + 1 ELSE 0
  /\ m.likedGuideIds = IF liked THEN l.likedGuideIds \cup {g} ELSE l.likedGuideIds \ {g}

LEMMA ListLiked ==
  ASSUME NEW l \in TheList, NEW g \in Guides, NEW liked \in BOOLEAN
  PROVE  WithLike(l, g, liked) \in TheList /\ ClickedOn(WithLike(l, g, liked), l, g, liked)
  <1> DEFINE m == WithLike(l, g, liked)
             new == [h \in DOMAIN l.guides |->
                       IF h = g THEN [l.guides[h] EXCEPT !.count = @ + (IF liked THEN 1 ELSE -1)]
                       ELSE l.guides[h]]
             hearts == [l.likedGuides EXCEPT ![g] = IF liked THEN @ + 1 ELSE 0]
             ids == IF liked THEN l.likedGuideIds \cup {g} ELSE l.likedGuideIds \ {g}
  <1>1. l.guides \in SummaryMaps
    BY DEF TheList
  <1>2. DOMAIN l.guides \in SUBSET Guides /\ \A h \in DOMAIN l.guides : l.guides[h] \in Summary
    BY <1>1, MapsAre
  <1>3. \A s \in Summary, i \in Int : /\ [s EXCEPT !.count = @ + i] \in Summary
                                     /\ [s EXCEPT !.count = @ + i].count = s.count + i
    BY DEF Summary
  <1>4. (IF liked THEN 1 ELSE -1) \in Int
    OBVIOUS
  <1>5. /\ new \in [DOMAIN l.guides -> Summary]
        /\ \A h \in DOMAIN l.guides : h # g => new[h] = l.guides[h]
        /\ g \in DOMAIN l.guides => new[g].count = l.guides[g].count + (IF liked THEN 1 ELSE -1)
    BY <1>2, <1>3, <1>4
  <1>6. hearts \in [Guides -> Nat]
    <2>1. l.likedGuides \in [Guides -> Nat]
      BY DEF TheList
    <2> QED BY <2>1
  <1>7. ids \in SUBSET Guides
    BY DEF TheList
  <1>8. m = [l EXCEPT !.guides = new, !.likedGuides = hearts, !.likedGuideIds = ids]
    BY DEF WithLike
  <1>9. DOMAIN new = DOMAIN l.guides
    OBVIOUS
  <1>12. \A h \in Guides : hearts[h] =
           IF h # g THEN l.likedGuides[h] ELSE IF liked THEN l.likedGuides[g] + 1 ELSE 0
    <2>1. l.likedGuides \in [Guides -> Nat]
      BY DEF TheList
    <2> QED BY <2>1
  <1> HIDE DEF m, new, hearts, ids
  <1>10. new \in SummaryMaps
    BY <1>2, <1>5, AreMaps
  <1>11. m \in TheList /\ m.filled = l.filled /\ m.loading = l.loading /\ m.tab = l.tab
         /\ m.query = l.query /\ m.mounted = l.mounted /\ m.guides = new
         /\ m.likedGuides = hearts /\ m.likedGuideIds = ids
    BY <1>6, <1>7, <1>8, <1>10 DEF TheList
  <1>13. ids = IF liked THEN l.likedGuideIds \cup {g} ELSE l.likedGuideIds \ {g}
    BY DEF ids
  <1>14. /\ \A h \in DOMAIN l.guides : h # g => m.guides[h] = l.guides[h]
         /\ g \in DOMAIN l.guides => m.guides[g].count = l.guides[g].count + (IF liked THEN 1 ELSE -1)
         /\ DOMAIN m.guides = DOMAIN l.guides
    BY <1>5, <1>9, <1>11
  <1>15. /\ \A h \in Guides : m.likedGuides[h] =
              IF h # g THEN l.likedGuides[h] ELSE IF liked THEN l.likedGuides[g] + 1 ELSE 0
         /\ m.likedGuideIds = IF liked THEN l.likedGuideIds \cup {g} ELSE l.likedGuideIds \ {g}
    BY <1>11, <1>12, <1>13
  <1>16. m \in TheList /\ ClickedOn(m, l, g, liked)
    BY <1>11, <1>14, <1>15 DEF ClickedOn
  <1> QED BY <1>16 DEF m

LEMMA ListStays ==
  ASSUME NEW l \in TheList, NEW g \in Guides, NEW liked \in BOOLEAN
  PROVE  SameList(WithLike(l, g, liked), l)
  <1>1. \A a, b, c : SameList([l EXCEPT !.guides = a, !.likedGuides = b, !.likedGuideIds = c], l)
    BY DEF SameList, TheList
  <1> QED BY <1>1, Zenon DEF WithLike

LEMMA ListFilledFor ==
  ASSUME NEW k \in ListLoads, list \in TheList
  PROVE  LET m == Filled(k) IN
           m.filled = <<k.tab, k.query>> /\ m.tab = list.tab /\ m.query = list.query
  BY ListFilled, Zenon

LEMMA FreshIs ==
  ASSUME NEW n \in Nat
  PROVE  /\ FreshList(n) \in TheList /\ FreshList(n).loading /\ FreshList(n).tab = "templates"
         /\ FreshList(n).query = Guides /\ FreshList(n).likedGuideIds = {}
         /\ FreshList(n).likedGuides = [g \in Guides |-> 0]
  <1>1. /\ Guides \in Queries /\ "templates" \in Tabs
        /\ [g \in Guides |-> 0] \in [Guides -> Nat]
    BY LibraryAssumption DEF Tabs
  <1> QED BY <1>1, NoMap DEF FreshList, TheList

LEMMA SheetsAre ==
  ASSUME NEW s \in TheSheet
  PROVE  /\ s.of \in Guides \cup {NoGuide} /\ s.loading \in BOOLEAN /\ s.there \in BOOLEAN
         /\ s.liked \in BOOLEAN /\ s.count \in Int /\ s.text \in Contents /\ s.typed \in BOOLEAN
         /\ s.saving \in BOOLEAN
  BY DEF TheSheet

LEMMA FreshSheetIs == FreshSheet \in TheSheet /\ FreshSheet.typed = FALSE /\ FreshSheet.there = FALSE
  BY DEF FreshSheet, TheSheet, Contents

LEMMA SheetOpened ==
  ASSUME NEW g \in Guides \cup {NoGuide}, NEW b \in BOOLEAN,
         NEW s, s = [FreshSheet EXCEPT !.of = g, !.loading = b]
  PROVE  s \in TheSheet /\ s.of = g /\ s.loading = b /\ s.typed = FALSE /\ s.there = FALSE
  <1>1. \A r \in TheSheet : LET m == [r EXCEPT !.of = g, !.loading = b] IN
          /\ m \in TheSheet /\ m.of = g /\ m.loading = b
          /\ m.typed = r.typed /\ m.there = r.there
    BY DEF TheSheet
  <1> QED BY <1>1, FreshSheetIs

LEMMA SheetLiked ==
  ASSUME NEW r \in TheSheet, NEW b \in BOOLEAN, NEW c \in Int
  PROVE  LET s == [r EXCEPT !.liked = b, !.count = c] IN
           /\ s \in TheSheet /\ s.of = r.of /\ s.loading = r.loading /\ s.there = r.there /\ s.text = r.text
           /\ s.typed = r.typed
  BY DEF TheSheet

LEMMA SheetFilled ==
  ASSUME NEW r \in TheSheet, NEW i \in Int, NEW c \in Contents
  PROVE  LET s == [r EXCEPT !.loading = FALSE, !.there = TRUE, !.count = i, !.text = c, !.typed = FALSE] IN
           /\ s \in TheSheet /\ s.of = r.of /\ s.loading = FALSE /\ s.typed = FALSE
  BY DEF TheSheet

LEMMA SheetNotFilled ==
  ASSUME NEW r \in TheSheet
  PROVE  LET s == [r EXCEPT !.loading = FALSE] IN
           /\ s \in TheSheet /\ s.of = r.of /\ s.loading = FALSE /\ s.there = r.there
           /\ s.text = r.text /\ s.typed = r.typed
  BY DEF TheSheet

LEMMA SheetTyped ==
  ASSUME NEW r \in TheSheet
  PROVE  LET s == [r EXCEPT !.text = "edited", !.typed = TRUE] IN
           /\ s \in TheSheet /\ s.of = r.of /\ s.loading = r.loading /\ s.there = r.there
  BY DEF TheSheet, Contents

LEMMA SheetSaving ==
  ASSUME NEW r \in TheSheet, NEW b \in BOOLEAN
  PROVE  LET s == [r EXCEPT !.saving = b] IN
           /\ s \in TheSheet /\ s.of = r.of /\ s.loading = r.loading /\ s.there = r.there
           /\ s.text = r.text /\ s.typed = r.typed
  BY DEF TheSheet

LEMMA FoundAre ==
  ASSUME Types, NEW k \in ListLoads
  PROVE  Found(k.tab, k.query) \in SUBSET Guides /\ LikedNow \in SUBSET Guides
  <1>1. k.query \in SUBSET Guides
    BY LibraryAssumption DEF ListLoads
  <1> QED BY <1>1 DEF Found, LikedNow

LEMMA SummariesAre ==
  ASSUME RowTypes, NEW S \in SUBSET Guides
  PROVE  /\ Summaries(S) \in SummaryMaps /\ DOMAIN Summaries(S) = S
         /\ \A g \in S : Summaries(S)[g].count = IF like[g] = NoLike THEN 0 ELSE 1
  <1>1. \A g \in S : guideRow[g].template \in BOOLEAN
    BY DEF RowTypes, GuideRow
  <1>2. Summaries(S) \in [S -> Summary]
    BY <1>1 DEF Summaries, Summary
  <1>3. Summaries(S) \in SummaryMaps
    BY <1>2, AreMaps
  <1> QED BY <1>2, <1>3 DEF Summaries

LEMMA LoadIs ==
  ASSUME NEW n \in Nat, NEW t \in Tabs, NEW q \in Queries
  PROVE  /\ ListLoad(n, t, q) \in ListLoads /\ ListLoad(n, t, q).n = n
         /\ ListLoad(n, t, q).page = "list" /\ ListLoad(n, t, q).tab = t
         /\ ListLoad(n, t, q).query = q /\ ListLoad(n, t, q).read = {}
  BY NoMap DEF ListLoad, ListLoads, Asked

LEMMA SheetLoadIs ==
  ASSUME NEW n \in Nat, NEW g \in Guides
  PROVE  /\ SheetLoad(n, g) \in SheetLoads /\ SheetLoad(n, g).n = n
         /\ SheetLoad(n, g).page = "sheet" /\ SheetLoad(n, g).guide = g
  BY DEF SheetLoad, SheetLoads

LEMMA LoadListed ==
  ASSUME NEW k \in ListLoads, NEW f \in SummaryMaps
  PROVE  LET m == [k EXCEPT !.read = @ \cup {"listed"}, !.listed = f] IN
           /\ m \in ListLoads /\ m.n = k.n /\ m.page = "list" /\ m.tab = k.tab /\ m.query = k.query
           /\ m.read = k.read \cup {"listed"} /\ m.listed = f /\ m.liked = k.liked
  BY DEF ListLoads

LEMMA LoadLiked ==
  ASSUME NEW k \in ListLoads, NEW S \in SUBSET Guides
  PROVE  LET m == [k EXCEPT !.read = @ \cup {"liked"}, !.liked = S] IN
           /\ m \in ListLoads /\ m.n = k.n /\ m.page = "list" /\ m.tab = k.tab /\ m.query = k.query
           /\ m.read = k.read \cup {"liked"} /\ m.listed = k.listed /\ m.liked = S
  BY DEF ListLoads

LEMMA CallFound ==
  ASSUME NEW k \in LikeCall, NEW a \in {"done", "found"}, NEW r \in Nat
  PROVE  LET m == [k EXCEPT !.at = a, !.row = r] IN
           /\ m \in LikeCall /\ m.n = k.n /\ m.guide = k.guide /\ m.like = k.like
           /\ m.from = k.from /\ m.visit = k.visit /\ m.at = a /\ m.row = r
  BY DEF LikeCall

LEMMA CallOnward ==
  ASSUME NEW k \in LikeCall, NEW a \in {"done", "error"}
  PROVE  LET m == [k EXCEPT !.at = a] IN
           /\ m \in LikeCall /\ m.n = k.n /\ m.guide = k.guide /\ m.like = k.like
           /\ m.from = k.from /\ m.visit = k.visit /\ m.at = a /\ m.row = k.row
  BY DEF LikeCall

LEMMA CallSent ==
  ASSUME NEW n \in Nat \ {0}, NEW g \in Guides, NEW b \in BOOLEAN, NEW p \in {"list", "detail"},
         NEW v \in Nat
  PROVE  LET m == [n |-> n, guide |-> g, like |-> b, from |-> p, visit |-> v, at |-> "sent", row |-> NoLike] IN
           /\ m \in LikeCall /\ m.n = n /\ m.guide = g /\ m.like = b /\ m.from = p /\ m.visit = v
           /\ m.at = "sent"
  BY DEF LikeCall, NoLike

LEMMA CallsAre ==
  ASSUME NEW k \in LikeCall
  PROVE  /\ k.n \in Nat \ {0} /\ k.guide \in Guides /\ k.like \in BOOLEAN
         /\ k.from \in {"list", "detail"} /\ k.visit \in Nat /\ k.row \in Nat
         /\ k.at \in {"sent", "found", "done", "error"}
  BY DEF LikeCall

LEMMA RowSaved ==
  ASSUME guideRow \in [Guides -> GuideRow], NEW g \in Guides, NEW c \in Contents
  PROVE  /\ [guideRow EXCEPT ![g].template = FALSE, ![g].text = c] \in [Guides -> GuideRow]
         /\ [guideRow EXCEPT ![g].public = FALSE] \in [Guides -> GuideRow]
  BY DEF GuideRow

LEMMA LoadsAre ==
  ASSUME LibraryCallTypes, NEW k \in loads
  PROVE  /\ k.n \in Nat
         /\ k.page = "list" => k \in ListLoads /\ k.tab \in Tabs /\ k.query \in Queries
         /\ k.page = "sheet" => k \in SheetLoads /\ k.guide \in Guides
         /\ k.page = "list" \/ k.page = "sheet"
  BY DEF LibraryCallTypes, ListLoads, SheetLoads

-----------------------------------------------------------------------------
\* Types.

LEMMA TypesStart == LibraryInit => Types
  <1> SUFFICES ASSUME LibraryInit PROVE Types
    OBVIOUS
  <1>1. RowTypes
    <2>1. PICK M \in SUBSET Guides : guideRow =
            [g \in Guides |-> [public |-> TRUE, template |-> TRUE, text |-> "stored", mine |-> g \in M]]
      BY DEF LibraryInit, LibraryAt
    <2>2. \A g \in Guides :
            [public |-> TRUE, template |-> TRUE, text |-> "stored", mine |-> g \in M] \in GuideRow
      BY DEF GuideRow, Contents
    <2> QED BY <2>1, <2>2 DEF LibraryInit, LibraryAt, RowTypes, NoLike
  <1>2. LibraryPageTypes
    BY FreshIs, FreshSheetIs DEF LibraryInit, LibraryAt, LibraryPageTypes
  <1>3. loads \subseteq ListLoads \cup SheetLoads
    <2>1. Guides \in Queries /\ "templates" \in Tabs
      BY LibraryAssumption DEF Tabs
    <2> QED BY <2>1, LoadIs DEF LibraryInit, LibraryAt
  <1>4. LibraryCallTypes /\ CountTypes
    BY <1>3 DEF LibraryInit, LibraryAt, LibraryCallTypes, CountTypes
  <1> QED BY <1>1, <1>2, <1>4 DEF Types

\* The page shown is left for another one.
LEMMA OpenTypes ==
  ASSUME Types, NEW p \in {"detail", "edit", "new"}, NEW g \in Guides \cup {NoGuide}, Open(p, g)
  PROVE  Types'
  <1>0. visits \in Nat /\ visits + 1 \in Nat \ {0}
    BY DEF Types, CountTypes
  <1>1. LibraryPageTypes'
    <2>1. (g # NoGuide) \in BOOLEAN
      OBVIOUS
    <2> QED BY <1>0, <2>1, FreshIs, SheetOpened DEF Open, Visit, Types, LibraryPageTypes
  <1>2. LibraryCallTypes'
    <2>1. g = NoGuide \/ g \in Guides
      OBVIOUS
    <2> QED BY <1>0, <2>1, SheetLoadIs DEF Open, Visit, Types, LibraryCallTypes
  <1> QED BY <1>0, <1>1, <1>2 DEF Open, Visit, Types, RowTypes, CountTypes

\* The list anew.
LEMMA BackTypes ==
  ASSUME Types, Visit, libPage' = "list", list' = FreshList(visits + 1), sheet' = FreshSheet,
         loads' \subseteq loads \cup {ListLoad(visits + 1, "templates", Guides)}, unsure' = InFlight,
         UNCHANGED <<guideRow, like, likeCalls, writes, likings>>
  PROVE  Types'
  <1>0. visits \in Nat /\ visits + 1 \in Nat \ {0} /\ Guides \in Queries /\ "templates" \in Tabs
    BY LibraryAssumption DEF Types, CountTypes, Tabs
  <1>1. LibraryPageTypes'
    BY <1>0, FreshIs, FreshSheetIs DEF LibraryPageTypes
  <1>2. LibraryCallTypes'
    BY <1>0, LoadIs DEF Types, LibraryCallTypes
  <1>3. InFlight \subseteq Guides
    BY CallsAre DEF Types, LibraryCallTypes, InFlight
  <1> QED BY <1>0, <1>1, <1>2, <1>3 DEF Visit, Types, RowTypes, CountTypes

LEMMA LoadTypes ==
  ASSUME Types, NEW k \in loads, LoadStep(k)
  PROVE  Types'
  <1>0. /\ guideRow \in [Guides -> GuideRow] /\ like \in [Guides -> Nat] /\ RowTypes
        /\ libPage \in {"list", "detail", "edit", "new"} /\ list \in TheList /\ sheet \in TheSheet
        /\ loads \subseteq ListLoads \cup SheetLoads
    BY DEF Types, RowTypes, LibraryPageTypes, LibraryCallTypes
  <1>00. k.page = "list" => k \in ListLoads
    BY LoadsAre DEF Types
  <1>000. k.page = "sheet" => k.guide \in Guides
    BY LoadsAre DEF Types
  <1>1. CASE ServeListed(k)
    <2>1. k \in ListLoads
      BY <1>00, <1>1 DEF ServeListed
    <2>2. Summaries(Found(k.tab, k.query)) \in SummaryMaps
      BY <1>0, <2>1, FoundAre, SummariesAre
    <2>3. [k EXCEPT !.read = @ \cup {"listed"}, !.listed = Summaries(Found(k.tab, k.query))] \in ListLoads
      BY <2>1, <2>2, LoadListed
    <2> QED BY <1>1, <2>3 DEF ServeListed, Types, RowTypes, LibraryPageTypes, LibraryCallTypes, CountTypes
  <1>2. CASE ServeLiked(k)
    <2>1. k \in ListLoads
      BY <1>00, <1>2 DEF ServeLiked
    <2>2. [k EXCEPT !.read = @ \cup {"liked"}, !.liked = LikedNow] \in ListLoads
      BY <2>1, FoundAre, LoadLiked
    <2> QED BY <1>2, <2>2 DEF ServeLiked, Types, RowTypes, LibraryPageTypes, LibraryCallTypes, CountTypes
  <1>3. CASE GuidesArrive(k)
    <2>1. k \in ListLoads
      BY <1>00, <1>3 DEF GuidesArrive
    <2>2. Filled(k) \in TheList
      BY <1>0, <2>1, ListFilled
    <2>3. list' \in TheList
      BY <1>0, <1>3, <2>2 DEF GuidesArrive
    <2> QED BY <1>3, <2>3 DEF GuidesArrive, Types, RowTypes, LibraryPageTypes, LibraryCallTypes, CountTypes
  <1>4. CASE GuidesFail(k)
    <2>1. list' \in TheList
      BY <1>0, <1>4, ListNotFilled DEF GuidesFail
    <2> QED BY <1>4, <2>1 DEF GuidesFail, Types, RowTypes, LibraryPageTypes, LibraryCallTypes, CountTypes
  <1>5. CASE GuideArrives(k)
    <2>1. k.guide \in Guides
      BY <1>000, <1>5 DEF GuideArrives
    <2>2. guideRow[k.guide].text \in Contents
      BY <1>0, <2>1 DEF GuideRow
    <2>3. (IF like[k.guide] = NoLike THEN 0 ELSE 1) \in Int
      OBVIOUS
    <2>4. sheet' \in TheSheet
      BY <1>0, <1>5, <2>2, <2>3, SheetFilled DEF GuideArrives
    <2> QED BY <1>5, <2>4 DEF GuideArrives, Types, RowTypes, LibraryPageTypes, LibraryCallTypes, CountTypes
  <1>6. CASE GuideMissing(k)
    <2>1. sheet' \in TheSheet
      BY <1>0, <1>6, SheetNotFilled DEF GuideMissing
    <2> QED BY <1>6, <2>1 DEF GuideMissing, Types, RowTypes, LibraryPageTypes, LibraryCallTypes, CountTypes
  <1>7. CASE EditorLeaves(k)
    <2>1. loads' \subseteq loads \cup {ListLoad(visits + 1, "templates", Guides)}
      BY <1>7 DEF EditorLeaves
    <2> QED BY <1>7, <2>1, BackTypes DEF EditorLeaves
  <1> QED BY <1>1, <1>2, <1>3, <1>4, <1>5, <1>6, <1>7 DEF LoadStep

LEMMA LikeTypes ==
  ASSUME Types, NEW k \in likeCalls, LikeStep(k)
  PROVE  Types'
  <1>0. /\ like \in [Guides -> Nat] /\ list \in TheList /\ sheet \in TheSheet
        /\ k \in LikeCall /\ likeCalls \subseteq LikeCall
    BY DEF Types, RowTypes, LibraryPageTypes, LibraryCallTypes
  <1>00. k.n \in Nat /\ k.guide \in Guides /\ k.like \in BOOLEAN /\ like[k.guide] \in Nat
    BY <1>0, CallsAre
  <1>000. \A a \in {"done", "error"} : [k EXCEPT !.at = a] \in LikeCall
    BY <1>0, CallOnward
  <1>1. CASE FindLike(k)
    <2> DEFINE a == IF k.like = (like[k.guide] # NoLike) THEN "done" ELSE "found"
               m == [k EXCEPT !.at = a, !.row = like[k.guide]]
    <2>1. a \in {"done", "found"}
      OBVIOUS
    <2>3. likeCalls' = (likeCalls \ {k}) \cup {m}
      BY <1>1 DEF FindLike
    <2> HIDE DEF a
    <2>4. m \in LikeCall
      BY <1>0, <1>00, <2>1, CallFound
    <2> HIDE DEF m
    <2>2. likeCalls' \subseteq LikeCall
      BY <1>0, <2>3, <2>4
    <2> QED BY <1>1, <2>2 DEF FindLike, LikesOnly, Types, RowTypes, LibraryPageTypes, LibraryCallTypes, CountTypes
  <1>2. CASE CreateLike(k)
    <2>1. likeCalls' \subseteq LikeCall
      BY <1>0, <1>2, <1>000 DEF CreateLike, Onward
    <2>2. like' \in [Guides -> Nat]
      BY <1>0, <1>00, <1>2 DEF CreateLike
    <2> QED BY <1>2, <2>1, <2>2 DEF CreateLike, LikesOnly, Types, RowTypes, LibraryPageTypes, LibraryCallTypes, CountTypes
  <1>3. CASE DeleteLikeByID(k)
    <2>1. likeCalls' \subseteq LikeCall
      BY <1>0, <1>3, <1>000 DEF DeleteLikeByID, Onward
    <2>2. like' \in [Guides -> Nat]
      BY <1>0, <1>00, <1>3 DEF DeleteLikeByID, NoLike
    <2> QED BY <1>3, <2>1, <2>2 DEF DeleteLikeByID, LikesOnly, Types, RowTypes, LibraryPageTypes, LibraryCallTypes, CountTypes
  <1>4. CASE LikeDone(k)
    BY <1>4 DEF LikeDone, Types, RowTypes, LibraryPageTypes, LibraryCallTypes, CountTypes
  <1>5. CASE LikeFails(k)
    <2>1. list' \in TheList
      <3>1. WithLike(list, k.guide, ~k.like) \in TheList
        <4>1. (~k.like) \in BOOLEAN
          BY <1>00
        <4> QED BY <1>0, <1>00, <4>1, ListLiked
      <3> QED BY <1>0, <1>5, <3>1 DEF LikeFails
    <2>2. sheet' \in TheSheet
      <3> DEFINE c == sheet.count + (IF k.like THEN -1 ELSE 1)
                 b == ~k.like
      <3>1. b \in BOOLEAN /\ c \in Int
        BY <1>0, <1>00, SheetsAre
      <3>2. sheet' = sheet \/ sheet' = [sheet EXCEPT !.liked = b, !.count = c]
        BY <1>5, Zenon DEF LikeFails
      <3> HIDE DEF b, c
      <3>3. [sheet EXCEPT !.liked = b, !.count = c] \in TheSheet
        BY <1>0, <3>1, SheetLiked
      <3> QED BY <1>0, <3>2, <3>3
    <2>3. unsure' \subseteq Guides
      BY <1>00, <1>5 DEF LikeFails, Types, CountTypes
    <2> QED BY <1>5, <2>1, <2>2, <2>3 DEF LikeFails, Types, RowTypes, LibraryPageTypes, LibraryCallTypes, CountTypes
  <1> QED BY <1>1, <1>2, <1>3, <1>4, <1>5 DEF LikeStep

LEMMA LibraryTypesStep == Types /\ LoadsInv /\ [LibraryNext]_libraryVars => Types'
  <1> SUFFICES ASSUME Types, LoadsInv, [LibraryNext]_libraryVars PROVE Types'
    OBVIOUS
  <1>0. /\ guideRow \in [Guides -> GuideRow] /\ like \in [Guides -> Nat]
        /\ list \in TheList /\ sheet \in TheSheet /\ writes \subseteq Write
        /\ visits \in Nat \ {0} /\ visits + 1 \in Nat \ {0} /\ likings \in Nat /\ likings + 1 \in Nat \ {0}
        /\ likeCalls \subseteq LikeCall /\ loads \subseteq ListLoads \cup SheetLoads
    BY DEF Types, RowTypes, LibraryPageTypes, LibraryCallTypes, CountTypes
  <1>00. list.mounted \in Nat /\ list.likedGuideIds \subseteq Guides /\ list.guides \in SummaryMaps
    BY <1>0, ListsAre
  <1>000. ShownGuides \subseteq Guides
    BY <1>00, MapsAre DEF ShownGuides
  <1>1. ASSUME NEW t \in Tabs, NEW q \in Queries, ChooseList(t, q) PROVE Types'
    <2>1. list' \in TheList
      BY <1>0, <1>1, ListChosen DEF ChooseList
    <2>2. loads' \subseteq ListLoads \cup SheetLoads
      BY <1>0, <1>1, LoadIs DEF ChooseList
    <2>3. InFlight \subseteq Guides
      BY <1>0, CallsAre DEF InFlight
    <2> QED BY <1>0, <1>1, <2>1, <2>2, <2>3 DEF ChooseList, Visit, Types, RowTypes, LibraryPageTypes, LibraryCallTypes, CountTypes
  <1>2. ASSUME NEW g \in Guides, ToggleLike(g) PROVE Types'
    <2> DEFINE b == g \notin list.likedGuideIds
               m == [n |-> likings + 1, guide |-> g, like |-> b, from |-> "list",
                     visit |-> list.mounted, at |-> "sent", row |-> NoLike]
    <2>1. b \in BOOLEAN
      OBVIOUS
    <2>2. list' = WithLike(list, g, b) /\ likeCalls' = likeCalls \cup {m}
      BY <1>2 DEF ToggleLike
    <2> HIDE DEF b
    <2>3. list' \in TheList
      BY <1>0, <2>1, <2>2, ListLiked
    <2>4. m \in LikeCall
      BY <1>0, <1>00, <2>1, CallSent
    <2> HIDE DEF m
    <2>5. likeCalls' \subseteq LikeCall
      BY <1>0, <2>2, <2>4
    <2> QED BY <1>0, <1>2, <2>3, <2>5 DEF ToggleLike, Liking, Types, RowTypes, LibraryPageTypes, LibraryCallTypes, CountTypes
  <1>3. ASSUME NEW g \in Guides, OpenDetail(g) PROVE Types'
    BY <1>3, OpenTypes DEF OpenDetail
  <1>4. ASSUME NEW g \in Guides, CreateFromLiked(g) PROVE Types'
    BY <1>4, OpenTypes DEF CreateFromLiked
  <1>5. ASSUME NEW g \in Guides, OwnerHides(g) PROVE Types'
    <2>1. guideRow' \in [Guides -> GuideRow]
      BY <1>0, <1>5, RowSaved DEF OwnerHides, Contents
    <2> QED BY <1>0, <1>5, <2>1 DEF OwnerHides, Types, RowTypes, LibraryPageTypes, LibraryCallTypes, CountTypes
  <1>6. CASE OpenEditor
    <2>1. sheet.of \in Guides
      BY <1>6 DEF OpenEditor, Mine
    <2> QED BY <1>6, <2>1, OpenTypes DEF OpenEditor
  <1>7. CASE CreateFromNothing
    BY <1>7, OpenTypes DEF CreateFromNothing
  <1>8. CASE BackToList
    BY <1>8, BackTypes DEF BackToList
  <1>9. CASE HandleLikeToggle
    <2> DEFINE b == ~sheet.liked
               c == sheet.count + (IF sheet.liked THEN -1 ELSE 1)
               m == [n |-> likings + 1, guide |-> sheet.of, like |-> b, from |-> "detail",
                     visit |-> visits, at |-> "sent", row |-> NoLike]
    <2>1. b \in BOOLEAN /\ c \in Int
      BY <1>0, SheetsAre
    <2>2. sheet' = [sheet EXCEPT !.liked = b, !.count = c]
      BY <1>9, Zenon DEF HandleLikeToggle
    <2>3. likeCalls' = likeCalls \cup {m}
      BY <1>9 DEF HandleLikeToggle
    <2> HIDE DEF b, c
    <2>4. sheet' \in TheSheet
      BY <1>0, <2>1, <2>2, SheetLiked
    <2>5. sheet.of \in Guides
      BY <1>9 DEF HandleLikeToggle, LoadsInv
    <2>6. m \in LikeCall
      <3>1. visits \in Nat /\ "detail" \in {"list", "detail"}
        BY <1>0
      <3> QED BY <1>0, <2>1, <2>5, <3>1, CallSent
    <2> HIDE DEF m
    <2>7. likeCalls' \subseteq LikeCall
      BY <1>0, <2>3, <2>6
    <2> QED BY <1>0, <1>9, <2>4, <2>7 DEF HandleLikeToggle, Liking, Types, RowTypes, LibraryPageTypes, LibraryCallTypes, CountTypes
  <1>10. CASE TypeText
    <2>1. sheet' \in TheSheet
      BY <1>0, <1>10, SheetTyped DEF TypeText
    <2> QED BY <1>10, <2>1 DEF TypeText, Types, RowTypes, LibraryPageTypes, LibraryCallTypes, CountTypes
  <1>11. CASE HandleSave
    <2>1. sheet' \in TheSheet
      BY <1>0, <1>11, SheetSaving DEF HandleSave
    <2>2. sheet.text \in Contents /\ (IF libPage = "edit" THEN sheet.of ELSE NoGuide) \in Guides \cup {NoGuide}
      BY <1>0, SheetsAre
    <2>3. writes' \subseteq Write
      BY <1>0, <1>11, <2>2 DEF HandleSave, Write
    <2> QED BY <1>11, <2>1, <2>3 DEF HandleSave, Types, RowTypes, LibraryPageTypes, LibraryCallTypes, CountTypes
  <1>12. ASSUME NEW k \in loads, LoadStep(k) PROVE Types'
    BY <1>12, LoadTypes
  <1>13. ASSUME NEW k \in likeCalls, LikeStep(k) PROVE Types'
    BY <1>13, LikeTypes
  <1>14. ASSUME NEW w \in writes, ServeSave(w) PROVE Types'
    <2>1. w \in Write /\ w.text \in Contents /\ [w EXCEPT !.at = "done"] \in Write
      BY <1>0 DEF Write
    <2>2. guideRow' \in [Guides -> GuideRow]
      <3>1. CASE w.guide \in Mine
        <4>1. w.guide \in Guides
          BY <3>1 DEF Mine
        <4> QED BY <1>0, <1>14, <2>1, <3>1, <4>1, RowSaved DEF ServeSave
      <3> QED BY <1>0, <1>14, <3>1 DEF ServeSave
    <2> QED BY <1>0, <1>14, <2>1, <2>2 DEF ServeSave, Types, RowTypes, LibraryPageTypes, LibraryCallTypes, CountTypes
  <1>15. ASSUME NEW w \in writes, SaveEnds(w) PROVE Types'
    <2>1. sheet' \in TheSheet
      BY <1>0, <1>15, SheetSaving DEF SaveEnds
    <2> QED BY <1>0, <1>15, <2>1 DEF SaveEnds, Types, RowTypes, LibraryPageTypes, LibraryCallTypes, CountTypes
  <1>16. CASE UNCHANGED libraryVars
    BY <1>16 DEF libraryVars, Types, RowTypes, LibraryPageTypes, LibraryCallTypes, CountTypes
  <1> QED BY <1>1, <1>2, <1>3, <1>4, <1>5, <1>6, <1>7, <1>8, <1>9, <1>10, <1>11, <1>12, <1>13,
             <1>14, <1>15, <1>16 DEF LibraryNext, SaveStep

-----------------------------------------------------------------------------
\* The load of this visit.

LEMMA LoadsStart == LibraryInit => LoadsInv
  <1> SUFFICES ASSUME LibraryInit PROVE LoadsInv
    OBVIOUS
  <1>1. Guides \in Queries /\ "templates" \in Tabs
    BY LibraryAssumption DEF Tabs
  <1>2. /\ libPage = "list" /\ list.loading /\ list.tab = "templates" /\ list.query = Guides
        /\ sheet.there = FALSE /\ visits = 1 /\ loads = {ListLoad(1, "templates", Guides)}
    BY FreshIs, FreshSheetIs DEF LibraryInit, LibraryAt
  <1> QED BY <1>1, <1>2, LoadIs DEF LoadsInv, ShownListIsChosen, IsListLoading

LEMMA LoadsKept ==
  ASSUME LoadsInv, UNCHANGED <<loads, libPage, visits>>, SameList(list', list), SameSheet(sheet', sheet),
         libPage = "edit" /\ sheet'.typed => sheet.typed \/ ~sheet.loading
  PROVE  LoadsInv'
  BY DEF LoadsInv, ShownListIsChosen, IsListLoading, SameList, SameSheet

\* A load is answered, or given up: what it leaves is not for this visit.
LEMMA LoadsEnd ==
  ASSUME Types, LoadsInv, NEW k \in loads, loads' = loads \ {k}, UNCHANGED <<libPage, visits>>,
         k.n = visits \/ (list' = list /\ sheet' = sheet),
         ShownListIsChosen', libPage = "edit" /\ sheet'.typed => ~sheet'.loading,
         sheet'.there => sheet'.of \in Guides
  PROVE  LoadsInv'
  <1>1. \A m \in loads' : m.n = visits' => k.n # visits
    BY DEF LoadsInv
  <1>2. \A m \in loads' : m.n = visits' => list' = list /\ sheet' = sheet
    BY <1>1
  <1> QED BY <1>2 DEF LoadsInv

\* A page is shown that waits for the load it asks for.
LEMMA LoadsAnew ==
  ASSUME Types, LoadsInv, visits' = visits + 1, NEW m, m.n = visits', loads' \subseteq loads \cup {m},
         m.page = "list" \/ m.page = "sheet",
         m.page = "list" => libPage' = "list" /\ m.tab = list'.tab /\ m.query = list'.query,
         m.page = "sheet" => libPage' # "list" /\ sheet'.loading /\ sheet'.of \in Guides,
         libPage' = "list" => list'.loading,
         libPage' = "edit" => ~sheet'.typed, sheet'.there => sheet'.of \in Guides
  PROVE  LoadsInv'
  <1>1. \A k \in loads : k.n <= visits' /\ k.n # visits'
    <2>1. \A k \in loads : k.n \in Nat /\ k.n <= visits /\ visits \in Nat
      BY LoadsAre DEF Types, CountTypes, LoadsInv
    <2> QED BY <2>1
  <1>2. \A k \in loads' : k.n = visits' => k = m
    BY <1>1
  <1>3. \A k \in loads' : k.n <= visits'
    <2>1. visits' \in Nat
      BY DEF Types, CountTypes
    <2> QED BY <1>1, <2>1
  <1>4. ShownListIsChosen'
    BY DEF ShownListIsChosen, IsListLoading
  <1> QED BY <1>2, <1>3, <1>4 DEF LoadsInv

LEMMA OpenLoads ==
  ASSUME Types, LoadsInv, NEW p \in {"detail", "edit", "new"}, NEW g \in Guides \cup {NoGuide}, Open(p, g)
  PROVE  LoadsInv'
  <1>0. visits \in Nat /\ visits + 1 \in Nat \ {0}
    BY DEF Types, CountTypes
  <1>1. /\ sheet' \in TheSheet /\ sheet'.of = g /\ (g # NoGuide => sheet'.loading)
        /\ sheet'.typed = FALSE /\ sheet'.there = FALSE
    <2> DEFINE b == g # NoGuide
    <2>1. b \in BOOLEAN /\ (g # NoGuide => b = TRUE)
      OBVIOUS
    <2>2. sheet' = [FreshSheet EXCEPT !.of = g, !.loading = b]
      BY DEF Open
    <2> HIDE DEF b
    <2> QED BY <2>1, <2>2, FreshSheetIs DEF TheSheet
  <1>2. visits' = visits + 1 /\ libPage' = p /\ p # "list"
    BY DEF Open, Visit
  <1>3. \A k \in loads : k.n <= visits' /\ k.n # visits'
    <2>1. \A k \in loads : k.n \in Nat /\ k.n <= visits /\ visits \in Nat
      BY LoadsAre DEF Types, CountTypes, LoadsInv
    <2> QED BY <1>2, <2>1
  <1>4. CASE g = NoGuide
    <2>1. loads' = loads
      BY <1>4 DEF Open
    <2> QED BY <1>1, <1>2, <1>3, <2>1 DEF LoadsInv, ShownListIsChosen, IsListLoading
  <1>5. CASE g # NoGuide
    <2>1. g \in Guides /\ loads' = loads \cup {SheetLoad(visits + 1, g)}
      BY <1>5 DEF Open
    <2>2. SheetLoad(visits + 1, g).n = visits' /\ SheetLoad(visits + 1, g).page = "sheet"
      BY <1>0, <1>2, <2>1, SheetLoadIs
    <2> QED BY <1>1, <1>2, <1>5, <2>1, <2>2, LoadsAnew
  <1> QED BY <1>4, <1>5

LEMMA BackLoads ==
  ASSUME Types, LoadsInv, Visit, libPage' = "list", list' = FreshList(visits + 1), sheet' = FreshSheet,
         loads' \subseteq loads \cup {ListLoad(visits + 1, "templates", Guides)}
  PROVE  LoadsInv'
  <1>0. visits + 1 \in Nat /\ Guides \in Queries /\ "templates" \in Tabs /\ visits' = visits + 1
    BY LibraryAssumption DEF Types, CountTypes, Tabs, Visit
  <1>1. list'.loading /\ list'.tab = "templates" /\ list'.query = Guides /\ sheet'.there = FALSE
    BY <1>0, FreshIs, FreshSheetIs
  <1> DEFINE m == ListLoad(visits + 1, "templates", Guides)
  <1>2. m.n = visits' /\ m.page = "list" /\ m.tab = "templates" /\ m.query = Guides
    BY <1>0, LoadIs
  <1> HIDE DEF m
  <1>3. loads' \subseteq loads \cup {m}
    BY DEF m
  <1> QED BY <1>0, <1>1, <1>2, <1>3, LoadsAnew

\* A load that is half read stands where it stood.
LEMMA LoadsServed ==
  ASSUME Types, LoadsInv, NEW k \in loads, NEW m, m.n = k.n, m.page = k.page, k.page = "list",
         m.tab = k.tab, m.query = k.query, loads' = (loads \ {k}) \cup {m},
         UNCHANGED <<libPage, list, sheet, visits>>
  PROVE  LoadsInv'
  <1>1. \A j \in loads' : j = m \/ (j \in loads /\ j # k)
    OBVIOUS
  <1>2. \A j \in loads' : j.n <= visits'
    BY <1>1 DEF LoadsInv
  <1>3. \A i, j \in loads' : i.n = visits' /\ j.n = visits' => i = j
    BY <1>1 DEF LoadsInv
  <1>4. \A j \in loads' : j.n = visits' /\ j.page = "list" =>
          libPage' = "list" /\ list'.loading /\ j.tab = list'.tab /\ j.query = list'.query
    BY <1>1 DEF LoadsInv
  <1>5. \A j \in loads' : j.n = visits' /\ j.page = "sheet" =>
          libPage' # "list" /\ sheet'.loading /\ sheet'.of \in Guides
    BY <1>1 DEF LoadsInv
  <1>6. ShownListIsChosen'
    BY DEF LoadsInv, ShownListIsChosen, IsListLoading
  <1> QED BY <1>2, <1>3, <1>4, <1>5, <1>6 DEF LoadsInv

LEMMA LoadLoads ==
  ASSUME Types, LoadsInv, NEW k \in loads, LoadStep(k)
  PROVE  LoadsInv'
  <1>0. list \in TheList /\ sheet \in TheSheet /\ guideRow \in [Guides -> GuideRow] /\ RowTypes
    BY DEF Types, LibraryPageTypes, RowTypes
  <1>00. k.page = "list" => k \in ListLoads
    BY LoadsAre DEF Types
  <1>000. k.page = "sheet" => k.guide \in Guides
    BY LoadsAre DEF Types
  <1>1. CASE ServeListed(k)
    <2> DEFINE m == [k EXCEPT !.read = @ \cup {"listed"}, !.listed = Summaries(Found(k.tab, k.query))]
    <2>1. k \in ListLoads /\ k.page = "list"
      BY <1>00, <1>1 DEF ServeListed
    <2>2. Summaries(Found(k.tab, k.query)) \in SummaryMaps
      BY <1>0, <2>1, FoundAre, SummariesAre
    <2>3. m \in ListLoads /\ m.n = k.n /\ m.page = k.page /\ m.tab = k.tab /\ m.query = k.query
      BY <2>1, <2>2, LoadListed
    <2>4. loads' = (loads \ {k}) \cup {m}
      BY <1>1 DEF ServeListed
    <2> HIDE DEF m
    <2> QED BY <1>1, <2>1, <2>3, <2>4, LoadsServed DEF ServeListed
  <1>2. CASE ServeLiked(k)
    <2> DEFINE m == [k EXCEPT !.read = @ \cup {"liked"}, !.liked = LikedNow]
    <2>1. k \in ListLoads /\ k.page = "list"
      BY <1>00, <1>2 DEF ServeLiked
    <2>2. m \in ListLoads /\ m.n = k.n /\ m.page = k.page /\ m.tab = k.tab /\ m.query = k.query
      BY <2>1, FoundAre, LoadLiked
    <2>3. loads' = (loads \ {k}) \cup {m}
      BY <1>2 DEF ServeLiked
    <2> HIDE DEF m
    <2> QED BY <1>2, <2>1, <2>2, <2>3, LoadsServed DEF ServeLiked
  <1>3. CASE GuidesArrive(k)
    <2>1. k \in ListLoads /\ k.page = "list" /\ loads' = loads \ {k}
      BY <1>00, <1>3 DEF GuidesArrive
    <2>2. k.n = visits => list'.filled = <<list'.tab, list'.query>> /\ libPage = "list"
      BY <1>0, <1>3, <2>1, ListFilledFor DEF GuidesArrive, Current, LoadsInv
    <2>3. k.n # visits => list' = list
      BY <1>3 DEF GuidesArrive, Current
    <2>4. ShownListIsChosen'
      BY <1>3, <2>2, <2>3 DEF GuidesArrive, LoadsInv, ShownListIsChosen, IsListLoading
    <2> QED BY <1>3, <2>1, <2>3, <2>4, LoadsEnd DEF GuidesArrive, LoadsInv
  <1>4. CASE GuidesFail(k)
    <2>1. loads' = loads \ {k} /\ UNCHANGED <<libPage, sheet, visits>>
      BY <1>4 DEF GuidesFail
    <2>2. k.n = visits => list'.filled = Failed
      BY <1>0, <1>4, ListNotFilled DEF GuidesFail, Current
    <2>3. k.n # visits => list' = list
      BY <1>4 DEF GuidesFail, Current
    <2>4. ShownListIsChosen'
      BY <2>1, <2>2, <2>3 DEF LoadsInv, ShownListIsChosen, IsListLoading
    <2> QED BY <2>1, <2>3, <2>4, LoadsEnd DEF LoadsInv
  <1>5. CASE GuideArrives(k)
    <2>1. /\ loads' = loads \ {k} /\ UNCHANGED <<libPage, list, visits>> /\ k.page = "sheet"
          /\ k.guide \in Guides
      BY <1>000, <1>5 DEF GuideArrives
    <2>2. guideRow[k.guide].text \in Contents /\ (IF like[k.guide] = NoLike THEN 0 ELSE 1) \in Int
      BY <1>0, <2>1 DEF GuideRow
    <2>3. k.n = visits => sheet' \in TheSheet /\ sheet'.of = sheet.of /\ sheet'.typed = FALSE
      BY <1>0, <1>5, <2>2 DEF GuideArrives, Current, TheSheet
    <2>4. k.n # visits => sheet' = sheet
      BY <1>5 DEF GuideArrives, Current
    <2>5. ShownListIsChosen'
      BY <2>1 DEF LoadsInv, ShownListIsChosen, IsListLoading
    <2>6. sheet'.there => sheet'.of \in Guides
      BY <2>1, <2>3, <2>4 DEF LoadsInv
    <2> QED BY <2>1, <2>3, <2>4, <2>5, <2>6, LoadsEnd DEF LoadsInv
  <1>6. CASE GuideMissing(k)
    <2>1. loads' = loads \ {k} /\ UNCHANGED <<libPage, list, visits>>
      BY <1>6 DEF GuideMissing
    <2>2. k.n = visits => sheet'.of = sheet.of /\ sheet'.there = sheet.there /\ sheet'.loading = FALSE
      BY <1>0, <1>6, SheetNotFilled DEF GuideMissing, Current
    <2>3. k.n # visits => sheet' = sheet
      BY <1>6 DEF GuideMissing, Current
    <2>4. ShownListIsChosen'
      BY <2>1 DEF LoadsInv, ShownListIsChosen, IsListLoading
    <2> QED BY <2>1, <2>2, <2>3, <2>4, LoadsEnd DEF LoadsInv
  <1>7. CASE EditorLeaves(k)
    <2>1. loads' \subseteq loads \cup {ListLoad(visits + 1, "templates", Guides)}
      BY <1>7 DEF EditorLeaves
    <2> QED BY <1>7, <2>1, BackLoads DEF EditorLeaves
  <1> QED BY <1>1, <1>2, <1>3, <1>4, <1>5, <1>6, <1>7 DEF LoadStep

LEMMA LoadsStep == Types /\ LoadsInv /\ [LibraryNext]_libraryVars => LoadsInv'
  <1> SUFFICES ASSUME Types, LoadsInv, [LibraryNext]_libraryVars PROVE LoadsInv'
    OBVIOUS
  <1>0. list \in TheList /\ sheet \in TheSheet /\ likeCalls \subseteq LikeCall /\ visits + 1 \in Nat
        /\ loads \subseteq ListLoads \cup SheetLoads
    BY DEF Types, LibraryPageTypes, LibraryCallTypes, CountTypes
  <1>01. SameList(list, list) /\ SameSheet(sheet, sheet)
    BY DEF SameList, SameSheet
  <1>1. ASSUME NEW t \in Tabs, NEW q \in Queries, ChooseList(t, q) PROVE LoadsInv'
    <2> DEFINE m == ListLoad(visits + 1, t, q)
    <2>1. list' \in TheList /\ list'.tab = t /\ list'.query = q /\ list'.loading
      BY <1>0, <1>1 DEF ChooseList, TheList
    <2>2. m.n = visits + 1 /\ m.page = "list" /\ m.tab = t /\ m.query = q
      BY <1>0, LoadIs
    <2>3. loads' = loads \cup {m}
      BY <1>1 DEF ChooseList
    <2> HIDE DEF m
    <2> QED BY <1>1, <2>1, <2>2, <2>3, LoadsAnew DEF ChooseList, Visit, LoadsInv
  <1>2. ASSUME NEW g \in Guides, ToggleLike(g) PROVE LoadsInv'
    <2> DEFINE b == g \notin list.likedGuideIds
    <2>1. b \in BOOLEAN
      OBVIOUS
    <2>2. list' = WithLike(list, g, b)
      BY <1>2 DEF ToggleLike
    <2> HIDE DEF b
    <2>3. SameList(list', list)
      BY <1>0, <2>1, <2>2, ListStays
    <2> QED BY <1>01, <1>2, <2>3, LoadsKept DEF ToggleLike
  <1>3. ASSUME NEW g \in Guides, OpenDetail(g) PROVE LoadsInv'
    BY <1>3, OpenLoads DEF OpenDetail
  <1>4. ASSUME NEW g \in Guides, CreateFromLiked(g) PROVE LoadsInv'
    BY <1>4, OpenLoads DEF CreateFromLiked
  <1>5. ASSUME NEW g \in Guides, OwnerHides(g) PROVE LoadsInv'
    BY <1>01, <1>5, LoadsKept DEF OwnerHides
  <1>6. CASE OpenEditor
    <2>1. sheet.of \in Guides
      BY <1>6 DEF OpenEditor, Mine
    <2> QED BY <1>6, <2>1, OpenLoads DEF OpenEditor
  <1>7. CASE CreateFromNothing
    BY <1>7, OpenLoads DEF CreateFromNothing
  <1>8. CASE BackToList
    BY <1>8, BackLoads DEF BackToList
  <1>9. CASE HandleLikeToggle
    <2> DEFINE b == ~sheet.liked
               c == sheet.count + (IF sheet.liked THEN -1 ELSE 1)
    <2>1. b \in BOOLEAN /\ c \in Int
      BY <1>0, SheetsAre
    <2>2. sheet' = [sheet EXCEPT !.liked = b, !.count = c]
      BY <1>9, Zenon DEF HandleLikeToggle
    <2> HIDE DEF b, c
    <2>3. sheet' \in TheSheet /\ SameSheet(sheet', sheet) /\ sheet'.typed = sheet.typed
      BY <1>0, <2>1, <2>2, SheetsAre DEF SameSheet, TheSheet
    <2> QED BY <1>01, <1>9, <2>3, LoadsKept DEF HandleLikeToggle
  <1>10. CASE TypeText
    <2>1. SameSheet(sheet', sheet)
      BY <1>0, <1>10, SheetTyped DEF TypeText, SameSheet
    <2> QED BY <1>01, <1>10, <2>1, LoadsKept DEF TypeText
  <1>11. CASE HandleSave
    <2>1. SameSheet(sheet', sheet) /\ sheet'.typed = sheet.typed
      BY <1>0, <1>11, SheetSaving DEF HandleSave, SameSheet
    <2> QED BY <1>01, <1>11, <2>1, LoadsKept DEF HandleSave
  <1>12. ASSUME NEW k \in loads, LoadStep(k) PROVE LoadsInv'
    BY <1>12, LoadLoads
  <1>13. ASSUME NEW k \in likeCalls, LikeStep(k) PROVE LoadsInv'
    <2>1. CASE LikeFails(k)
      <3> DEFINE b == ~k.like
                 c == sheet.count + (IF k.like THEN -1 ELSE 1)
      <3>1. b \in BOOLEAN /\ c \in Int /\ k.guide \in Guides
        BY <1>0, SheetsAre, CallsAre
      <3>2. sheet' = sheet \/ sheet' = [sheet EXCEPT !.liked = b, !.count = c]
        BY <2>1, Zenon DEF LikeFails
      <3>3. list' = list \/ list' = WithLike(list, k.guide, b)
        BY <2>1 DEF LikeFails
      <3> HIDE DEF b, c
      <3>4. sheet' \in TheSheet /\ SameSheet(sheet', sheet) /\ sheet'.typed = sheet.typed
        BY <1>0, <3>1, <3>2, SheetsAre DEF SameSheet, TheSheet
      <3>5. SameList(list', list)
        BY <1>0, <1>01, <3>1, <3>3, ListStays
      <3> QED BY <2>1, <3>4, <3>5, LoadsKept DEF LikeFails
    <2>2. CASE ~LikeFails(k)
      <3>1. UNCHANGED <<loads, libPage, visits, list, sheet>>
        BY <1>13, <2>2 DEF LikeStep, FindLike, CreateLike, DeleteLikeByID, LikeDone, LikesOnly
      <3> QED BY <1>01, <3>1, LoadsKept
    <2> QED BY <2>1, <2>2
  <1>14. ASSUME NEW w \in writes, ServeSave(w) PROVE LoadsInv'
    BY <1>01, <1>14, LoadsKept DEF ServeSave
  <1>15. ASSUME NEW w \in writes, SaveEnds(w) PROVE LoadsInv'
    <2>1. SameSheet(sheet', sheet) /\ sheet'.typed = sheet.typed
      BY <1>0, <1>15, SheetSaving DEF SaveEnds, SameSheet
    <2> QED BY <1>01, <1>15, <2>1, LoadsKept DEF SaveEnds
  <1>16. CASE UNCHANGED libraryVars
    BY <1>01, <1>16, LoadsKept DEF libraryVars
  <1> QED BY <1>1, <1>2, <1>3, <1>4, <1>5, <1>6, <1>7, <1>8, <1>9, <1>10, <1>11, <1>12, <1>13,
             <1>14, <1>15, <1>16 DEF LibraryNext, SaveStep

-----------------------------------------------------------------------------
\* Hearts, counts and the row.

LEMMA FreshHearts ==
  ASSUME NEW n \in Nat, list' = FreshList(n)
  PROVE  HeartsMatch' /\ list'.loading
  <1>1. list'.likedGuideIds = {} /\ \A g \in Guides : list'.likedGuides[g] = 0
    BY DEF FreshList
  <1>2. list'.loading
    BY DEF FreshList
  <1> QED BY <1>1, <1>2 DEF HeartsMatch

LEMMA LikesStart == LibraryInit => LikesInv
  <1> SUFFICES ASSUME LibraryInit PROVE LikesInv
    OBVIOUS
  <1>1. /\ list = FreshList(1) /\ loads = {ListLoad(1, "templates", Guides)} /\ likeCalls = {}
        /\ libPage = "list"
    BY DEF LibraryInit, LibraryAt
  <1>2. list.likedGuideIds = {} /\ list.loading /\ \A g \in Guides : list.likedGuides[g] = 0
    BY <1>1 DEF FreshList
  <1>3. HeartsMatch
    BY <1>2 DEF HeartsMatch
  <1>4. \A k \in loads : k.read = {}
    BY <1>1 DEF ListLoad, Asked
  <1>5. InFlight = {}
    BY <1>1 DEF InFlight
  <1> QED BY <1>2, <1>3, <1>4, <1>5 DEF LikesInv, LoadsRight, CallsRight, LoadRight

\* Nothing that is said of changes, but loads that end.
LEMMA LikesAside ==
  ASSUME LikesInv, loads' \subseteq loads, UNCHANGED <<like, libPage, list, likeCalls, visits, unsure>>
  PROVE  LikesInv'
  <1>1. InFlight' = InFlight
    BY DEF InFlight
  <1>2. HeartsMatch'
    BY DEF LikesInv, HeartsMatch
  <1>4. LoadsRight'
    BY <1>1 DEF LikesInv, LoadsRight, LoadRight, Stored
  <1>5. CallsRight'
    BY <1>1 DEF LikesInv, CallsRight, CallRight, GuideRight, Stored
  <1> QED BY <1>2, <1>4, <1>5 DEF LikesInv

\* Nothing is said of other pages.
LEMMA LikesElsewhere ==
  ASSUME LikesInv, libPage' # "list", HeartsMatch'
  PROVE  LikesInv'
  BY DEF LikesInv, LoadsRight, CallsRight

\* The list waits for a load of which nothing is read; all calls are unsure.
LEMMA LikesAnew ==
  ASSUME Types, LoadsInv, LikesInv, NEW m, loads' \subseteq loads \cup {m}, visits' = visits + 1,
         m.read = {}, list'.loading, list'.loading \in BOOLEAN, HeartsMatch', unsure' = InFlight,
         likeCalls' = likeCalls
  PROVE  LikesInv'
  <1>1. \A k \in loads : k.n # visits'
    <2>1. \A k \in loads : k.n \in Nat /\ k.n <= visits /\ visits \in Nat
      BY LoadsAre DEF Types, CountTypes, LoadsInv
    <2> QED BY <2>1
  <1>2. \A k \in loads' : k.n = visits' => k.read = {}
    BY <1>1
  <1>3. InFlight' = unsure'
    BY DEF InFlight
  <1>4. LoadsRight'
    BY <1>2, <1>3 DEF LoadsRight, LoadRight
  <1>5. CallsRight'
    BY DEF CallsRight
  <1> QED BY <1>4, <1>5 DEF LikesInv

LEMMA BackLikes ==
  ASSUME Types, LoadsInv, LikesInv, Visit, list' = FreshList(visits + 1),
         loads' \subseteq loads \cup {ListLoad(visits + 1, "templates", Guides)}, unsure' = InFlight,
         likeCalls' = likeCalls
  PROVE  LikesInv'
  <1>1. visits + 1 \in Nat /\ visits' = visits + 1
    BY DEF Types, CountTypes, Visit
  <1>2. HeartsMatch' /\ list'.loading = TRUE
    BY <1>1, FreshHearts DEF FreshList
  <1> DEFINE m == ListLoad(visits + 1, "templates", Guides)
  <1>3. m.read = {}
    BY DEF ListLoad, Asked
  <1> HIDE DEF m
  <1>4. loads' \subseteq loads \cup {m}
    BY DEF m
  <1> QED BY <1>1, <1>2, <1>3, <1>4, LikesAnew

LEMMA OpenLikes ==
  ASSUME Types, LikesInv, NEW p \in {"detail", "edit", "new"}, NEW g \in Guides \cup {NoGuide}, Open(p, g)
  PROVE  LikesInv'
  <1>1. visits + 1 \in Nat /\ list' = FreshList(visits + 1) /\ libPage' # "list"
    BY DEF Types, CountTypes, Open
  <1> QED BY <1>1, FreshHearts, LikesElsewhere

\* The list page, half a load later.
LEMMA LikesServed ==
  ASSUME LikesInv, NEW k \in loads, NEW m, loads' = (loads \ {k}) \cup {m}, m.n = k.n, k.page = "list",
         \A g \in Guides : LoadRight(k, g) => LoadRight(m, g),
         UNCHANGED <<like, libPage, list, likeCalls, visits, unsure>>
  PROVE  LikesInv'
  <1>1. InFlight' = InFlight
    BY DEF InFlight
  <1>2. HeartsMatch' /\ CallsRight'
    BY <1>1 DEF LikesInv, HeartsMatch, CallsRight, CallRight, GuideRight, Stored
  <1>3. ASSUME libPage' = "list", list'.loading, NEW j \in loads', j.n = visits', j.page = "list",
               NEW g \in Guides, g \notin unsure'
        PROVE  LoadRight(j, g)'
    <2>1. LoadRight(j, g)
      <3>1. CASE j = m
        <4>1. LoadRight(k, g)
          BY <1>3, <3>1 DEF LikesInv, LoadsRight
        <4> QED BY <3>1, <4>1
      <3>2. CASE j # m
        BY <1>3, <3>2 DEF LikesInv, LoadsRight
      <3> QED BY <3>1, <3>2
    <2> QED BY <2>1 DEF LoadRight, Stored
  <1>4. LoadsRight'
    BY <1>1, <1>3 DEF LikesInv, LoadsRight
  <1> QED BY <1>2, <1>4 DEF LikesInv

LEMMA FilledRight ==
  ASSUME NEW k \in ListLoads, list \in TheList, list' = Filled(k)
  PROVE  /\ list'.loading = FALSE /\ list'.likedGuideIds = k.liked /\ list'.guides = k.listed
         /\ HeartsMatch'
  <1> DEFINE hearts == [g \in Guides |-> IF g \in k.liked THEN 1 ELSE 0]
             chosen == <<k.tab, k.query>>
  <1>1. \A g \in Guides : hearts[g] > 0 <=> g \in k.liked
    OBVIOUS
  <1>2. list' = [list EXCEPT !.guides = k.listed, !.likedGuides = hearts, !.likedGuideIds = k.liked,
                             !.filled = chosen, !.loading = FALSE]
    BY Zenon DEF Filled
  <1> HIDE DEF hearts, chosen
  <1>3. /\ list'.loading = FALSE /\ list'.likedGuideIds = k.liked /\ list'.guides = k.listed
        /\ list'.likedGuides = hearts
    BY <1>2 DEF TheList
  <1> QED BY <1>1, <1>3 DEF HeartsMatch

LEMMA Clicked ==
  ASSUME list \in TheList, NEW g \in Guides, NEW b \in BOOLEAN, list' = WithLike(list, g, b)
  PROVE  /\ list'.filled = list.filled /\ list'.loading = list.loading /\ list'.mounted = list.mounted
         /\ list'.likedGuideIds = IF b THEN list.likedGuideIds \cup {g} ELSE list.likedGuideIds \ {g}
         /\ DOMAIN list'.guides = DOMAIN list.guides
         /\ \A h \in DOMAIN list.guides : h # g => list'.guides[h] = list.guides[h]
         /\ g \in DOMAIN list.guides => list'.guides[g].count = list.guides[g].count + (IF b THEN 1 ELSE -1)
         /\ HeartsMatch => HeartsMatch'
  <1>1. ClickedOn(list', list, g, b)
    BY ListLiked
  <1>2. list.likedGuides \in [Guides -> Nat]
    BY ListsAre
  <1>3. HeartsMatch => HeartsMatch'
    BY <1>1, <1>2 DEF ClickedOn, HeartsMatch
  <1> QED BY <1>1, <1>3 DEF ClickedOn

LEMMA LoadLikes ==
  ASSUME Types, LoadsInv, LikesInv, NEW k \in loads, LoadStep(k)
  PROVE  LikesInv'
  <1>0. list \in TheList /\ RowTypes
    BY DEF Types, LibraryPageTypes, RowTypes
  <1>00. k.page = "list" => k \in ListLoads
    BY LoadsAre DEF Types
  <1>1. CASE ServeListed(k)
    <2> DEFINE f == Summaries(Found(k.tab, k.query))
               m == [k EXCEPT !.read = @ \cup {"listed"}, !.listed = f]
    <2>1. k \in ListLoads /\ k.page = "list"
      BY <1>00, <1>1 DEF ServeListed
    <2>2. f \in SummaryMaps /\ \A g \in DOMAIN f : f[g].count = Stored(g)
      BY <1>0, <2>1, FoundAre, SummariesAre DEF Stored
    <2>3. loads' = (loads \ {k}) \cup {m}
      BY <1>1 DEF ServeListed
    <2> HIDE DEF f
    <2>4. m \in ListLoads /\ m.n = k.n /\ m.read = k.read \cup {"listed"} /\ m.listed = f /\ m.liked = k.liked
      BY <2>1, <2>2, LoadListed
    <2> HIDE DEF m
    <2>5. \A g \in Guides : LoadRight(k, g) => LoadRight(m, g)
      BY <2>2, <2>4 DEF LoadRight
    <2> QED BY <1>1, <2>1, <2>3, <2>4, <2>5, LikesServed DEF ServeListed
  <1>2. CASE ServeLiked(k)
    <2> DEFINE m == [k EXCEPT !.read = @ \cup {"liked"}, !.liked = LikedNow]
    <2>1. k \in ListLoads /\ k.page = "list"
      BY <1>00, <1>2 DEF ServeLiked
    <2>2. LikedNow \in SUBSET Guides /\ \A g \in Guides : g \in LikedNow <=> like[g] # NoLike
      BY <2>1, FoundAre DEF LikedNow
    <2>3. loads' = (loads \ {k}) \cup {m}
      BY <1>2 DEF ServeLiked
    <2>4. m \in ListLoads /\ m.n = k.n /\ m.read = k.read \cup {"liked"} /\ m.listed = k.listed
          /\ m.liked = LikedNow
      BY <2>1, <2>2, LoadLiked
    <2> HIDE DEF m
    <2>5. \A g \in Guides : LoadRight(k, g) => LoadRight(m, g)
      BY <2>2, <2>4 DEF LoadRight
    <2> QED BY <1>2, <2>1, <2>3, <2>4, <2>5, LikesServed DEF ServeLiked
  <1>3. CASE GuidesArrive(k)
    <2>1. k \in ListLoads /\ k.page = "list" /\ loads' = loads \ {k}
          /\ UNCHANGED <<like, libPage, likeCalls, visits, unsure>>
      BY <1>00, <1>3 DEF GuidesArrive
    <2>2. CASE k.n # visits
      BY <1>3, <2>1, <2>2, LikesAside DEF GuidesArrive, Current
    <2>3. CASE k.n = visits
      <3>1. libPage = "list" /\ list.loading
        BY <2>1, <2>3 DEF LoadsInv
      <3>2. InFlight \subseteq unsure /\ \A g \in Guides : g \notin unsure => LoadRight(k, g)
        BY <2>1, <2>3, <3>1 DEF LikesInv, LoadsRight
      <3>3. k.read = {"listed", "liked"} /\ list' = Filled(k)
        BY <1>3, <2>3 DEF GuidesArrive, Current
      <3>4. /\ list'.loading = FALSE /\ list'.likedGuideIds = k.liked /\ list'.guides = k.listed
            /\ HeartsMatch'
        BY <1>0, <2>1, <3>3, FilledRight
      <3>5. LoadsRight'
        BY <3>4 DEF LoadsRight
      <3>6. CallsRight'
        <4>1. \A j \in likeCalls' : j.guide \in unsure'
          BY <2>1, <3>2 DEF InFlight
        <4>2. \A g \in Guides : g \notin unsure' => GuideRight(g)'
          BY <2>1, <3>2, <3>3, <3>4 DEF LoadRight, GuideRight, Stored
        <4> QED BY <4>1, <4>2 DEF CallsRight
      <3> QED BY <3>4, <3>5, <3>6 DEF LikesInv
    <2> QED BY <2>2, <2>3
  <1>4. CASE GuidesFail(k)
    <2>1. k.page = "list" /\ loads' = loads \ {k} /\ UNCHANGED <<like, libPage, likeCalls, visits, unsure>>
      BY <1>4 DEF GuidesFail
    <2>2. CASE k.n # visits
      BY <1>4, <2>1, <2>2, LikesAside DEF GuidesFail, Current
    <2>3. CASE k.n = visits
      <3>1. list' = [list EXCEPT !.filled = Failed, !.loading = FALSE]
        BY <1>4, <2>3 DEF GuidesFail, Current
      <3>2. /\ list'.filled = Failed /\ list'.loading = FALSE
            /\ list'.likedGuides = list.likedGuides /\ list'.likedGuideIds = list.likedGuideIds
        BY <1>0, <3>1 DEF TheList
      <3> QED BY <3>2 DEF LikesInv, HeartsMatch, LoadsRight, CallsRight
    <2> QED BY <2>2, <2>3
  <1>5. CASE GuideArrives(k)
    BY <1>5, LikesAside DEF GuideArrives
  <1>6. CASE GuideMissing(k)
    BY <1>6, LikesAside DEF GuideMissing
  <1>7. CASE EditorLeaves(k)
    <2>1. loads' \subseteq loads \cup {ListLoad(visits + 1, "templates", Guides)}
      BY <1>7 DEF EditorLeaves
    <2> QED BY <1>7, <2>1, BackLikes DEF EditorLeaves
  <1> QED BY <1>1, <1>2, <1>3, <1>4, <1>5, <1>6, <1>7 DEF LoadStep

\* The calls for one guide leave what is said of the others.
SameFor(h) ==
  /\ like'[h] = like[h] /\ list'.mounted = list.mounted
  /\ h \in list'.likedGuideIds <=> h \in list.likedGuideIds
  /\ DOMAIN list'.guides = DOMAIN list.guides
  /\ h \in DOMAIN list.guides => list'.guides[h] = list.guides[h]

LEMMA OneGuide ==
  ASSUME LikesInv, NEW g \in Guides, UNCHANGED <<libPage, loads, visits>>,
         list'.loading = list.loading, list'.filled = list.filled, HeartsMatch',
         \A h \in Guides : h # g => SameFor(h),
         unsure \subseteq unsure',
         \A k \in likeCalls' : k.guide \in Guides /\ (k.guide # g => k \in likeCalls),
         \A k \in likeCalls : k.guide # g => k \in likeCalls',
         libPage = "list" /\ list.loading =>
           InFlight' \subseteq unsure' /\ (g \notin unsure' => like'[g] = like[g]),
         libPage = "list" /\ list.loading = FALSE /\ list.filled # Failed /\ g \notin unsure' =>
           /\ \A k, j \in likeCalls' : k.guide = g /\ j.guide = g => k = j
           /\ \A k \in likeCalls' : k.guide = g => CallRight(k)'
           /\ g \notin InFlight' => GuideRight(g)'
  PROVE  LikesInv'
  <1>1. LoadsRight'
    <2>1. ASSUME libPage = "list", list.loading, NEW k \in loads, k.n = visits, k.page = "list",
                 NEW h \in Guides, h \notin unsure'
          PROVE  LoadRight(k, h)'
      <3>1. LoadRight(k, h)
        BY <2>1 DEF LikesInv, LoadsRight
      <3>2. like'[h] = like[h]
        BY <2>1 DEF SameFor
      <3> QED BY <3>1, <3>2 DEF LoadRight, Stored
    <2> QED BY <2>1 DEF LoadsRight
  <1>2. CallsRight'
    <2> SUFFICES ASSUME libPage = "list", list.loading = FALSE, list.filled # Failed
                 PROVE  /\ \A k, j \in likeCalls' : k.guide = j.guide /\ k.guide \notin unsure' => k = j
                        /\ \A k \in likeCalls' : k.guide \notin unsure' => CallRight(k)'
                        /\ \A h \in Guides : h \notin unsure' /\ h \notin InFlight' => GuideRight(h)'
      BY DEF CallsRight
    <2>1. ASSUME NEW k \in likeCalls', NEW j \in likeCalls', k.guide = j.guide, k.guide \notin unsure'
          PROVE  k = j
      <3>1. CASE k.guide = g
        BY <2>1, <3>1
      <3>2. CASE k.guide # g
        BY <2>1, <3>2 DEF LikesInv, CallsRight
      <3> QED BY <3>1, <3>2
    <2>2. ASSUME NEW k \in likeCalls', k.guide \notin unsure' PROVE CallRight(k)'
      <3>1. CASE k.guide = g
        BY <2>2, <3>1
      <3>2. CASE k.guide # g
        <4>1. CallRight(k) /\ SameFor(k.guide)
          BY <2>2, <3>2 DEF LikesInv, CallsRight
        <4> QED BY <4>1 DEF CallRight, SameFor
      <3> QED BY <3>1, <3>2
    <2>3. ASSUME NEW h \in Guides, h \notin unsure', h \notin InFlight' PROVE GuideRight(h)'
      <3>1. CASE h = g
        BY <2>3, <3>1
      <3>2. CASE h # g
        <4>1. h \notin InFlight
          BY <2>3, <3>2 DEF InFlight
        <4>2. GuideRight(h) /\ SameFor(h)
          BY <2>3, <3>2, <4>1 DEF LikesInv, CallsRight
        <4> QED BY <4>2 DEF GuideRight, SameFor, Stored
      <3> QED BY <3>1, <3>2
    <2> QED BY <2>1, <2>2, <2>3
  <1> QED BY <1>1, <1>2 DEF LikesInv

LEMMA ClickLikes ==
  ASSUME Types, LikesInv, NEW g \in Guides, ToggleLike(g)
  PROVE  LikesInv'
  <1> DEFINE b == g \notin list.likedGuideIds
             call == [n |-> likings + 1, guide |-> g, like |-> b, from |-> "list",
                      visit |-> list.mounted, at |-> "sent", row |-> NoLike]
  <1>0. /\ list \in TheList /\ likeCalls \subseteq LikeCall /\ likings + 1 \in Nat \ {0}
        /\ list.mounted \in Nat /\ b \in BOOLEAN /\ "list" \in {"list", "detail"}
        /\ list.guides \in SummaryMaps /\ list.loading \in BOOLEAN
    BY ListsAre DEF Types, LibraryPageTypes, LibraryCallTypes, CountTypes
  <1>1. /\ libPage = "list" /\ list.loading = FALSE /\ g \in DOMAIN list.guides
        /\ list' = WithLike(list, g, b) /\ likeCalls' = likeCalls \cup {call}
        /\ unsure' = IF g \in InFlight THEN unsure \cup {g} ELSE unsure
        /\ UNCHANGED <<like, libPage, loads, visits>>
    BY <1>0 DEF ToggleLike, IsListLoading, ShownGuides
  <1>2. b <=> g \notin list.likedGuideIds
    OBVIOUS
  <1> HIDE DEF b
  <1>9. /\ call \in LikeCall /\ call.guide = g /\ call.like = b /\ call.from = "list"
        /\ call.visit = list.mounted /\ call.at = "sent"
    BY <1>0, CallSent
  <1> HIDE DEF call
  <1>10. PICK m : m = call
    OBVIOUS
  <1>11. likeCalls' = likeCalls \cup {m}
    BY <1>1, <1>10
  <1>3. /\ m \in LikeCall /\ m.guide = g /\ m.like = b /\ m.from = "list" /\ m.visit = list.mounted
        /\ m.at = "sent"
    BY <1>9, <1>10
  <1>4. /\ list'.filled = list.filled /\ list'.loading = list.loading /\ list'.mounted = list.mounted
        /\ list'.likedGuideIds = IF b THEN list.likedGuideIds \cup {g} ELSE list.likedGuideIds \ {g}
        /\ DOMAIN list'.guides = DOMAIN list.guides
        /\ \A h \in DOMAIN list.guides : h # g => list'.guides[h] = list.guides[h]
        /\ list'.guides[g].count = list.guides[g].count + (IF b THEN 1 ELSE -1)
        /\ HeartsMatch'
    BY <1>0, <1>1, Clicked DEF LikesInv
  <1>5. \A h \in Guides : h # g => SameFor(h)
    BY <1>1, <1>4 DEF SameFor
  <1>6. ASSUME list.filled # Failed, g \notin unsure'
        PROVE  /\ \A k, j \in likeCalls' : k.guide = g /\ j.guide = g => k = j
               /\ \A k \in likeCalls' : k.guide = g => CallRight(k)'
               /\ g \in InFlight'
    <2>1. g \notin InFlight /\ g \notin unsure
      BY <1>1, <1>6
    <2>2. \A k \in likeCalls' : k.guide = g => k = m
      BY <1>11, <2>1 DEF InFlight
    <2>3. GuideRight(g)
      BY <1>1, <1>6, <2>1 DEF LikesInv, CallsRight
    <2>4. CallRight(m)'
      <3>1. g \in list'.likedGuideIds <=> b
        BY <1>4
      <3>2. list'.guides[g].count = IF b THEN 1 ELSE 0
        BY <1>1, <1>2, <1>4, <2>3 DEF GuideRight, Stored
      <3>3. like'[g] # NoLike <=> ~b
        BY <1>1, <1>2, <2>3 DEF GuideRight
      <3> QED BY <1>3, <1>4, <3>1, <3>2, <3>3 DEF CallRight
    <2>5. g \in InFlight'
      BY <1>3, <1>11 DEF InFlight
    <2> QED BY <2>2, <2>4, <2>5
  <1>7. \A k \in likeCalls' : k.guide \in Guides /\ (k.guide # g => k \in likeCalls)
    BY <1>0, <1>3, <1>11, CallsAre
  <1>8. unsure \subseteq unsure'
    BY <1>1
  <1> QED BY <1>1, <1>11, <1>4, <1>5, <1>6, <1>7, <1>8, OneGuide

\* A call on its way: one that is alone for its guide finds what it needs, and
\* changes the row it found.
LEMMA CallMoves ==
  ASSUME Types, LikesInv, NEW k \in likeCalls, NEW m, m \in LikeCall, m.guide = k.guide, m.like = k.like,
         m.from = k.from, m.visit = k.visit, likeCalls' = (likeCalls \ {k}) \cup {m},
         UNCHANGED <<libPage, loads, visits, list, unsure>>,
         \A h \in Guides : h # k.guide => like'[h] = like[h],
         CallRight(k) => CallRight(m)'
  PROVE  LikesInv'
  <1> DEFINE g == k.guide
  <1>1. g \in Guides /\ likeCalls \subseteq LikeCall /\ g \in InFlight
    BY CallsAre DEF Types, LibraryCallTypes, InFlight
  <1>2. InFlight' \subseteq InFlight /\ g \in InFlight'
    BY <1>1 DEF InFlight
  <1>3. HeartsMatch'
    BY DEF LikesInv, HeartsMatch
  <1>4. \A h \in Guides : h # g => SameFor(h)
    BY DEF SameFor
  <1>5. \A j \in likeCalls' : j.guide \in Guides /\ (j.guide # g => j \in likeCalls)
    BY <1>1, CallsAre
  <1>6. libPage = "list" /\ list.loading =>
          InFlight' \subseteq unsure' /\ (g \notin unsure' => like'[g] = like[g])
    BY <1>1, <1>2 DEF LikesInv, LoadsRight
  <1>7. ASSUME libPage = "list", list.loading = FALSE, list.filled # Failed, g \notin unsure'
        PROVE  /\ \A i, j \in likeCalls' : i.guide = g /\ j.guide = g => i = j
               /\ \A j \in likeCalls' : j.guide = g => CallRight(j)'
    <2>1. CallRight(k) /\ \A j \in likeCalls : j.guide = g => j = k
      BY <1>7 DEF LikesInv, CallsRight
    <2>2. \A j \in likeCalls' : j.guide = g => j = m
      BY <2>1
    <2> QED BY <2>1, <2>2
  <1>8. \A j \in likeCalls : j.guide # g => j \in likeCalls'
    OBVIOUS
  <1>9. list'.loading = list.loading /\ list'.filled = list.filled
    OBVIOUS
  <1>10. PICK c : c = g
    OBVIOUS
  <1> HIDE DEF g
  <1> QED BY <1>1, <1>2, <1>3, <1>4, <1>5, <1>6, <1>7, <1>8, <1>9, <1>10, OneGuide

LEMMA CallsEnd ==
  ASSUME Types, LikesInv, NEW k \in likeCalls, likeCalls' = likeCalls \ {k},
         UNCHANGED <<libPage, loads, visits, like>>, unsure \subseteq unsure',
         list' = list \/ list' = WithLike(list, k.guide, ~k.like),
         CallRight(k) /\ k.guide \notin unsure' /\ libPage = "list" => GuideRight(k.guide)'
  PROVE  LikesInv'
  <1>1. k.guide \in Guides /\ k.like \in BOOLEAN /\ likeCalls \subseteq LikeCall /\ k.guide \in InFlight
        /\ list \in TheList
    BY CallsAre DEF Types, LibraryCallTypes, LibraryPageTypes, InFlight
  <1>2. InFlight' \subseteq InFlight
    BY <1>1 DEF InFlight
  <1>3. /\ HeartsMatch' /\ list'.loading = list.loading /\ list'.filled = list.filled
        /\ \A h \in Guides : h # k.guide => SameFor(h)
    <2>1. CASE list' = list
      BY <2>1 DEF LikesInv, HeartsMatch, SameFor
    <2>2. CASE list' = WithLike(list, k.guide, ~k.like)
      <3> DEFINE b == ~k.like
      <3>1. b \in BOOLEAN /\ list' = WithLike(list, k.guide, b)
        BY <1>1, <2>2
      <3> HIDE DEF b
      <3> QED BY <1>1, <3>1, Clicked DEF LikesInv, SameFor
    <2> QED BY <2>1, <2>2
  <1>4. \A j \in likeCalls' : j.guide \in Guides /\ (j.guide # k.guide => j \in likeCalls)
    BY <1>1, CallsAre
  <1>5. libPage = "list" /\ list.loading =>
          InFlight' \subseteq unsure' /\ (k.guide \notin unsure' => like'[k.guide] = like[k.guide])
    BY <1>1, <1>2 DEF LikesInv, LoadsRight
  <1>6. ASSUME libPage = "list", list.loading = FALSE, list.filled # Failed, k.guide \notin unsure'
        PROVE  /\ \A j \in likeCalls' : j.guide # k.guide
               /\ GuideRight(k.guide)'
    <2>1. k.guide \notin unsure
      BY <1>6
    <2>2. CallRight(k) /\ \A j \in likeCalls : j.guide = k.guide => j = k
      BY <1>6, <2>1 DEF LikesInv, CallsRight
    <2> QED BY <1>6, <2>2
  <1>7. \A j \in likeCalls : j.guide # k.guide => j \in likeCalls'
    OBVIOUS
  <1> QED BY <1>1, <1>2, <1>3, <1>4, <1>5, <1>6, <1>7, OneGuide

LEMMA LikeLikes ==
  ASSUME Types, LikesInv, NEW k \in likeCalls, LikeStep(k)
  PROVE  LikesInv'
  <1>1. /\ k \in LikeCall /\ k.guide \in Guides /\ k.like \in BOOLEAN /\ k.n \in Nat \ {0}
        /\ k.at \in {"sent", "found", "done", "error"}
        /\ like \in [Guides -> Nat] /\ like[k.guide] \in Nat /\ list \in TheList
    BY CallsAre DEF Types, RowTypes, LibraryCallTypes, LibraryPageTypes
  <1>2. CASE FindLike(k)
    <2> DEFINE a == IF k.like = (like[k.guide] # NoLike) THEN "done" ELSE "found"
               moved == [k EXCEPT !.at = a, !.row = like[k.guide]]
    <2>1. a \in {"done", "found"}
      OBVIOUS
    <2>2. likeCalls' = (likeCalls \ {k}) \cup {moved}
      BY <1>2 DEF FindLike
    <2>3. CallRight(k) => a = "found"
      BY <1>1, <1>2 DEF FindLike, CallRight
    <2> HIDE DEF a
    <2>4. /\ moved \in LikeCall /\ moved.n = k.n /\ moved.guide = k.guide /\ moved.like = k.like
          /\ moved.from = k.from /\ moved.visit = k.visit /\ moved.at = a /\ moved.row = like[k.guide]
      BY <1>1, <2>1 DEF LikeCall
    <2> HIDE DEF moved
    <2>5. PICK m : m = moved
      OBVIOUS
    <2>6. UNCHANGED <<libPage, loads, visits, list, unsure, like>>
      BY <1>2 DEF FindLike, LikesOnly
    <2>7. CallRight(k) => CallRight(m)'
      <3> SUFFICES ASSUME CallRight(k) PROVE CallRight(m)'
        OBVIOUS
      <3>1. m.at = "found" /\ m.row = like[k.guide] /\ m.guide = k.guide /\ m.like = k.like
            /\ m.from = k.from /\ m.visit = k.visit
        BY <2>3, <2>4, <2>5
      <3>2. like[k.guide] # NoLike <=> ~k.like
        BY <1>2 DEF FindLike, CallRight
      <3> QED BY <2>6, <3>1, <3>2 DEF CallRight
    <2> QED BY <2>2, <2>4, <2>5, <2>6, <2>7, CallMoves
  <1>3. CASE CreateLike(k)
    <2> DEFINE made == like[k.guide] = NoLike
               a == IF made THEN "done" ELSE "error"
               moved == [k EXCEPT !.at = a]
    <2>1. a \in {"done", "error"}
      OBVIOUS
    <2>2. likeCalls' = (likeCalls \ {k}) \cup {moved}
      BY <1>3 DEF CreateLike, Onward
    <2>3. like' = IF made THEN [like EXCEPT ![k.guide] = k.n] ELSE like
      BY <1>3 DEF CreateLike
    <2>4. CallRight(k) => made /\ a = "done" /\ k.like
      BY <1>3 DEF CreateLike, CallRight
    <2> HIDE DEF a, made
    <2>5. /\ moved \in LikeCall /\ moved.n = k.n /\ moved.guide = k.guide /\ moved.like = k.like
          /\ moved.from = k.from /\ moved.visit = k.visit /\ moved.at = a
      BY <1>1, <2>1, CallOnward
    <2> HIDE DEF moved
    <2>6. PICK m : m = moved
      OBVIOUS
    <2>7. UNCHANGED <<libPage, loads, visits, list, unsure>>
      BY <1>3 DEF CreateLike, LikesOnly
    <2>8. /\ \A h \in Guides : h # k.guide => like'[h] = like[h]
          /\ made => like'[k.guide] # NoLike
      BY <1>1, <2>3 DEF NoLike
    <2>9. CallRight(k) => CallRight(m)'
      <3> SUFFICES ASSUME CallRight(k) PROVE CallRight(m)'
        OBVIOUS
      <3>1. m.at = "done" /\ m.guide = k.guide /\ m.like = k.like /\ m.like
            /\ m.from = k.from /\ m.visit = k.visit /\ like'[k.guide] # NoLike
        BY <2>4, <2>5, <2>6, <2>8
      <3> QED BY <2>7, <3>1 DEF CallRight
    <2> QED BY <2>2, <2>5, <2>6, <2>7, <2>8, <2>9, CallMoves
  <1>4. CASE DeleteLikeByID(k)
    <2> DEFINE moved == [k EXCEPT !.at = "done"]
    <2>1. likeCalls' = (likeCalls \ {k}) \cup {moved}
      BY <1>4 DEF DeleteLikeByID, Onward
    <2>2. /\ moved \in LikeCall /\ moved.n = k.n /\ moved.guide = k.guide /\ moved.like = k.like
          /\ moved.from = k.from /\ moved.visit = k.visit /\ moved.at = "done"
      BY <1>1, CallOnward
    <2> HIDE DEF moved
    <2>3. PICK m : m = moved
      OBVIOUS
    <2>4. UNCHANGED <<libPage, loads, visits, list, unsure>> /\ ~k.like
      BY <1>4 DEF DeleteLikeByID, LikesOnly
    <2>5. \A h \in Guides : h # k.guide => like'[h] = like[h]
      BY <1>1, <1>4 DEF DeleteLikeByID
    <2>6. like[k.guide] = k.row => like'[k.guide] = NoLike
      BY <1>1, <1>4 DEF DeleteLikeByID
    <2>7. CallRight(k) => CallRight(m)'
      <3> SUFFICES ASSUME CallRight(k) PROVE CallRight(m)'
        OBVIOUS
      <3>1. like'[k.guide] = NoLike
        BY <1>4, <2>4, <2>6 DEF DeleteLikeByID, CallRight
      <3>2. m.at = "done" /\ m.guide = k.guide /\ m.like = k.like /\ ~m.like
            /\ m.from = k.from /\ m.visit = k.visit
        BY <2>2, <2>3, <2>4
      <3> QED BY <2>4, <3>1, <3>2 DEF CallRight
    <2> QED BY <2>1, <2>2, <2>3, <2>4, <2>5, <2>7, CallMoves
  <1>5. CASE LikeDone(k)
    <2>1. UNCHANGED <<libPage, loads, visits, like, list, unsure>> /\ likeCalls' = likeCalls \ {k}
          /\ k.at = "done"
      BY <1>5 DEF LikeDone
    <2>2. CallRight(k) => GuideRight(k.guide)'
      BY <2>1 DEF CallRight, GuideRight, Stored
    <2> QED BY <2>1, <2>2, CallsEnd
  <1>6. CASE LikeFails(k)
    <2> DEFINE b == ~k.like
    <2>1. /\ UNCHANGED <<libPage, loads, visits, like>> /\ likeCalls' = likeCalls \ {k}
          /\ unsure \subseteq unsure' /\ (k.guide \notin unsure' => k.at # "done")
          /\ list' = IF LikeHeard(k) /\ k.from = "list" THEN WithLike(list, k.guide, ~k.like) ELSE list
      BY <1>6 DEF LikeFails
    <2>2. ASSUME CallRight(k), k.guide \notin unsure', libPage = "list" PROVE GuideRight(k.guide)'
      <3>1. LikeHeard(k) /\ k.from = "list" /\ k.at \in {"sent", "found"}
        BY <1>1, <2>1, <2>2 DEF CallRight, LikeHeard
      <3>2. list' = WithLike(list, k.guide, b) /\ b \in BOOLEAN
        BY <2>1, <3>1
      <3>3. /\ k.guide \in list.likedGuideIds <=> k.like
            /\ k.guide \in DOMAIN list.guides => list.guides[k.guide].count = IF k.like THEN 1 ELSE 0
            /\ like'[k.guide] # NoLike <=> ~k.like
        BY <2>1, <2>2, <3>1 DEF CallRight
      <3>4. b <=> ~k.like
        OBVIOUS
      <3> HIDE DEF b
      <3>5. /\ list'.likedGuideIds = IF b THEN list.likedGuideIds \cup {k.guide}
                                     ELSE list.likedGuideIds \ {k.guide}
            /\ DOMAIN list'.guides = DOMAIN list.guides
            /\ k.guide \in DOMAIN list.guides =>
                 list'.guides[k.guide].count = list.guides[k.guide].count + (IF b THEN 1 ELSE -1)
        BY <1>1, <3>2, Clicked
      <3> QED BY <3>3, <3>4, <3>5 DEF GuideRight, Stored
    <2> QED BY <2>1, <2>2, CallsEnd
  <1> QED BY <1>2, <1>3, <1>4, <1>5, <1>6 DEF LikeStep

LEMMA LikesStep ==
  Types /\ LoadsInv /\ LikesInv /\ [LibraryNext]_libraryVars => LikesInv'
  <1> SUFFICES ASSUME Types, LoadsInv, LikesInv, [LibraryNext]_libraryVars PROVE LikesInv'
    OBVIOUS
  <1>0. list \in TheList /\ visits + 1 \in Nat
    BY DEF Types, LibraryPageTypes, CountTypes
  <1>1. ASSUME NEW t \in Tabs, NEW q \in Queries, ChooseList(t, q) PROVE LikesInv'
    <2> DEFINE m == ListLoad(visits + 1, t, q)
    <2>1. list' = [list EXCEPT !.tab = t, !.query = q, !.loading = TRUE]
      BY <1>1 DEF ChooseList
    <2>2. /\ list'.loading = TRUE /\ list'.likedGuides = list.likedGuides
          /\ list'.likedGuideIds = list.likedGuideIds
      BY <1>0, <2>1 DEF TheList
    <2>3. m.read = {} /\ loads' = loads \cup {m}
      BY <1>1 DEF ListLoad, Asked, ChooseList
    <2> HIDE DEF m
    <2>4. HeartsMatch' /\ visits' = visits + 1 /\ unsure' = InFlight /\ likeCalls' = likeCalls
      BY <1>1, <2>2 DEF ChooseList, Visit, LikesInv, HeartsMatch
    <2> QED BY <2>2, <2>3, <2>4, LikesAnew
  <1>2. ASSUME NEW g \in Guides, ToggleLike(g) PROVE LikesInv'
    BY <1>2, ClickLikes
  <1>3. ASSUME NEW g \in Guides, OpenDetail(g) PROVE LikesInv'
    BY <1>3, OpenLikes DEF OpenDetail
  <1>4. ASSUME NEW g \in Guides, CreateFromLiked(g) PROVE LikesInv'
    BY <1>4, OpenLikes DEF CreateFromLiked
  <1>5. ASSUME NEW g \in Guides, OwnerHides(g) PROVE LikesInv'
    BY <1>5, LikesAside DEF OwnerHides
  <1>6. CASE OpenEditor
    <2>1. sheet.of \in Guides
      BY <1>6 DEF OpenEditor, Mine
    <2> QED BY <1>6, <2>1, OpenLikes DEF OpenEditor
  <1>7. CASE CreateFromNothing
    BY <1>7, OpenLikes DEF CreateFromNothing
  <1>8. CASE BackToList
    BY <1>8, BackLikes DEF BackToList
  <1>9. CASE HandleLikeToggle
    <2>1. libPage' # "list" /\ list' = list
      BY <1>9 DEF HandleLikeToggle
    <2> QED BY <2>1, LikesElsewhere DEF LikesInv, HeartsMatch
  <1>10. CASE TypeText
    BY <1>10, LikesAside DEF TypeText
  <1>11. CASE HandleSave
    BY <1>11, LikesAside DEF HandleSave
  <1>12. ASSUME NEW k \in loads, LoadStep(k) PROVE LikesInv'
    BY <1>12, LoadLikes
  <1>13. ASSUME NEW k \in likeCalls, LikeStep(k) PROVE LikesInv'
    BY <1>13, LikeLikes
  <1>14. ASSUME NEW w \in writes, ServeSave(w) PROVE LikesInv'
    BY <1>14, LikesAside DEF ServeSave
  <1>15. ASSUME NEW w \in writes, SaveEnds(w) PROVE LikesInv'
    BY <1>15, LikesAside DEF SaveEnds
  <1>16. CASE UNCHANGED libraryVars
    BY <1>16, LikesAside DEF libraryVars
  <1> QED BY <1>1, <1>2, <1>3, <1>4, <1>5, <1>6, <1>7, <1>8, <1>9, <1>10, <1>11, <1>12, <1>13,
             <1>14, <1>15, <1>16 DEF LibraryNext, SaveStep

-----------------------------------------------------------------------------
\* The types of the pages, the calls and the rows, and what is known of the load
\* that the page waits for: whatever is opened, left, answered or lost.
THEOREM LibraryTypesCorrect == LibrarySpec => [](Types /\ LoadsInv)
  <1>1. LibraryInit => Types /\ LoadsInv
    BY TypesStart, LoadsStart
  <1>2. Types /\ LoadsInv /\ [LibraryNext]_libraryVars => (Types /\ LoadsInv)'
    BY LibraryTypesStep, LoadsStep
  <1> QED BY <1>1, <1>2, PTL DEF LibrarySpec

\* The guides shown are those of the tab and the search that are chosen: an answer
\* for another tab never fills the page (the cancelled flag of the load's effect).
THEOREM ListIsChosen == LibrarySpec => []ShownListIsChosen
  <1>1. LoadsInv => ShownListIsChosen
    BY DEF LoadsInv
  <1> QED BY <1>1, LibraryTypesCorrect, PTL

\* The dialog of liked guides and the hearts agree, and hearts and counts are what
\* is stored for every guide whose calls did not overlap and were all answered
\* (handleToggleLike with its rollback, LikeDesignGuide and UnlikeDesignGuide).
THEOREM LikesAreStored == LibrarySpec => []LikesShownAreStored
  <1>1. Types /\ LikesInv => LikesShownAreStored
    <2> SUFFICES ASSUME Types, LikesInv PROVE LikesShownAreStored
      OBVIOUS
    <2>1. /\ list.likedGuideIds \subseteq Guides /\ DOMAIN list.guides \in SUBSET Guides
          /\ list.loading \in BOOLEAN
      BY ListsAre, MapsAre DEF Types, LibraryPageTypes
    <2>2. {g \in Guides : list.likedGuides[g] > 0} = list.likedGuideIds
      BY <2>1 DEF LikesInv, HeartsMatch
    <2>3. ASSUME libPage = "list", ~IsListLoading, list.filled # Failed,
                 NEW g \in DOMAIN list.guides \ (unsure \cup InFlight)
          PROVE  GuideRight(g)
      BY <2>1, <2>3 DEF LikesInv, CallsRight, IsListLoading
    <2> QED BY <2>2, <2>3 DEF LikesShownAreStored, GuideRight, Stored
  <1>2. LibraryInit => LikesInv
    BY LikesStart
  <1>3. Types /\ LoadsInv /\ LikesInv /\ [LibraryNext]_libraryVars => LikesInv'
    BY LikesStep
  <1> QED BY <1>1, <1>2, <1>3, LibraryTypesCorrect, PTL DEF LibrarySpec

\* What is typed into the editor stays until the page is left: the guide it edits
\* is there before the first keystroke, and is asked for once.
THEOREM TypedIsKept == LibrarySpec => TypedSurvives
  <1>1. ASSUME Types, LoadsInv, [LibraryNext]_libraryVars, libPage = "edit", visits' = visits, sheet.typed
        PROVE  sheet'.text = sheet.text
    <2>0. sheet \in TheSheet /\ visits \in Nat /\ visits' # visits + 1 /\ sheet.loading \in BOOLEAN
      BY <1>1, SheetsAre DEF Types, LibraryPageTypes, CountTypes
    <2>1. ASSUME NEW k \in loads, LoadStep(k) PROVE sheet' = sheet
      <3>1. k.page = "sheet" => k.n # visits
        BY <1>1 DEF LoadsInv
      <3> QED BY <2>0, <2>1, <3>1 DEF LoadStep, ServeListed, ServeLiked, GuidesArrive, GuidesFail,
                 GuideArrives, GuideMissing, EditorLeaves, Visit, Current
    <2>2. ASSUME NEW k \in likeCalls, LikeStep(k) PROVE sheet'.text = sheet.text
      <3> DEFINE b == ~k.like
                 c == sheet.count + (IF k.like THEN -1 ELSE 1)
      <3>1. CASE LikeFails(k)
        <4>1. sheet' = sheet \/ sheet' = [sheet EXCEPT !.liked = b, !.count = c]
          BY <3>1, Zenon DEF LikeFails
        <4> HIDE DEF b, c
        <4> QED BY <2>0, <4>1 DEF TheSheet
      <3>2. CASE ~LikeFails(k)
        BY <2>2, <3>2 DEF LikeStep, FindLike, CreateLike, DeleteLikeByID, LikeDone, LikesOnly
      <3> QED BY <3>1, <3>2
    <2>3. ASSUME NEW w \in writes, SaveStep(w) PROVE sheet'.text = sheet.text
      BY <2>0, <2>3 DEF SaveStep, ServeSave, SaveEnds, TheSheet
    <2>4. CASE HandleSave
      BY <2>0, <2>4 DEF HandleSave, TheSheet
    <2>5. CASE TypeText
      BY <1>1, <2>5 DEF TypeText
    <2>6. CASE OpenEditor \/ CreateFromNothing \/ BackToList \/ HandleLikeToggle
      BY <1>1, <2>0, <2>6 DEF OpenEditor, CreateFromNothing, BackToList, HandleLikeToggle, Open, Visit
    <2>7. ASSUME NEW g \in Guides, ToggleLike(g) \/ OpenDetail(g) \/ CreateFromLiked(g) \/ OwnerHides(g)
          PROVE  sheet'.text = sheet.text
      BY <1>1, <2>7 DEF ToggleLike, OpenDetail, CreateFromLiked, OwnerHides
    <2>8. ASSUME NEW t \in Tabs, NEW q \in Queries, ChooseList(t, q) PROVE sheet'.text = sheet.text
      BY <1>1, <2>8 DEF ChooseList
    <2>9. CASE UNCHANGED libraryVars
      BY <2>9 DEF libraryVars
    <2> QED BY <1>1, <2>1, <2>2, <2>3, <2>4, <2>5, <2>6, <2>7, <2>8, <2>9 DEF LibraryNext
  <1>2. Types /\ LoadsInv /\ [LibraryNext]_libraryVars =>
          [libPage = "edit" /\ libPage' = "edit" /\ visits' = visits /\ sheet.typed =>
             sheet'.text = sheet.text]_libraryVars
    BY <1>1
  <1> QED BY <1>2, LibraryTypesCorrect, PTL DEF LibrarySpec, TypedSurvives
=============================================================================
