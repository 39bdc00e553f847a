---------------------------- MODULE GuideLibrary ----------------------------
(***************************************************************************)
(* The library of design guides: the list with its tabs, its search, its   *)
(* likes shown before they are stored and the dialog of liked guides; the  *)
(* pages that show, edit and create one guide; and the handlers behind     *)
(* them.  Each page keeps its own state, which is gone when it is left;    *)
(* the calls it made are not.  Likes of other people are left out: a count *)
(* is what it is above them.                                               *)
(***************************************************************************)
EXTENDS Integers, FiniteSets

CONSTANTS
  Guides,        \* ids of guides that exist
  Queries,       \* what the search may match: sets of guides
  MaxActs        \* bound: pages opened, lists asked for, hearts clicked, guides hidden

ASSUME LibraryAssumption ==
  Queries \subseteq SUBSET Guides /\ Guides \in Queries

NoGuide == "no guide"
NoLike == 0          \* no row of design_guide_likes; a row has the number of its click, above 0
Asked == {}   \* nothing of a load is read yet

VARIABLES
  guideRow,    \* guideRow[g]: the stored guide, and whether it is this person's
  like,        \* like[g]: this person's row for g
  libPage,     \* the page shown: list, detail, edit, new
  list,        \* the list page
  sheet,       \* the page of one guide: detail, edit or new
  loads,       \* lists and guides that are being read
  likeCalls,   \* likes and unlikes in flight
  writes,      \* updates and creations in flight
  visits, likings,
  unsure       \* guides whose likes the list may show wrong: calls overlapped, or an answer was lost

libraryVars == <<guideRow, like, libPage, list, sheet, loads, likeCalls, writes,
                 visits, likings, unsure>>

-----------------------------------------------------------------------------
Tabs == {"templates", "community", "my-guides", "liked"}
Contents == {"stored", "edited", "default"}
GuideRow == [public : BOOLEAN, template : BOOLEAN, text : Contents, mine : BOOLEAN]
Mine == {g \in Guides : guideRow[g].mine}
Likes == 0 .. MaxActs

\* What ListDesignGuides finds for a tab.
Found(t, q) ==
  {g \in q :
     CASE t = "templates" -> (g \in Mine \/ guideRow[g].public) /\ guideRow[g].template
       [] t = "community" -> guideRow[g].public
       [] t = "my-guides" -> g \in Mine
       [] OTHER -> like[g] # NoLike}
LikedNow == {g \in Guides : like[g] # NoLike}

\* The summaries of guides: likeCount and isTemplate.
Summaries(S) ==
  [g \in S |-> [count |-> IF like[g] = NoLike THEN 0 ELSE 1, template |-> guideRow[g].template]]

\* The load of the list reads the guides of the tab and, in another call, the
\* liked ones; n tells a load that was cancelled from the last one.
ListLoad(n, t, q) == [n |-> n, page |-> "list", tab |-> t, query |-> q,
                      read |-> Asked, listed |-> << >>, liked |-> {}]
SheetLoad(n, g) == [n |-> n, page |-> "sheet", guide |-> g]

Failed == <<"nothing", {}>>   \* no answer has filled the list, or the last load failed

\* The list page as it is mounted, on visit n.
FreshList(n) == [tab |-> "templates", query |-> Guides, guides |-> << >>,
              likedGuides |-> [g \in Guides |-> 0], likedGuideIds |-> {},
              filled |-> Failed, loading |-> TRUE, mounted |-> n]
FreshSheet == [of |-> NoGuide, loading |-> FALSE, there |-> FALSE, liked |-> FALSE, count |-> 0,
               text |-> "default", typed |-> FALSE, saving |-> FALSE]

LibraryAt(p) ==
  /\ \E M \in SUBSET Guides : guideRow =
       [g \in Guides |-> [public |-> TRUE, template |-> TRUE, text |-> "stored", mine |-> g \in M]]
  /\ like = [g \in Guides |-> NoLike]
  /\ libPage = p /\ list = FreshList(1) /\ sheet = FreshSheet
  /\ loads = {ListLoad(1, "templates", Guides)}
  /\ likeCalls = {} /\ writes = {} /\ visits = 1 /\ likings = 0 /\ unsure = {}
LibraryInit == LibraryAt("list")

\* The load of this page that was not cancelled.
Current(k) == k.n = visits
IsListLoading == libPage = "list" /\ list.loading

Acts == visits + likings < MaxActs
Visit == Acts /\ visits' = visits + 1
InFlight == {k.guide : k \in likeCalls}

-----------------------------------------------------------------------------
\* The list page.

\* A tab or another text in the search: the load before it is cancelled.
ChooseList(t, q) ==
  /\ libPage = "list" /\ Visit
  /\ <<t, q>> # <<list.tab, list.query>>
  /\ list' = [list EXCEPT !.tab = t, !.query = q, !.loading = TRUE]
  /\ loads' = loads \cup {ListLoad(visits + 1, t, q)}
  /\ unsure' = InFlight
  /\ UNCHANGED <<guideRow, like, libPage, sheet, likeCalls, writes, likings>>

ServeListed(k) ==
  /\ k \in loads /\ k.page = "list" /\ "listed" \notin k.read
  /\ loads' = (loads \ {k}) \cup {[k EXCEPT !.read = @ \cup {"listed"}, !.listed = Summaries(Found(k.tab, k.query))]}
  /\ UNCHANGED <<guideRow, like, libPage, list, sheet, likeCalls, writes, visits, likings, unsure>>

ServeLiked(k) ==
  /\ k \in loads /\ k.page = "list" /\ "liked" \notin k.read
  /\ loads' = (loads \ {k}) \cup {[k EXCEPT !.read = @ \cup {"liked"}, !.liked = LikedNow]}
  /\ UNCHANGED <<guideRow, like, libPage, list, sheet, likeCalls, writes, visits, likings, unsure>>

\* The list as an answered load fills it.
Filled(k) ==
  [list EXCEPT !.guides = k.listed,
               !.likedGuides = [g \in Guides |-> IF g \in k.liked THEN 1 ELSE 0],
               !.likedGuideIds = k.liked,
               !.filled = <<k.tab, k.query>>, !.loading = FALSE]

\* Seeded fault: an answer is taken although its load was cancelled.
GuidesArriveLate(k) ==
  /\ k \in loads /\ k.page = "list" /\ k.read = {"listed", "liked"}
  /\ loads' = loads \ {k}
  /\ list' = IF libPage = "list" THEN Filled(k) ELSE list
  /\ UNCHANGED <<guideRow, like, libPage, sheet, likeCalls, writes, visits, likings, unsure>>

GuidesArrive(k) ==
  /\ k \in loads /\ k.page = "list" /\ k.read = {"listed", "liked"}
  /\ loads' = loads \ {k}
  /\ list' = IF Current(k) THEN Filled(k) ELSE list
  /\ UNCHANGED <<guideRow, like, libPage, sheet, likeCalls, writes, visits, likings, unsure>>

\* The guides of the tab before stay.
GuidesFail(k) ==
  /\ k \in loads /\ k.page = "list"
  /\ loads' = loads \ {k}
  /\ list' = IF Current(k) THEN [list EXCEPT !.filled = Failed, !.loading = FALSE] ELSE list
  /\ UNCHANGED <<guideRow, like, libPage, sheet, likeCalls, writes, visits, likings, unsure>>

\* The cards shown: all of the tab, or what the community tab leaves.
ShownGuides ==
  {g \in DOMAIN list.guides :
     list.tab = "community" => ~list.guides[g].template /\ g \notin Mine}

Liking == Acts /\ likings' = likings + 1

\* What a click on a heart makes of the list, and what its failure makes of it.
WithLike(l, g, liked) ==
  [l EXCEPT !.guides = [h \in DOMAIN l.guides |->
                          IF h = g THEN [l.guides[h] EXCEPT !.count = @ + (IF liked THEN 1 ELSE -1)]
                          ELSE l.guides[h]],
            !.likedGuides = [l.likedGuides EXCEPT ![g] = IF liked THEN @ + 1 ELSE 0],
            !.likedGuideIds = IF liked THEN l.likedGuideIds \cup {g} ELSE l.likedGuideIds \ {g}]

\* The heart of a card: shown at once, then sent.
ToggleLike(g) ==
  /\ libPage = "list" /\ ~IsListLoading /\ g \in ShownGuides /\ Liking
  /\ LET liking == g \notin list.likedGuideIds IN
       /\ list' = WithLike(list, g, liking)
       /\ likeCalls' = likeCalls \cup {[n |-> likings + 1, guide |-> g, like |-> liking,
                                        from |-> "list", visit |-> list.mounted, at |-> "sent", row |-> NoLike]}
  /\ unsure' = IF g \in InFlight THEN unsure \cup {g} ELSE unsure
  /\ UNCHANGED <<guideRow, like, libPage, sheet, loads, writes, visits>>

-----------------------------------------------------------------------------
\* LikeDesignGuide and UnlikeDesignGuide: look for the row, then insert or delete it.

Onward(k, at) == likeCalls' = (likeCalls \ {k}) \cup {[k EXCEPT !.at = at]}
LikesOnly == UNCHANGED <<guideRow, libPage, list, sheet, loads, writes, visits, likings, unsure>>

FindLike(k) ==
  /\ k \in likeCalls /\ k.at = "sent"
  /\ likeCalls' = (likeCalls \ {k}) \cup
       {[k EXCEPT !.at = IF k.like = (like[k.guide] # NoLike) THEN "done" ELSE "found",
                  !.row = like[k.guide]]}
  /\ UNCHANGED like /\ LikesOnly

\* The unique index refuses a second row.
CreateLike(k) ==
  /\ k \in likeCalls /\ k.at = "found" /\ k.like
  /\ IF like[k.guide] = NoLike
     THEN /\ like' = [like EXCEPT ![k.guide] = k.n]
          /\ Onward(k, "done")
     ELSE Onward(k, "error") /\ UNCHANGED like
  /\ LikesOnly

\* The row that was found is deleted, if it is still there.
DeleteLikeByID(k) ==
  /\ k \in likeCalls /\ k.at = "found" /\ ~k.like
  /\ like' = [like EXCEPT ![k.guide] = IF @ = k.row THEN NoLike ELSE @]
  /\ Onward(k, "done")
  /\ LikesOnly

\* The page that sent the call is still there (the list survives its tabs).
LikeHeard(k) == k.from = libPage /\ k.visit = IF libPage = "list" THEN list.mounted ELSE visits

LikeDone(k) ==
  /\ k \in likeCalls /\ k.at = "done"
  /\ likeCalls' = likeCalls \ {k}
  /\ UNCHANGED <<guideRow, like, libPage, list, sheet, loads, writes, visits, likings, unsure>>

\* Seeded fault: a failed like is not rolled back.
LikeFailsSilently(k) ==
  /\ k \in likeCalls
  /\ likeCalls' = likeCalls \ {k}
  /\ unsure' = IF k.at = "done" THEN unsure \cup {k.guide} ELSE unsure
  /\ UNCHANGED <<guideRow, like, libPage, list, sheet, loads, writes, visits, likings>>

\* The call fails, served or not: the click is taken back.
LikeFails(k) ==
  /\ k \in likeCalls
  /\ likeCalls' = likeCalls \ {k}
  /\ list' = IF LikeHeard(k) /\ k.from = "list" THEN WithLike(list, k.guide, ~k.like) ELSE list
  /\ sheet' = IF LikeHeard(k) /\ k.from = "detail"
              THEN [sheet EXCEPT !.liked = ~k.like, !.count = @ + (IF k.like THEN -1 ELSE 1)]
              ELSE sheet
  /\ unsure' = IF k.at = "done" THEN unsure \cup {k.guide} ELSE unsure
  /\ UNCHANGED <<guideRow, like, libPage, loads, writes, visits, likings>>

-----------------------------------------------------------------------------
\* The page of one guide.

Open(page, g) ==
  /\ Visit
  /\ libPage' = page
  /\ list' = FreshList(visits + 1)
  /\ sheet' = [FreshSheet EXCEPT !.of = g, !.loading = (g # NoGuide)]
  /\ loads' = loads \cup (IF g = NoGuide THEN {} ELSE {SheetLoad(visits + 1, g)})
  /\ UNCHANGED <<guideRow, like, likeCalls, writes, likings, unsure>>

\* A click on a card.
OpenDetail(g) == libPage = "list" /\ ~IsListLoading /\ g \in ShownGuides /\ Open("detail", g)

\* The owner's button.
OpenEditor ==
  libPage = "detail" /\ sheet.there /\ sheet.of \in Mine /\ Open("edit", sheet.of)

\* A new guide, from nothing or from a liked one in the dialog.
CreateFromNothing == libPage = "list" /\ Open("new", NoGuide)
CreateFromLiked(g) == libPage = "list" /\ list.likedGuides[g] > 0 /\ Open("new", g)

\* The list starts anew.
BackToList ==
  /\ libPage # "list" /\ Visit
  /\ libPage' = "list" /\ list' = FreshList(visits + 1) /\ sheet' = FreshSheet
  /\ loads' = loads \cup {ListLoad(visits + 1, "templates", Guides)}
  /\ unsure' = InFlight
  /\ UNCHANGED <<guideRow, like, likeCalls, writes, likings>>

\* GetDesignGuide gives a guide to its owner, and to all when it is public.
Readable(g) == g \in Mine \/ guideRow[g].public

\* A page that was left is not filled; the new guide's load is never cancelled,
\* but its page is gone by then.
GuideArrives(k) ==
  /\ k \in loads /\ k.page = "sheet" /\ Readable(k.guide)
  /\ loads' = loads \ {k}
  /\ sheet' = IF ~Current(k) THEN sheet
              ELSE [sheet EXCEPT !.loading = FALSE, !.there = TRUE,
                                 !.count = IF like[k.guide] = NoLike THEN 0 ELSE 1,
                                 !.text = guideRow[k.guide].text, !.typed = FALSE]
  /\ UNCHANGED <<guideRow, like, libPage, list, likeCalls, writes, visits, likings, unsure>>

\* The editor goes back to the list, the page for a new guide ignores it.
GuideMissing(k) ==
  /\ k \in loads /\ k.page = "sheet"
  /\ ~(Current(k) /\ libPage = "edit")
  /\ loads' = loads \ {k}
  /\ sheet' = IF Current(k) THEN [sheet EXCEPT !.loading = FALSE] ELSE sheet
  /\ UNCHANGED <<guideRow, like, libPage, list, likeCalls, writes, visits, likings, unsure>>

EditorLeaves(k) ==
  /\ k \in loads /\ k.page = "sheet" /\ Current(k) /\ libPage = "edit"
  /\ Visit
  /\ libPage' = "list" /\ list' = FreshList(visits + 1) /\ sheet' = FreshSheet
  /\ loads' = (loads \ {k}) \cup {ListLoad(visits + 1, "templates", Guides)}
  /\ unsure' = InFlight
  /\ UNCHANGED <<guideRow, like, likeCalls, writes, likings>>

\* liked starts out as FALSE, whatever is stored.
HandleLikeToggle ==
  /\ libPage = "detail" /\ sheet.there /\ Liking
  /\ sheet' = [sheet EXCEPT !.liked = ~@, !.count = @ + (IF sheet.liked THEN -1 ELSE 1)]
  /\ likeCalls' = likeCalls \cup {[n |-> likings + 1, guide |-> sheet.of, like |-> ~sheet.liked,
                                   from |-> "detail", visit |-> visits, at |-> "sent",
                                   row |-> NoLike]}
  /\ UNCHANGED <<guideRow, like, libPage, list, loads, writes, visits, unsure>>

\* Seeded fault: the editor is shown before its guide is there.
TypeWhileLoading ==
  /\ libPage \in {"edit", "new"} /\ ~sheet.typed
  /\ sheet' = [sheet EXCEPT !.text = "edited", !.typed = TRUE]
  /\ UNCHANGED <<guideRow, like, libPage, list, loads, likeCalls, writes, visits, likings, unsure>>

\* The editor shows a spinner until its guide is there, the new page does not.
TypeText ==
  /\ libPage \in {"edit", "new"} /\ ~sheet.typed
  /\ libPage = "edit" => ~sheet.loading
  /\ sheet' = [sheet EXCEPT !.text = "edited", !.typed = TRUE]
  /\ UNCHANGED <<guideRow, like, libPage, list, loads, likeCalls, writes, visits, likings, unsure>>

\* The button is disabled while a save is under way, and saves again after it.
\* isTemplate is not sent.
HandleSave ==
  /\ libPage \in {"edit", "new"} /\ ~sheet.saving
  /\ libPage = "edit" => ~sheet.loading
  /\ sheet' = [sheet EXCEPT !.saving = TRUE]
  /\ writes' = writes \cup {[visit |-> visits, at |-> "sent", text |-> sheet.text,
                             guide |-> IF libPage = "edit" THEN sheet.of ELSE NoGuide]}
  /\ UNCHANGED <<guideRow, like, libPage, list, loads, likeCalls, visits, likings, unsure>>

\* UpdateDesignGuide, by the owner: what is not sent is FALSE.  (The visibility of
\* one's own guide changes nothing on these pages, and a new guide is another row,
\* of which they show nothing.)
ServeSave(w) ==
  /\ w \in writes /\ w.at = "sent"
  /\ writes' = (writes \ {w}) \cup {[w EXCEPT !.at = "done"]}
  /\ guideRow' = IF w.guide \in Mine
                 THEN [guideRow EXCEPT ![w.guide].template = FALSE, ![w.guide].text = w.text]
                 ELSE guideRow
  /\ UNCHANGED <<like, libPage, list, sheet, loads, likeCalls, visits, likings, unsure>>

SaveEnds(w) ==
  /\ w \in writes
  /\ writes' = writes \ {w}
  /\ sheet' = IF w.visit = visits THEN [sheet EXCEPT !.saving = FALSE] ELSE sheet
  /\ UNCHANGED <<guideRow, like, libPage, list, loads, likeCalls, visits, likings, unsure>>

\* The owner of a guide hides it.
OwnerHides(g) ==
  /\ Acts /\ likings' = likings + 1
  /\ g \notin Mine /\ guideRow[g].public
  /\ guideRow' = [guideRow EXCEPT ![g].public = FALSE]
  /\ UNCHANGED <<like, libPage, list, sheet, loads, likeCalls, writes, visits, unsure>>

-----------------------------------------------------------------------------
LoadStep(k) ==
  ServeListed(k) \/ ServeLiked(k) \/ GuidesArrive(k) \/ GuidesFail(k)
    \/ GuideArrives(k) \/ GuideMissing(k) \/ EditorLeaves(k)
LikeStep(k) ==
  FindLike(k) \/ CreateLike(k) \/ DeleteLikeByID(k) \/ LikeDone(k) \/ LikeFails(k)
SaveStep(w) == ServeSave(w) \/ SaveEnds(w)

LibraryNext ==
  \/ \E t \in Tabs, q \in Queries : ChooseList(t, q)
  \/ \E g \in Guides : ToggleLike(g) \/ OpenDetail(g) \/ CreateFromLiked(g) \/ OwnerHides(g)
  \/ OpenEditor \/ CreateFromNothing \/ BackToList
  \/ HandleLikeToggle \/ TypeText \/ HandleSave
  \/ \E k \in loads : LoadStep(k)
  \/ \E k \in likeCalls : LikeStep(k)
  \/ \E w \in writes : SaveStep(w)

-----------------------------------------------------------------------------
\* Properties.

LibraryTypeOK ==
  /\ guideRow \in [Guides -> GuideRow] /\ like \in [Guides -> Likes]
  /\ libPage \in {"list", "detail", "edit", "new"}
  /\ list.tab \in Tabs /\ list.query \in Queries
  /\ DOMAIN list.guides \subseteq Guides /\ \A g \in DOMAIN list.guides : list.guides[g].count \in Int
  /\ list.likedGuides \in [Guides -> Nat] /\ list.likedGuideIds \subseteq Guides
  /\ sheet.of \in Guides \cup {NoGuide} /\ sheet.text \in Contents /\ sheet.count \in Int
  /\ \A k \in likeCalls : k.guide \in Guides /\ k.at \in {"sent", "found", "done", "error"}
  /\ visits \in 1 .. MaxActs /\ likings \in Likes /\ unsure \subseteq Guides

\* The cards belong to the tab and the search that are chosen: however late the
\* answers for other tabs come, and unless the last load failed.
ShownListIsChosen ==
  libPage = "list" /\ ~IsListLoading /\ list.filled # Failed =>
    list.filled = <<list.tab, list.query>>

\* The dialog to create from a liked guide offers exactly the guides whose heart
\* is filled; and hearts and counts are what is stored, once the calls for a guide
\* are answered: after failures that were rolled back, changes of the tab and late
\* answers, unless calls for it overlapped each other or a load, or an answer was lost.
LikesShownAreStored ==
  /\ {g \in Guides : list.likedGuides[g] > 0} = list.likedGuideIds
  /\ libPage = "list" /\ ~IsListLoading /\ list.filled # Failed =>
       \A g \in DOMAIN list.guides \ (unsure \cup InFlight) :
         /\ g \in list.likedGuideIds <=> like[g] # NoLike
         /\ list.guides[g].count = IF like[g] = NoLike THEN 0 ELSE 1

\* What a person types into the editor is never replaced by the guide that loads.
TypedSurvives ==
  [][libPage = "edit" /\ libPage' = "edit" /\ visits' = visits /\ sheet.typed =>
       sheet'.text = sheet.text]_libraryVars

-----------------------------------------------------------------------------
LibrarySpec == LibraryInit /\ [][LibraryNext]_libraryVars
=============================================================================
