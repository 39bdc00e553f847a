------------------------------ MODULE CodeViewer ------------------------------
(***************************************************************************)
(* The viewer of whole files beside the board: a tree of files, windows    *)
(* with tabs, and an editor whose text is put together from the functions  *)
(* of a file and, at every keystroke, taken apart into them again.         *)
(***************************************************************************)
EXTENDS Naturals, Sequences, FiniteSets, SequencesExt

CONSTANTS
  Opened,       \* the functions of the board, in its order
  SourceOf,     \* SourceOf[f]: the file of a function
  TitleOf,      \* TitleOf[f]: its title, which its header line shows
  FoldersOf,    \* FoldersOf[file]: the folders a file is in, from the top
  Statements,   \* lines of code
  NewIds,       \* ids of functions yet to be added
  NewTitles,    \* titles a person may give them
  MaxLines,     \* bound: lines of a function
  MaxDone       \* bound: what a person does in windows

Blank == "blank"
Skeleton == << "func" >>
Top == "top"

ASSUME ViewerAssumption ==
  /\ Opened \in Seq({Opened[i] : i \in DOMAIN Opened})
  /\ \A i, j \in DOMAIN Opened : Opened[i] = Opened[j] => i = j
  /\ Statements # {} /\ Blank \notin Statements

VARIABLES
  functions,   \* the nodes of the board, in order
  origin,      \* origin[f]: file and title of a function
  body,        \* body[f]: its code, as lines
  tree,        \* the panel of files: whether it is open, and its open folders
  windows,     \* viewerWindows
  lastWindow,  \* windowIdCounter
  popups,      \* where a window asks for the name of a new function
  additions,   \* createNode calls in flight
  done         \* what a person has done so far

viewerVars == <<functions, origin, body, tree, windows, lastWindow, popups, additions, done>>
textVars == <<functions, origin, body, additions>>
windowVars == <<windows, lastWindow, popups>>

ViewerInit ==
  /\ functions = Opened
  /\ origin = [f \in {Opened[i] : i \in DOMAIN Opened} |-> [file |-> SourceOf[f], title |-> TitleOf[f]]]
  /\ body = [f \in DOMAIN origin |-> << CHOOSE s \in Statements : TRUE >>]
  /\ tree = [open |-> FALSE, folders |-> {}]
  /\ windows = << >> /\ lastWindow = 0 /\ popups = {} /\ additions = {} /\ done = 0

-----------------------------------------------------------------------------
\* The tree of files, made of the nodes the board was loaded with.

TreeFiles == DOMAIN FoldersOf
Expanded(file) == \A i \in DOMAIN FoldersOf[file] : FoldersOf[file][i] \in tree.folders
\* A folder is there when those above it are open.
InTree(folder) ==
  \E file \in TreeFiles : \E i \in DOMAIN FoldersOf[file] :
    /\ FoldersOf[file][i] = folder
    /\ \A j \in 1 .. (i - 1) : FoldersOf[file][j] \in tree.folders

ToggleTree ==
  /\ tree' = [tree EXCEPT !.open = ~@]
  /\ UNCHANGED <<textVars, windowVars, done>>

ToggleFolder(folder) ==
  /\ tree.open /\ InTree(folder)
  /\ tree' = [tree EXCEPT !.folders = IF folder \in @ THEN @ \ {folder} ELSE @ \cup {folder}]
  /\ UNCHANGED <<textVars, windowVars, done>>

-----------------------------------------------------------------------------
\* Windows.

TabsOf(w) == {windows[w].tabs[i] : i \in DOMAIN windows[w].tabs}
NewWindow(file) == [id |-> lastWindow + 1, tabs |-> << file >>, active |-> file]
Another == lastWindow' = lastWindow + 1
Do == done < MaxDone /\ done' = done + 1

\* The elements of a sequence at some of its places, in their order.
Kept(seq, places) == FlattenSeq([i \in DOMAIN seq |-> IF i \in places THEN << seq[i] >> ELSE << >>])

\* A window without the tab, on its last one if it was on that.
WithoutTab(win, file) ==
  LET next == Kept(win.tabs, {i \in DOMAIN win.tabs : win.tabs[i] # file}) IN
    [win EXCEPT !.tabs = next,
                !.active = IF @ # file \/ next = << >> THEN @ ELSE Last(next)]
WithTabs(wins) == Kept(wins, {w \in DOMAIN wins : wins[w].tabs # << >>})
\* A popup lives in its window.
PopupsOf(wins) == {p \in popups : \E w \in DOMAIN wins : wins[w].id = p.window}

\* A file is shown where it is open, or in the first window, or in a new one.
HandleFileSelect(file) ==
  /\ Do
  /\ tree.open /\ Expanded(file)
  /\ \/ /\ windows = << >> /\ Another
        /\ windows' = << NewWindow(file) >>
     \/ \E w \in DOMAIN windows :
          /\ file \in TabsOf(w)
          /\ windows' = [windows EXCEPT ![w].active = file]
          /\ UNCHANGED lastWindow
     \/ /\ windows # << >> /\ \A w \in DOMAIN windows : file \notin TabsOf(w)
        /\ windows' = [windows EXCEPT ![1].tabs = Append(@, file), ![1].active = file]
        /\ UNCHANGED lastWindow
  /\ UNCHANGED <<textVars, tree, popups>>

TabChange(w, file) ==
  /\ Do
  /\ file \in TabsOf(w) /\ file # windows[w].active
  /\ windows' = [windows EXCEPT ![w].active = file]
  /\ UNCHANGED <<textVars, tree, lastWindow, popups>>

\* A window goes with its last tab.
TabClose(w, file) ==
  /\ Do
  /\ file \in TabsOf(w)
  /\ windows' = WithTabs([windows EXCEPT ![w] = WithoutTab(@, file)])
  /\ popups' = PopupsOf(windows')
  /\ UNCHANGED <<textVars, tree, lastWindow>>

CloseAll(w) ==
  /\ Do
  /\ windows' = RemoveAt(windows, w)
  /\ popups' = PopupsOf(windows')
  /\ UNCHANGED <<textVars, tree, lastWindow>>

\* Seeded fault: the tab is in the new window and in the one it came from.
DetachCopies(w, file) ==
  /\ Do
  /\ file \in TabsOf(w) /\ Len(windows[w].tabs) > 1 /\ Another
  /\ windows' = Append(windows, NewWindow(file))
  /\ UNCHANGED <<textVars, tree, popups>>

DetachTab(w, file) ==
  /\ Do
  /\ file \in TabsOf(w) /\ Len(windows[w].tabs) > 1 /\ Another
  /\ windows' = Append([windows EXCEPT ![w] = WithoutTab(@, file)], NewWindow(file))
  /\ UNCHANGED <<textVars, tree, popups>>

-----------------------------------------------------------------------------
\* The text of a file.

FunctionsIn(file) == Kept(functions, {i \in DOMAIN functions : origin[functions[i]].file = file})

\* The text of no code is one empty line.
Lines(f) == IF body[f] = << >> THEN << Blank >> ELSE body[f]

\* Each function under its header, an empty line before all but the first.
FileContent(file) ==
  LET fs == FunctionsIn(file)
      part(i) == << origin[fs[i]].title >> \o Lines(fs[i])
  IN FlattenSeq([i \in DOMAIN fs |-> IF i = 1 THEN part(i) ELSE << Blank >> \o part(i)])

FirstWith(text, line) ==
  CHOOSE n \in DOMAIN text : text[n] = line /\ \A k \in 1 .. (n - 1) : text[k] # line

\* Seeded fault: only the headers are looked for.
HeadersThere(file, text) ==
  \A i \in DOMAIN FunctionsIn(file) :
    \E n \in DOMAIN text : text[n] = origin[FunctionsIn(file)[i]].title

\* The header of each function is there, and an empty line before all but the first.
HeadersKept(file, text) ==
  LET fs == FunctionsIn(file) IN
    \A i \in DOMAIN fs :
      /\ \E n \in DOMAIN text : text[n] = origin[fs[i]].title
      /\ LET n == FirstWith(text, origin[fs[i]].title) IN
           i > 1 => n > 1 /\ text[n - 1] = Blank

\* The function a header line is taken for: of equal ones, the last.
OwnerOf(file, line) ==
  LET fs == FunctionsIn(file)
      with == {i \in DOMAIN fs : origin[fs[i]].title = line}
  IN IF with = {} THEN {} ELSE {fs[CHOOSE i \in with : \A j \in with : j <= i]}

WithoutTrailing(lines) ==
  SubSeq(lines, 1, CHOOSE n \in 0 .. Len(lines) :
                     /\ n > 0 => lines[n] # Blank
                     /\ \A k \in (n + 1) .. Len(lines) : lines[k] = Blank)

\* The code under the header at n, up to the next one.
CodeUnder(file, text, n) ==
  LET next == {k \in (n + 1) .. Len(text) : OwnerOf(file, text[k]) # {}}
      end == IF next = {} THEN Len(text) ELSE (CHOOSE k \in next : \A l \in next : k <= l) - 1
  IN WithoutTrailing(SubSeq(text, n + 1, end))

\* Every function gets what is under its header, the last one if there are several.
CodeSync(file, text) ==
  [f \in DOMAIN body |->
     LET mine == {n \in DOMAIN text : f \in OwnerOf(file, text[n])}
     IN IF mine = {} THEN body[f]
        ELSE CodeUnder(file, text, CHOOSE n \in mine : \A k \in mine : k <= n)]

\* A text that has lost a header or the line before it is put back as it was.
AfterTyping(file, text) == IF HeadersKept(file, text) THEN CodeSync(file, text) ELSE body

\* A line more or a line less, and where.
Insertions(text, lines) ==
  {[at |-> n, put |-> << line >>, text |-> InsertAt(text, n, line)] :
     n \in 1 .. (Len(text) + 1), line \in lines}
Deletions(text) == {[at |-> n, put |-> << >>, text |-> RemoveAt(text, n)] : n \in DOMAIN text}
Keystrokes(file) ==
  LET text == FileContent(file) IN
    Insertions(text, Statements \cup {Blank} \cup {origin[f].title : f \in DOMAIN origin})
      \cup Deletions(text)

\* A keystroke in the editor of a window; the editor then shows the functions.
ChangeModelContent(w, key) ==
  /\ Do
  /\ body' = AfterTyping(windows[w].active, key.text)
  /\ \A f \in DOMAIN body' : Len(body'[f]) <= MaxLines
  /\ UNCHANGED <<functions, origin, additions, tree, windowVars>>

-----------------------------------------------------------------------------
\* A function is added at the top of a file or after one of its functions.

AddPopup(w, after) ==
  /\ Do
  /\ after = Top \/ \E i \in DOMAIN FunctionsIn(windows[w].active) : FunctionsIn(windows[w].active)[i] = after
  /\ popups' = {p \in popups : p.window # windows[w].id} \cup {[window |-> windows[w].id, after |-> after]}
  /\ UNCHANGED <<textVars, tree, windows, lastWindow>>

CancelAdd(p) ==
  /\ Do
  /\ p \in popups
  /\ popups' = popups \ {p}
  /\ UNCHANGED <<textVars, tree, windows, lastWindow>>

\* The file is that of the tab the window shows by then.
HandleConfirmAdd(w, p, title) ==
  /\ Do
  /\ p \in popups /\ p.window = windows[w].id
  /\ Cardinality(additions) < Cardinality(NewIds \ DOMAIN origin)
  /\ popups' = popups \ {p}
  /\ additions' = additions \cup {[after |-> p.after, file |-> windows[w].active, title |-> title]}
  /\ UNCHANGED <<functions, origin, body, tree, windows, lastWindow>>

\* Where a new function goes among those of the board.
Place(a) ==
  LET fits(i) == IF a.after = Top THEN origin[functions[i]].file = a.file ELSE functions[i] = a.after
      found == {i \in DOMAIN functions : fits(i)}
      first == CHOOSE i \in found : \A j \in found : i <= j
  IN IF found = {} THEN Len(functions) + 1 ELSE IF a.after = Top THEN first ELSE first + 1

\* The answer of createNode puts it there.
FunctionAdded(a, f) ==
  /\ a \in additions /\ f \in NewIds \ DOMAIN origin
  /\ additions' = additions \ {a}
  /\ functions' = InsertAt(functions, Place(a), f)
  /\ origin' = [g \in DOMAIN origin \cup {f} |->
                  IF g = f THEN [file |-> a.file, title |-> a.title] ELSE origin[g]]
  /\ body' = [g \in DOMAIN body \cup {f} |-> IF g = f THEN Skeleton ELSE body[g]]
  /\ UNCHANGED <<tree, windowVars, done>>

FunctionNotAdded(a) ==
  /\ a \in additions
  /\ additions' = additions \ {a}
  /\ UNCHANGED <<functions, origin, body, tree, windowVars, done>>

-----------------------------------------------------------------------------
ViewerNext ==
  \/ ToggleTree
  \/ \E file \in TreeFiles : \E i \in DOMAIN FoldersOf[file] : ToggleFolder(FoldersOf[file][i])
  \/ \E file \in TreeFiles : HandleFileSelect(file)
  \/ \E w \in DOMAIN windows, file \in TreeFiles :
       TabChange(w, file) \/ TabClose(w, file) \/ DetachTab(w, file)
  \/ \E w \in DOMAIN windows : CloseAll(w)
  \/ \E w \in DOMAIN windows : \E key \in Keystrokes(windows[w].active) : ChangeModelContent(w, key)
  \/ \E w \in DOMAIN windows, after \in DOMAIN origin \cup {Top} : AddPopup(w, after)
  \/ \E p \in popups : CancelAdd(p)
  \/ \E w \in DOMAIN windows, p \in popups, title \in NewTitles : HandleConfirmAdd(w, p, title)
  \/ \E a \in additions, f \in NewIds : FunctionAdded(a, f)
  \/ \E a \in additions : FunctionNotAdded(a)

ViewerSpec == ViewerInit /\ [][ViewerNext]_viewerVars

-----------------------------------------------------------------------------
\* Properties.

\* However windows are opened, split and closed, a file is open in one place
\* only: two editors of one function would undo each other's keystrokes.
FilesOpenOnce ==
  \A w \in DOMAIN windows :
    /\ windows[w].active \in TabsOf(w)
    /\ Cardinality(TabsOf(w)) = Len(windows[w].tabs)
    /\ \A v \in DOMAIN windows \ {w} :
         TabsOf(v) \cap TabsOf(w) = {} /\ windows[v].id # windows[w].id

\* The lines of the text of a file that are the code of its i-th function.
CodeLines(file, i) ==
  LET fs == FunctionsIn(file)
      before == {j \in DOMAIN fs : j < i}
      start == FirstWith(FileContent(file), origin[fs[i]].title)
  IN (start + 1) .. (start + Len(Lines(fs[i])))

\* What a keystroke means: a line of the code of the function it is typed into.
Meant(file, key) ==
  [f \in DOMAIN body |->
     LET fs == FunctionsIn(file)
         at == {i \in DOMAIN fs : fs[i] = f}
         lines == IF at = {} THEN {} ELSE CodeLines(file, CHOOSE i \in at : TRUE)
         there == IF key.put = << >> THEN lines
                  ELSE IF lines = {} THEN {} ELSE lines \cup {CHOOSE n \in {k + 1 : k \in lines} : n \notin lines}
         text == FileContent(file)
         first == CHOOSE n \in lines : \A k \in lines : n <= k
         result == IF key.put = << >> THEN RemoveAt(Lines(f), key.at - first + 1)
                 ELSE InsertAt(Lines(f), key.at - first + 1, key.put[1])
     IN IF key.at \in there THEN WithoutTrailing(result) ELSE body[f]]

\* No two headers of the text are alike, and no line of code is like a header.
HeadersDistinct(text, file) ==
  LET headers == {origin[FunctionsIn(file)[i]].title : i \in DOMAIN FunctionsIn(file)} IN
    \A n, k \in DOMAIN text : text[n] \in headers /\ text[n] = text[k] => n = k

\* A file put together and taken apart again is the same but for the line typed:
\* it lands in the function it was typed into, and no other changes.  (With two
\* functions of one title, or a comment that reads like a header, it does not.)
TypedTextLands ==
  \A w \in DOMAIN windows :
    LET file == windows[w].active IN
      HeadersDistinct(FileContent(file), file) =>
        \A key \in Keystrokes(file) :
          HeadersDistinct(key.text, file) => AfterTyping(file, key.text) = Meant(file, key)
=============================================================================
