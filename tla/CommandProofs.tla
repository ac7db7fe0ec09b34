---------------------------- MODULE CommandProofs ----------------------------
(***************************************************************************)
(* Proofs about what a command does, for every value of the constants: its *)
(* interactive message (Collectors), the gates it passes (Commands) and    *)
(* the reminder it sets (Reminders).                                       *)
(***************************************************************************)
EXTENDS Collectors, Commands, Reminders, TLAPS

-----------------------------------------------------------------------------
(* Where undefined values come from, and when components stay behind.      *)

\* Every component that a message may show, whoever drew it.
Shows ==
    (UNION {Components(k) : k \in Kinds}) \cup {<<"avatar", "user_profile">>}
        \cup {<<"playlist", n>> : n \in (-1 .. LastPage + 1) \cup {NaN}}

Posted == [kind : Kinds, by : Users]
Pressed == [kind : {"press"}, by : Users, on : Messages, what : Shows]
Edited == [text : Values \cup {Same}, shown : (SUBSET Shows) \cup {SameShown}, stop : BOOLEAN]
Calls == {"none", "refuse", "fetch", "announce", "editParent", "defer", "change", "deferUpdate"}

Types ==
    /\ menu \in [Messages -> Posted \cup {None}]
    /\ live \in [Messages -> BOOLEAN]
    /\ shown \in [Messages -> SUBSET Shows]
    /\ text \in [Messages -> Values]
    /\ edits \in [Messages -> Seq(Edited)]
    /\ page \in [Messages -> Pages]
    /\ press \in [Presses -> Pressed \cup {None, Past}]
    /\ acked \in [Presses -> BOOLEAN]
    /\ hand \in [Presses -> [Messages -> Calls]]
    /\ lang \in Languages \cup {"undefined"}
    /\ crossed \in BOOLEAN
    /\ raced \subseteq Messages
    /\ kept \subseteq Messages

Items(s) == {s[i] : i \in 1 .. Len(s)}
Pending(m) == Items(edits[m])

\* A message that is not posted has nothing.
Blank ==
    \A m \in Messages :
        menu[m] = None =>
            ~live[m] /\ shown[m] = {} /\ edits[m] = <<>> /\ text[m] = <<"none">>

\* A handler runs for a press, and awaits a call of its own command.
Role ==
    \A p \in Presses, c \in Messages : hand[p][c] # "none" =>
        /\ press[p] \in Pressed
        /\ menu[c] # None
        /\ menu[c].kind \in Menus <=> press[p].what[1] \in Menus
        /\ menu[c].kind = "home" => press[p].on = c
        /\ hand[p][c] = "editParent" =>
              /\ menu[c].kind \in {"home", "category", "playlist", "loop"}
              /\ menu[c].kind = "category" => press[p].what[2] \in {"home", "name"}
        /\ hand[p][c] \in {"defer", "change"} => menu[c].kind = "language"
        /\ hand[p][c] = "deferUpdate" => menu[c].kind = "avatar"

\* Nothing but a help menu is ever drawn on one.
Helps == {"home", "category"}

HelpShown ==
    \A m \in Messages : menu[m] # None /\ menu[m].kind = "home" =>
        /\ \A b \in shown[m] : b[1] \in Helps
        /\ \A e \in Pending(m) : e.shown = {}

HelpPressed ==
    \A p \in Presses : press[p] \in Pressed =>
        /\ menu[press[p].on] # None
        /\ menu[press[p].on].kind = "home" => press[p].what[1] \in Helps

\* Without cross-talk a message has components and texts of its own command.
OfKind(k, b) ==
    /\ b[1] = k
    /\ k = "playlist" => b[2] \in -1 .. LastPage + 1
    /\ k = "language" => b[2] \in Languages
    /\ k = "loop" => b[2] # "undefined"

Says(k, t) ==
    /\ t[1] = IF k = "emojis" THEN "list" ELSE k
    /\ k = "playlist" => t[2] \in Pages
    /\ k = "loop" => t # <<"loop", "undefined">>

Own(k, e) ==
    /\ e.text = Same \/ Says(k, e.text)
    /\ e.shown = SameShown \/ \A b \in e.shown : OfKind(k, b)

OwnShown ==
    \A m \in Messages : menu[m] # None =>
        /\ Says(menu[m].kind, text[m])
        /\ \A b \in shown[m] : OfKind(menu[m].kind, b)
        /\ \A e \in Pending(m) : Own(menu[m].kind, e)

OwnPressed ==
    \A p \in Presses, c \in Messages : hand[p][c] # "none" =>
        press[p].on = c /\ OfKind(menu[c].kind, press[p].what)

Apart == lang \in Languages /\ OwnShown /\ OwnPressed

\* The clearing edit.
ClearEdit == Edit(Same, {}, FALSE)

\* When a collector has ended, the edit that clears its message is under way, or
\* was carried out last and nobody is left to draw the message again.
Gone(m) ==
    \/ ClearEdit \in Pending(m)
    \/ edits[m] = <<>> /\ shown[m] = {} /\ ~Busy(m)

Cleared ==
    \A m \in Messages : menu[m] # None /\ ~live[m] /\ m \notin raced \cup kept => Gone(m)

TInv == Types /\ Blank /\ Role /\ HelpShown /\ HelpPressed
IInv == TInv /\ (crossed \/ Apart) /\ Cleared

-----------------------------------------------------------------------------
(* Sequences of edits.                                                     *)

\* An edit is queued behind the others.
LEMMA Queued ==
    ASSUME NEW S, NEW s \in Seq(S), NEW e \in S
    PROVE  /\ s \o <<e>> \in Seq(S)
           /\ s \o <<e>> # <<>>
           /\ Items(s \o <<e>>) = Items(s) \cup {e}
<1> DEFINE t == s \o <<e>>
<1>1. t \in Seq(S) /\ Len(t) = Len(s) + 1 /\ Len(s) \in Nat
  OBVIOUS
<1>2. \A i \in 1 .. Len(s) : t[i] = s[i]
  OBVIOUS
<1>3. t[Len(s) + 1] = e
  OBVIOUS
<1>4. ASSUME NEW i \in 1 .. Len(t) PROVE t[i] \in {s[j] : j \in 1 .. Len(s)} \cup {e}
  <2>1. i \in 1 .. Len(s) \/ i = Len(s) + 1
    BY <1>1
  <2> QED BY <2>1, <1>2, <1>3
<1>5. ASSUME NEW i \in 1 .. Len(s) PROVE s[i] \in {t[j] : j \in 1 .. Len(t)}
  <2>1. i \in 1 .. Len(t)
    BY <1>1
  <2> QED BY <2>1, <1>2
<1>6. e \in {t[j] : j \in 1 .. Len(t)}
  <2>1. Len(s) + 1 \in 1 .. Len(t)
    BY <1>1
  <2> QED BY <2>1, <1>3
<1>7. t # <<>>
  BY <1>1
<1> QED BY <1>1, <1>4, <1>5, <1>6, <1>7 DEF Items

\* The first edit is carried out.
LEMMA Dequeued ==
    ASSUME NEW S, NEW s \in Seq(S), s # <<>>
    PROVE  /\ Head(s) \in S /\ Tail(s) \in Seq(S)
           /\ Items(s) = Items(Tail(s)) \cup {Head(s)}
<1> DEFINE t == Tail(s)
<1>1. t \in Seq(S) /\ Len(t) = Len(s) - 1 /\ Len(s) \in Nat /\ Len(s) > 0 /\ Head(s) = s[1]
  OBVIOUS
<1>2. \A i \in 1 .. Len(t) : t[i] = s[i + 1]
  OBVIOUS
<1>3. ASSUME NEW i \in 1 .. Len(s) PROVE s[i] \in {t[j] : j \in 1 .. Len(t)} \cup {Head(s)}
  <2>1. i = 1 \/ (i - 1 \in 1 .. Len(t) /\ (i - 1) + 1 = i)
    BY <1>1
  <2> QED BY <2>1, <1>1, <1>2
<1>4. ASSUME NEW i \in 1 .. Len(t) PROVE t[i] \in {s[j] : j \in 1 .. Len(s)}
  <2>1. i + 1 \in 1 .. Len(s)
    BY <1>1
  <2> QED BY <2>1, <1>2
<1>5. Head(s) \in {s[j] : j \in 1 .. Len(s)} /\ Head(s) \in S
  BY <1>1
<1> HIDE DEF t
<1> QED BY <1>1, <1>3, <1>4, <1>5 DEF t, Items

\* A message without edits has nothing queued.
LEMMA NoneQueued == Items(<<>>) = {}
BY DEF Items

-----------------------------------------------------------------------------
(* Components.                                                             *)

\* The components of each command.
LEMMA ComponentsOf ==
    /\ Components("home") = HelpMenu
    /\ Components("category") = CategoryMenu
    /\ Components("search") = TrackMenu
    /\ Components("emojis") = EmojiButtons
    /\ Components("avatar") = ProfileButton
    /\ Components("playlist") = Pager(0)
    /\ Components("loop") = LoopButtons
    /\ Components("language") = LanguageButtons
<1>1. Components("home") = HelpMenu
  BY DEF Components
<1>2. Components("category") = CategoryMenu
  BY DEF Components
<1>3. Components("search") = TrackMenu
  BY DEF Components
<1>4. Components("emojis") = EmojiButtons
  BY DEF Components
<1>5. Components("avatar") = ProfileButton
  BY DEF Components
<1>6. Components("playlist") = Pager(0)
  BY DEF Components
<1>7. Components("loop") = LoopButtons
  BY DEF Components
<1>8. Components("language") = LanguageButtons
  BY DEF Components
<1> QED BY <1>1, <1>2, <1>3, <1>4, <1>5, <1>6, <1>7, <1>8

\* The three sources of components, and the values they are among.
LEMMA ShowsParts ==
    \A b : b \in Shows <=>
        \/ \E k \in Kinds : b \in Components(k)
        \/ b = <<"avatar", "user_profile">>
        \/ \E n \in (-1 .. LastPage + 1) \cup {NaN} : b = <<"playlist", n>>
<1> DEFINE A == UNION {Components(k) : k \in Kinds}
           C == {<<"playlist", n>> : n \in (-1 .. LastPage + 1) \cup {NaN}}
<1>1. Shows = A \cup {<<"avatar", "user_profile">>} \cup C
  BY DEF Shows
<1>2. \A b : b \in A <=> \E k \in Kinds : b \in Components(k)
  OBVIOUS
<1>3. \A b : b \in C <=> \E n \in (-1 .. LastPage + 1) \cup {NaN} : b = <<"playlist", n>>
  OBVIOUS
<1> HIDE DEF A, C
<1> QED BY <1>1, <1>2, <1>3

\* The same of the values.
LEMMA ValuesParts ==
    /\ <<"none">> \in Values
    /\ \A k \in Kinds : Components(k) \subseteq Values /\ FirstText(k) \in Values
    /\ <<"avatar", "user_profile">> \in Values /\ <<"loop", "undefined">> \in Values
    /\ <<"language", "undefined">> \in Values
    /\ <<"category", "type">> \in Values /\ <<"home", "name">> \in Values
    /\ \A n \in (-1 .. LastPage + 1) \cup {NaN} : <<"playlist", n>> \in Values /\ <<"list", n>> \in Values
<1> DEFINE A == UNION {Components(k) : k \in Kinds}
           B == {FirstText(k) : k \in Kinds}
           C == {<<k, n>> : k \in {"playlist", "list"}, n \in (-1 .. LastPage + 1) \cup {NaN}}
<1>1. Values = {<<"none">>} \cup A \cup B
                 \cup {<<"avatar", "user_profile">>, <<"loop", "undefined">>, <<"language", "undefined">>}
                 \cup C \cup {<<"category", "type">>, <<"home", "name">>}
  BY DEF Values
<1>2. \A k \in Kinds : Components(k) \subseteq A /\ FirstText(k) \in B
  OBVIOUS
<1>3. \A n \in (-1 .. LastPage + 1) \cup {NaN} : <<"playlist", n>> \in C /\ <<"list", n>> \in C
  OBVIOUS
<1> HIDE DEF A, B, C
<1> QED BY <1>1, <1>2, <1>3

\* What a component looks like that some message shows.
LEMMA ShowsForm ==
    ASSUME NEW b \in Shows
    PROVE  /\ b[1] \in Kinds
           /\ b[1] = "playlist" => b[2] \in (-1 .. LastPage + 1) \cup {NaN}
           /\ b[1] = "home" => b[2] \in {"home", "type"}
           /\ b[1] = "category" => b[2] \in {"home", "name"}
           /\ b[1] = "language" => b[2] \in Languages
           /\ b[1] = "loop" => b \in LoopButtons
           /\ b[1] = "avatar" => b \in {<<"avatar", "server_profile">>, <<"avatar", "user_profile">>}
<1> USE BoundsAssumption
<1>1. CASE b = <<"avatar", "user_profile">>
  BY <1>1 DEF Kinds, Buttons
<1>2. CASE b \in {<<"playlist", n>> : n \in (-1 .. LastPage + 1) \cup {NaN}}
  BY <1>2 DEF Kinds, Buttons
<1>3. ASSUME NEW k \in Kinds, b \in Components(k) PROVE b \in HelpMenu \/ b \in CategoryMenu \/ b \in TrackMenu
             \/ b \in EmojiButtons \/ b \in ProfileButton \/ b \in Pager(0) \/ b \in LoopButtons \/ b \in LanguageButtons
  BY <1>3, ComponentsOf DEF Kinds, Buttons, Menus
<1>4. CASE b \in HelpMenu \/ b \in CategoryMenu \/ b \in TrackMenu
  BY <1>4 DEF HelpMenu, CategoryMenu, TrackMenu, Kinds, Menus
<1>5. CASE b \in EmojiButtons \/ b \in ProfileButton \/ b \in LoopButtons
  BY <1>5 DEF EmojiButtons, ProfileButton, LoopButtons, Kinds, Buttons
<1>6. CASE b \in Pager(0)
  BY <1>6 DEF Pager, Add, NaN, Kinds, Buttons
<1>7. CASE b \in LanguageButtons
  BY <1>7 DEF LanguageButtons, Kinds, Buttons
<1> QED BY <1>1, <1>2, <1>3, <1>4, <1>5, <1>6, <1>7, ShowsParts

\* A component belongs to its command.
LEMMA ComponentForm ==
    ASSUME NEW k \in Kinds, NEW b \in Components(k)
    PROVE  b \in Shows /\ OfKind(k, b)
<1> USE BoundsAssumption
<1>1. b \in Shows
  BY ShowsParts
<1>2. \A c \in HelpMenu : OfKind("home", c)
  BY DEF OfKind, HelpMenu
<1>3. \A c \in CategoryMenu : OfKind("category", c)
  BY DEF OfKind, CategoryMenu
<1>4. \A c \in TrackMenu : OfKind("search", c)
  BY DEF OfKind, TrackMenu
<1>5. \A c \in EmojiButtons : OfKind("emojis", c)
  BY DEF OfKind, EmojiButtons
<1>6. \A c \in ProfileButton : OfKind("avatar", c)
  BY DEF OfKind, ProfileButton
<1>7. \A c \in Pager(0) : OfKind("playlist", c)
  BY DEF OfKind, Pager, Add, NaN
<1>8. \A c \in LoopButtons : OfKind("loop", c)
  BY DEF OfKind, LoopButtons
<1>9. \A c \in LanguageButtons : OfKind("language", c)
  BY DEF OfKind, LanguageButtons
<1> QED BY <1>1, <1>2, <1>3, <1>4, <1>5, <1>6, <1>7, <1>8, <1>9, ComponentsOf DEF Kinds, Buttons, Menus

\* The components that a message is posted with.
LEMMA PostedShows ==
    ASSUME NEW k \in Kinds
    PROVE  Components(k) \subseteq Shows /\ \A b \in Components(k) : OfKind(k, b)
BY ComponentForm

\* The first text is one of the command.
LEMMA FirstTexts ==
    ASSUME NEW k \in Kinds
    PROVE  FirstText(k) \in Values /\ Says(k, FirstText(k))
<1> USE BoundsAssumption
<1>1. FirstText(k) \in Values
  BY ValuesParts
<1>2. CASE k = "playlist"
  <2>1. FirstText(k) = <<k, 0>>
    BY <1>2 DEF FirstText
  <2> QED BY <1>1, <1>2, <2>1 DEF Says, Pages
<1>3. CASE k = "emojis"
  <2>1. FirstText(k) = <<"list", 0>>
    BY <1>3 DEF FirstText
  <2> QED BY <1>1, <1>3, <2>1 DEF Says
<1>4. CASE k \notin {"playlist", "emojis"}
  <2>1. FirstText(k) = <<k, "first">>
    BY <1>4 DEF FirstText
  <2> QED BY <1>1, <1>4, <2>1 DEF Says
<1> QED BY <1>2, <1>3, <1>4

\* Components and page texts are values.
LEMMA AreValues ==
    /\ Shows \subseteq Values
    /\ \A n \in (-1 .. LastPage + 1) \cup {NaN} : <<"playlist", n>> \in Values /\ <<"list", n>> \in Values
    /\ \A k \in Helps, x \in {"home", "type", "name"} : <<k, x>> \in Values
    /\ <<"loop", "undefined">> \in Values /\ <<"none">> \in Values
<1>1. Shows \subseteq Values
  BY ShowsParts, ValuesParts
<1>2. HelpMenu \subseteq Values /\ CategoryMenu \subseteq Values
  BY ComponentsOf, ValuesParts DEF Kinds, Menus
<1>3. \A k \in Helps, x \in {"home", "type", "name"} : <<k, x>> \in Values
  BY <1>2, ValuesParts DEF HelpMenu, CategoryMenu, Helps
<1> QED BY <1>1, <1>3, ValuesParts

\* The texts of the pages.
LEMMA PageTexts ==
    ASSUME NEW n \in Pages \cup {NaN}
    PROVE  <<"playlist", n>> \in Values /\ <<"list", n>> \in Values
<1>1. n \in (-1 .. LastPage + 1) \cup {NaN}
  BY BoundsAssumption DEF Pages
<1> QED BY <1>1, ValuesParts

\* The page that a button leads to, and the buttons of that page.
LEMMA PagesWrap ==
    ASSUME NEW n \in (-1 .. LastPage + 1) \cup {NaN}
    PROVE  /\ n # NaN => Wrap(n) \in Pages
           /\ Wrap(NaN) = NaN
           /\ Wrap(n) \in Pages \cup {NaN}
<1> USE BoundsAssumption
<1>1. Wrap(NaN) = NaN
  BY DEF Wrap
<1>2. ASSUME n # NaN PROVE Wrap(n) \in Pages
  <2>1. n \in Int
    BY <1>2
  <2>2. CASE n > LastPage
    BY <1>2, <2>1, <2>2 DEF Wrap, Pages
  <2>3. CASE n < 0
    BY <1>2, <2>1, <2>3 DEF Wrap, Pages
  <2>4. CASE ~(n > LastPage) /\ ~(n < 0)
    BY <1>2, <2>1, <2>4 DEF Wrap, Pages
  <2> QED BY <2>2, <2>3, <2>4
<1> QED BY <1>1, <1>2

\* The buttons of a page.
LEMMA PagerForm ==
    ASSUME NEW n \in Pages \cup {NaN}
    PROVE  /\ Pager(n) \subseteq Shows
           /\ \A b \in Pager(n) : b[1] = "playlist"
           /\ n # NaN => \A b \in Pager(n) : OfKind("playlist", b)
<1> USE BoundsAssumption
<1>1. CASE n = NaN
  <2>1. Pager(n) = {<<"playlist", NaN>>}
    BY <1>1 DEF Pager, Add
  <2>2. <<"playlist", NaN>> \in Shows
    BY ShowsParts
  <2> QED BY <1>1, <2>1, <2>2
<1>2. CASE n # NaN
  <2>1. n \in 0 .. LastPage
    BY <1>2 DEF Pages
  <2>2. Pager(n) = {<<"playlist", n - 1>>, <<"playlist", n + 1>>}
    BY <1>2, <2>1 DEF Pager, Add
  <2>3. n - 1 \in -1 .. LastPage + 1 /\ n + 1 \in -1 .. LastPage + 1
    BY <2>1
  <2>4. Pager(n) \subseteq Shows
    BY <2>2, <2>3, ShowsParts
  <2> QED BY <1>2, <2>2, <2>3, <2>4 DEF OfKind
<1> QED BY <1>1, <1>2

\* A button turns an emoji list to a page.
LEMMA TurnsToPage ==
    ASSUME NEW n \in Pages, NEW b
    PROVE  Turn(n, b) \in Pages
<1> USE BoundsAssumption DEF Pages
<1>1. CASE b = <<"emojis", "forward">>
  <2>1. Turn(n, b) = IF n + 1 \in Pages THEN n + 1 ELSE 0
    BY <1>1 DEF Turn
  <2> QED BY <2>1
<1>2. CASE b = <<"emojis", "backward">> /\ b # <<"emojis", "forward">>
  <2>1. Turn(n, b) = IF n - 1 \in Pages THEN n - 1 ELSE LastPage
    BY <1>2 DEF Turn
  <2> QED BY <2>1
<1>3. CASE b # <<"emojis", "backward">> /\ b # <<"emojis", "forward">>
  <2>1. Turn(n, b) = n
    BY <1>3 DEF Turn
  <2> QED BY <2>1
<1> QED BY <1>1, <1>2, <1>3

-----------------------------------------------------------------------------
(* What handlers call, draw and queue.                                     *)

\* Messages without a command and presses that are over are told apart.
LEMMA Absent == None \notin Posted /\ None \notin Pressed /\ Past \notin Pressed
<1>1. \A x \in Posted : x.kind \in Kinds
  BY DEF Posted
<1>2. \A x \in Pressed : x.kind = "press"
  BY DEF Pressed
<1>3. None.kind = "none" /\ Past.kind = "past" /\ "none" \notin Kinds
  BY DEF None, Past, Kinds, Menus, Buttons
<1> QED BY <1>1, <1>2, <1>3

\* A handler begins with a call of its own command.
LEMMA FirstCallForm ==
    ASSUME NEW c \in Messages, NEW u, NEW b, menu[c] \in Posted, NEW x \in FirstCalls(c, u, b)
    PROVE  /\ x \in Calls /\ x # "change"
           /\ x = "editParent" =>
                 /\ menu[c].kind \in {"home", "category", "playlist", "loop"}
                 /\ menu[c].kind = "category" => b[2] \in {"home", "name"}
           /\ x = "defer" => menu[c].kind = "language"
           /\ x = "deferUpdate" => menu[c].kind = "avatar"
<1> DEFINE k == menu[c].kind
<1>1. k \in Kinds
  BY DEF Posted
<1>2. CASE k \in {"home", "category", "search", "playlist"} /\ u # menu[c].by
  <2>1. FirstCalls(c, u, b) = {"refuse"}
    BY <1>2 DEF FirstCalls
  <2> QED BY <2>1 DEF Calls
<1>3. CASE k \in {"home", "playlist"} /\ u = menu[c].by
  <2>1. FirstCalls(c, u, b) = {"editParent"}
    BY <1>3 DEF FirstCalls
  <2> QED BY <1>3, <2>1 DEF Calls
<1>4. CASE k = "category" /\ u = menu[c].by /\ b[2] \in {"home", "name"}
  <2>1. FirstCalls(c, u, b) = {"editParent"}
    BY <1>4 DEF FirstCalls
  <2> QED BY <1>4, <2>1 DEF Calls
<1>5. CASE k = "category" /\ u = menu[c].by /\ b[2] \notin {"home", "name"}
  <2>1. FirstCalls(c, u, b) = {"none"}
    BY <1>5 DEF FirstCalls
  <2> QED BY <2>1 DEF Calls
<1>6. CASE k = "search" /\ u = menu[c].by
  <2>1. FirstCalls(c, u, b) = {"fetch"}
    BY <1>6 DEF FirstCalls
  <2> QED BY <2>1 DEF Calls
<1>7. CASE k = "loop"
  <2>1. FirstCalls(c, u, b) = {"refuse", "editParent"}
    BY <1>7 DEF FirstCalls
  <2> QED BY <1>7, <2>1 DEF Calls
<1>8. CASE k = "language"
  <2>1. FirstCalls(c, u, b) = {"defer"}
    BY <1>8 DEF FirstCalls
  <2> QED BY <1>8, <2>1 DEF Calls
<1>9. CASE k = "avatar"
  <2>1. FirstCalls(c, u, b) = {"deferUpdate"}
    BY <1>9 DEF FirstCalls
  <2> QED BY <1>9, <2>1 DEF Calls
<1>10. CASE k = "emojis"
  <2>1. FirstCalls(c, u, b) = {"none"}
    BY <1>10 DEF FirstCalls
  <2> QED BY <2>1 DEF Calls
<1> QED BY <1>1, <1>2, <1>3, <1>4, <1>5, <1>6, <1>7, <1>8, <1>9, <1>10 DEF Kinds, Menus, Buttons

\* What editParent draws, on a press of any command and on one of its own.
LEMMA DrawnForm ==
    ASSUME NEW c \in Messages, NEW b \in Shows, NEW old \in SUBSET Shows,
           menu[c].kind \in {"home", "category", "playlist", "loop"},
           menu[c].kind = "category" => b[2] \in {"home", "name"},
           menu[c].kind = "home" => b[1] \in Helps
    PROVE  LET d == Drawn(c, b, old) IN
           /\ d.text \in Values
           /\ d.shown \in SUBSET Shows
           /\ menu[c].kind \in Helps => \A x \in d.shown : x \in old \/ x[1] \in Helps
           /\ OfKind(menu[c].kind, b) /\ (\A x \in old : OfKind(menu[c].kind, x)) =>
                 Says(menu[c].kind, d.text) /\ \A x \in d.shown : OfKind(menu[c].kind, x)
<1> DEFINE k == menu[c].kind
           d == Drawn(c, b, old)
<1> USE BoundsAssumption
<1>1. CASE k = "playlist"
  <2> DEFINE n == Wrap(Number(b))
  <2>1. d = [text |-> <<"playlist", n>>, shown |-> Pager(n)]
    BY <1>1 DEF Drawn
  <2>2. Number(b) \in (-1 .. LastPage + 1) \cup {NaN}
    BY ShowsForm DEF Number
  <2>3. n \in Pages \cup {NaN}
    BY <2>2, PagesWrap
  <2>4. <<"playlist", n>> \in Values
    BY <2>3, PageTexts
  <2>5. Pager(n) \subseteq Shows
    BY <2>3, PagerForm
  <2>6. ASSUME OfKind(k, b) PROVE Says(k, <<"playlist", n>>) /\ \A x \in Pager(n) : OfKind(k, x)
    <3>1. Number(b) = b[2] /\ b[2] \in -1 .. LastPage + 1
      BY <1>1, <2>6 DEF OfKind, Number
    <3>2. Number(b) # NaN
      BY <3>1 DEF NaN
    <3>3. n \in Pages
      BY <2>2, <3>2, PagesWrap
    <3>4. n # NaN
      BY <3>3 DEF NaN, Pages
    <3> QED BY <1>1, <2>3, <3>3, <3>4, PagerForm DEF Says
  <2> HIDE DEF n
  <2> QED BY <1>1, <2>1, <2>4, <2>5, <2>6 DEF Helps
<1>2. CASE k = "loop"
  <2>1. d = [text |-> IF b[1] = "loop" THEN b ELSE <<"loop", "undefined">>, shown |-> old]
    BY <1>2 DEF Drawn
  <2>2. b \in Values /\ <<"loop", "undefined">> \in Values
    BY AreValues
  <2>3. OfKind(k, b) => Says(k, b) /\ b[1] = "loop"
    BY <1>2 DEF OfKind, Says
  <2> QED BY <1>2, <2>1, <2>2, <2>3 DEF Helps
<1>3. CASE k \in Helps
  <2>1. d = [text |-> <<k, b[2]>>, shown |-> IF b[2] = "home" THEN Components(k) ELSE old]
    BY <1>3 DEF Drawn, Helps
  <2>2. b[2] \in {"home", "type", "name"}
    BY <1>3, ShowsForm DEF Helps
  <2>3. <<k, b[2]>> \in Values
    BY <1>3, <2>2, AreValues
  <2>4. k \in Kinds
    BY <1>3 DEF Helps, Kinds, Menus
  <2>5. Components(k) \subseteq Shows /\ \A x \in Components(k) : OfKind(k, x)
    BY <2>4, PostedShows
  <2>6. \A x \in Components(k) : x[1] \in Helps
    BY <1>3, <2>5 DEF OfKind
  <2>7. Says(k, <<k, b[2]>>)
    BY <1>3 DEF Says, Helps
  <2> QED BY <2>1, <2>3, <2>5, <2>6, <2>7
<1> QED BY <1>1, <1>2, <1>3 DEF Helps

\* The clearing edit is an edit of every command.
LEMMA ClearForm ==
    /\ Clear = <<ClearEdit>> /\ ClearEdit \in Edited /\ ClearEdit.shown = {}
    /\ \A k : Own(k, ClearEdit)
BY DEF Clear, ClearEdit, Edit, Edited, Own

\* What a press queues on an emoji list.
LEMMA EmojiForm ==
    ASSUME NEW n \in Pages, NEW b
    PROVE  \/ EmojiEdits(n, b) = <<>>
           \/ \E e \in Edited : EmojiEdits(n, b) = <<e>> /\ Own("emojis", e)
<1> USE BoundsAssumption
<1>1. CASE b[1] = "emojis" /\ b[2] = "delete"
  <2> DEFINE e == Edit(Same, {}, TRUE)
  <2>1. EmojiEdits(n, b) = <<e>>
    BY <1>1 DEF EmojiEdits
  <2>2. e \in Edited /\ Own("emojis", e)
    BY DEF Edit, Edited, Own
  <2> QED BY <2>1, <2>2
<1>2. CASE b[1] = "emojis" /\ b[2] # "delete"
  <2> DEFINE t == <<"list", Turn(n, b)>>
             e == Edit(t, Components("emojis"), FALSE)
  <2>1. EmojiEdits(n, b) = <<e>>
    BY <1>2 DEF EmojiEdits
  <2>2. t \in Values
    BY TurnsToPage, PageTexts
  <2>3. Components("emojis") \subseteq Shows /\ \A x \in Components("emojis") : OfKind("emojis", x)
    BY PostedShows DEF Kinds, Buttons
  <2>4. Says("emojis", t)
    BY DEF Says
  <2> HIDE DEF t
  <2>5. e \in Edited /\ Own("emojis", e)
    BY <2>2, <2>3, <2>4 DEF Edit, Edited, Own
  <2> QED BY <2>1, <2>5
<1>3. CASE b[1] # "emojis"
  BY <1>3 DEF EmojiEdits
<1> QED BY <1>1, <1>2, <1>3

-----------------------------------------------------------------------------
(* The first state, and the steps of handlers.                             *)

\* Nothing is posted at first.
LEMMA CollectorsInit == Init => IInv
<1> SUFFICES ASSUME Init PROVE IInv
  OBVIOUS
<1> USE DEF Init
<1>1. Types
  <2>1. text \in [Messages -> Values]
    BY ValuesParts
  <2>2. edits \in [Messages -> Seq(Edited)]
    OBVIOUS
  <2>3. page \in [Messages -> Pages]
    BY BoundsAssumption DEF Pages
  <2>4. hand \in [Presses -> [Messages -> Calls]]
    BY DEF Calls
  <2>5. menu \in [Messages -> Posted \cup {None}] /\ press \in [Presses -> Pressed \cup {None, Past}]
    OBVIOUS
  <2>6. shown \in [Messages -> SUBSET Shows] /\ live \in [Messages -> BOOLEAN] /\ acked \in [Presses -> BOOLEAN]
    OBVIOUS
  <2> QED BY <2>1, <2>2, <2>3, <2>4, <2>5, <2>6 DEF Types
<1>2. Blank /\ HelpShown /\ Cleared
  BY DEF Blank, HelpShown, Cleared
<1>3. Role /\ HelpPressed
  BY Absent DEF Role, HelpPressed
<1>4. Apart
  BY DEF Apart, OwnShown, OwnPressed
<1> QED BY <1>1, <1>2, <1>3, <1>4 DEF IInv, TInv

\* A handler goes on: only its own call changes, and a press is over with the
\* last of its handlers.
LEMMA Continued ==
    ASSUME Types, NEW p \in Presses, NEW c \in Messages, NEW at, NEW next \in Calls,
           NEW ack \in BOOLEAN, Continues(p, c, at, next, ack)
    PROVE  /\ acked' \in [Presses -> BOOLEAN]
           /\ hand' \in [Presses -> [Messages -> Calls]]
           /\ press' \in [Presses -> Pressed \cup {None, Past}]
           /\ hand[p][c] = at /\ hand'[p][c] = next
           /\ \A q \in Presses, d \in Messages : q # p \/ d # c => hand'[q][d] = hand[q][d]
           /\ \A q \in Presses : \/ press'[q] = press[q]
                                 \/ press'[q] = Past /\ \A d \in Messages : hand'[q][d] = "none"
<1> USE DEF Types
<1>1. hand[p][c] = at /\ hand' = [hand EXCEPT ![p][c] = next]
  BY DEF Continues
<1>2. hand' \in [Presses -> [Messages -> Calls]] /\ hand'[p][c] = next
  BY <1>1
<1>3. \A q \in Presses, d \in Messages : q # p \/ d # c => hand'[q][d] = hand[q][d]
  BY <1>1
<1>6. acked' \in [Presses -> BOOLEAN]
  <2>1. PICK x \in BOOLEAN : acked' = [acked EXCEPT ![p] = x]
    BY DEF Continues
  <2> QED BY <2>1
<1>4. CASE \A d \in Messages : hand'[p][d] = "none"
  <2>1. press' = [press EXCEPT ![p] = Past]
    BY <1>4 DEF Continues
  <2>2. press' \in [Presses -> Pressed \cup {None, Past}]
    BY <2>1
  <2>3. \A q \in Presses : press'[q] = IF q = p THEN Past ELSE press[q]
    BY <2>1
  <2> QED BY <1>1, <1>2, <1>3, <1>4, <1>6, <2>2, <2>3
<1>5. CASE ~ \A d \in Messages : hand'[p][d] = "none"
  <2>1. press' = press
    BY <1>5 DEF Continues
  <2> QED BY <1>1, <1>2, <1>3, <1>6, <2>1
<1> QED BY <1>4, <1>5

\* The call a handler may await after another one.
Follows(at, next) ==
    /\ at \in Calls \ {"none"}
    /\ \/ next \in {"none", "refuse", "announce"}
       \/ next = "change" /\ at = "defer"

\* What is known of presses and handlers stays known of those that go on.
LEMMA HandlersKept ==
    ASSUME TInv, NEW p \in Presses, NEW c \in Messages, NEW at, NEW next, Follows(at, next),
           NEW ack \in BOOLEAN, Continues(p, c, at, next, ack), menu' = menu
    PROVE  /\ acked' \in [Presses -> BOOLEAN]
           /\ hand' \in [Presses -> [Messages -> Calls]]
           /\ press' \in [Presses -> Pressed \cup {None, Past}]
           /\ Role' /\ HelpPressed'
           /\ OwnPressed => OwnPressed'
           /\ \A m \in Messages : Busy(m)' => Busy(m)
           /\ Busy(c) /\ Busy(press[p].on)
<1>1. next \in Calls /\ at # "none"
  BY DEF Follows, Calls
<1>2. /\ acked' \in [Presses -> BOOLEAN]
      /\ hand' \in [Presses -> [Messages -> Calls]]
      /\ press' \in [Presses -> Pressed \cup {None, Past}]
      /\ hand[p][c] = at /\ hand'[p][c] = next
      /\ \A q \in Presses, d \in Messages : q # p \/ d # c => hand'[q][d] = hand[q][d]
      /\ \A q \in Presses : \/ press'[q] = press[q]
                            \/ press'[q] = Past /\ \A d \in Messages : hand'[q][d] = "none"
  BY <1>1, Continued DEF TInv
<1>3. \A q \in Presses, d \in Messages :
         hand'[q][d] # "none" => hand[q][d] # "none" /\ press'[q] = press[q]
  BY <1>1, <1>2
<1>4. \A q \in Presses, d \in Messages :
         hand'[q][d] \in {"editParent", "deferUpdate"} => hand'[q][d] = hand[q][d]
  BY <1>2 DEF Follows
<1>5. \A q \in Presses, d \in Messages :
         hand'[q][d] \in {"defer", "change"} => hand[q][d] \in {"defer", "change"}
  BY <1>2 DEF Follows
<1>6. Role'
  BY <1>3, <1>4, <1>5 DEF TInv, Role
<1>7. HelpPressed'
  <2>1. \A q \in Presses : press'[q] \in Pressed => press'[q] = press[q]
    BY <1>2, Absent
  <2> QED BY <2>1 DEF TInv, HelpPressed
<1>8. OwnPressed => OwnPressed'
  BY <1>3 DEF OwnPressed
<1>9. \A m \in Messages : Busy(m)' => Busy(m)
  BY <1>3 DEF Busy
<1>10. Busy(c) /\ Busy(press[p].on)
  BY <1>1, <1>2 DEF Busy
<1> QED BY <1>2, <1>6, <1>7, <1>8, <1>9, <1>10

\* What is known of messages stays known if they and their collectors do not
\* change and no handler begins.
LEMMA MessagesKept ==
    ASSUME TInv, Cleared, UNCHANGED <<menu, live, shown, text, edits, raced, kept>>,
           \A m \in Messages : Busy(m)' => Busy(m)
    PROVE  Blank' /\ HelpShown' /\ (OwnShown => OwnShown') /\ Cleared'
<1>1. \A m \in Messages : Pending(m)' = Pending(m)
  BY DEF Pending
<1>2. Blank'
  BY DEF TInv, Blank
<1>3. HelpShown'
  BY <1>1 DEF TInv, HelpShown
<1>4. OwnShown => OwnShown'
  BY <1>1 DEF OwnShown
<1>5. Cleared'
  BY <1>1 DEF Cleared, Gone
<1> QED BY <1>2, <1>3, <1>4, <1>5

\* Steps that change nothing but the handler.
LEMMA QuietStep ==
    ASSUME IInv, NEW p \in Presses, NEW c \in Messages,
           Declines(p, c) \/ DefersLanguage(p, c) \/ Rejects(p, c) \/ FetchesTrack(p, c)
    PROVE  IInv'
<1>1. PICK at, next, ack :
         /\ ack \in BOOLEAN /\ Follows(at, next) /\ Continues(p, c, at, next, ack)
         /\ UNCHANGED <<menu, live, shown, text, edits, page, lang, crossed, raced, kept>>
  <2>1. CASE Declines(p, c)
    BY <2>1 DEF Declines, Answers, Follows, Calls
  <2>2. CASE DefersLanguage(p, c)
    <3>1. CASE Answers(p, c, "defer", "change")
      BY <2>2, <3>1 DEF DefersLanguage, Answers, Follows, Calls
    <3>2. CASE Answers(p, c, "defer", "none")
      BY <2>2, <3>2 DEF DefersLanguage, Answers, Follows, Calls
    <3> QED BY <2>2, <3>1, <3>2 DEF DefersLanguage
  <2>3. CASE Rejects(p, c)
    <3>1. hand[p][c] \in Calls /\ acked[p] \in BOOLEAN
      BY DEF IInv, TInv, Types
    <3> QED BY <2>3, <3>1 DEF Rejects, Follows
  <2>4. CASE FetchesTrack(p, c)
    <3>1. acked[p] \in BOOLEAN
      BY DEF IInv, TInv, Types
    <3> QED BY <2>4, <3>1 DEF FetchesTrack, Follows, Calls
  <2> QED BY <2>1, <2>2, <2>3, <2>4
<1>2. /\ acked' \in [Presses -> BOOLEAN]
      /\ hand' \in [Presses -> [Messages -> Calls]]
      /\ press' \in [Presses -> Pressed \cup {None, Past}]
      /\ Role' /\ HelpPressed'
      /\ OwnPressed => OwnPressed'
      /\ \A m \in Messages : Busy(m)' => Busy(m)
  BY <1>1, HandlersKept DEF IInv
<1>3. Blank' /\ HelpShown' /\ (OwnShown => OwnShown') /\ Cleared'
  BY <1>1, <1>2, MessagesKept DEF IInv
<1>4. Types'
  BY <1>1, <1>2 DEF IInv, TInv, Types
<1>5. (crossed \/ Apart)'
  BY <1>1, <1>2, <1>3 DEF IInv, Apart
<1> QED BY <1>2, <1>3, <1>4, <1>5 DEF IInv, TInv

-----------------------------------------------------------------------------
(* Steps that change messages.                                             *)

\* An edit is queued on one message.
LEMMA Pushed ==
    ASSUME Types, NEW c \in Messages, NEW e \in Edited,
           edits' = [edits EXCEPT ![c] = @ \o <<e>>]
    PROVE  /\ edits' \in [Messages -> Seq(Edited)]
           /\ Pending(c)' = Pending(c) \cup {e}
           /\ \A m \in Messages : m # c => edits'[m] = edits[m] /\ Pending(m)' = Pending(m)
<1>1. edits[c] \in Seq(Edited)
  BY DEF Types
<1>2. edits'[c] = edits[c] \o <<e>>
  BY DEF Types
<1>3. Pending(c)' = Pending(c) \cup {e} /\ edits'[c] \in Seq(Edited)
  BY <1>1, <1>2, Queued DEF Pending
<1>4. \A m \in Messages : m # c => edits'[m] = edits[m] /\ Pending(m)' = Pending(m)
  BY DEF Types, Pending
<1>5. edits' \in [Messages -> Seq(Edited)]
  BY <1>1, <1>2, <1>3 DEF Types
<1> QED BY <1>3, <1>4, <1>5

\* A collector stops.
LEMMA StopKept ==
    ASSUME TInv, Cleared, NEW c \in Messages, Stops(c), UNCHANGED <<menu, shown, text, raced, kept>>,
           \A m \in Messages : Busy(m)' => Busy(m)
    PROVE  /\ live' \in [Messages -> BOOLEAN] /\ edits' \in [Messages -> Seq(Edited)]
           /\ Blank' /\ HelpShown' /\ (OwnShown => OwnShown') /\ Cleared'
<1> USE DEF TInv
<1>1. live' \in [Messages -> BOOLEAN] /\ ~live'[c] /\ \A m \in Messages : m # c => live'[m] = live[m]
  BY DEF Types, Stops
<1>2. CASE live[c]
  <2>1. edits' = [edits EXCEPT ![c] = @ \o <<ClearEdit>>]
    BY <1>2, ClearForm DEF Stops
  <2>2. /\ edits' \in [Messages -> Seq(Edited)]
        /\ Pending(c)' = Pending(c) \cup {ClearEdit}
        /\ \A m \in Messages : m # c => edits'[m] = edits[m] /\ Pending(m)' = Pending(m)
    BY <2>1, Pushed, ClearForm
  <2>3. menu[c] # None
    BY <1>2 DEF Blank
  <2>4. Blank'
    BY <1>1, <2>2, <2>3 DEF Blank
  <2>5. HelpShown'
    BY <2>2, ClearForm DEF HelpShown
  <2>6. OwnShown => OwnShown'
    BY <2>2, ClearForm DEF OwnShown
  <2>7. Gone(c)'
    BY <2>2, ClearForm DEF Gone
  <2>8. \A m \in Messages : m # c /\ Gone(m) => Gone(m)'
    BY <2>2 DEF Gone
  <2>9. Cleared'
    BY <1>1, <2>7, <2>8 DEF Cleared
  <2> QED BY <1>1, <2>2, <2>4, <2>5, <2>6, <2>9
<1>3. CASE ~live[c]
  <2>1. edits' = edits /\ live' = live
    BY <1>1, <1>3 DEF Stops, Types
  <2> QED BY <1>1, <2>1, MessagesKept DEF Types
<1> QED BY <1>2, <1>3

\* A search has added its track.
LEMMA AnnounceStep ==
    ASSUME IInv, NEW p \in Presses, NEW c \in Messages, AnnouncesTrack(p, c)
    PROVE  IInv'
<1> USE DEF AnnouncesTrack
<1>1. Follows("announce", "none") /\ acked[p] \in BOOLEAN
  BY DEF Follows, Calls, IInv, TInv, Types
<1>2. /\ acked' \in [Presses -> BOOLEAN]
      /\ hand' \in [Presses -> [Messages -> Calls]]
      /\ press' \in [Presses -> Pressed \cup {None, Past}]
      /\ Role' /\ HelpPressed'
      /\ OwnPressed => OwnPressed'
      /\ \A m \in Messages : Busy(m)' => Busy(m)
  BY <1>1, HandlersKept DEF IInv
<1>3. /\ live' \in [Messages -> BOOLEAN] /\ edits' \in [Messages -> Seq(Edited)]
      /\ Blank' /\ HelpShown' /\ (OwnShown => OwnShown') /\ Cleared'
  BY <1>2, StopKept DEF IInv
<1>4. Types'
  BY <1>2, <1>3 DEF IInv, TInv, Types
<1>5. (crossed \/ Apart)'
  BY <1>2, <1>3 DEF IInv, Apart
<1> QED BY <1>2, <1>3, <1>4, <1>5 DEF IInv, TInv

\* A collector's time is over.
LEMMA TimeStep ==
    ASSUME IInv, NEW c \in Messages, TimesOut(c)
    PROVE  IInv'
<1> USE DEF TimesOut
<1>1. \A m \in Messages : Busy(m)' => Busy(m)
  BY DEF Busy
<1>2. /\ live' \in [Messages -> BOOLEAN] /\ edits' \in [Messages -> Seq(Edited)]
      /\ Blank' /\ HelpShown' /\ (OwnShown => OwnShown') /\ Cleared'
  BY <1>1, StopKept DEF IInv
<1>3. Types'
  BY <1>2 DEF IInv, TInv, Types
<1>4. Role' /\ HelpPressed' /\ (OwnPressed => OwnPressed')
  BY DEF IInv, TInv, Role, HelpPressed, OwnPressed
<1>5. (crossed \/ Apart)'
  BY <1>2, <1>4 DEF IInv, Apart
<1> QED BY <1>2, <1>3, <1>4, <1>5 DEF IInv, TInv

\* The language that a button of any command stands for.
LEMMA ChosenForm ==
    ASSUME NEW b \in Shows
    PROVE  Chosen(b) \in Languages \cup {"undefined"} /\ <<"language", Chosen(b)>> \in Values
<1>1. CASE b[1] = "language"
  <2>1. Chosen(b) = b[2] /\ b[2] \in Languages
    BY <1>1, ShowsForm DEF Chosen
  <2>2. LanguageButtons \subseteq Values
    BY ComponentsOf, ValuesParts DEF Kinds, Buttons
  <2> QED BY <2>1, <2>2 DEF LanguageButtons
<1>2. CASE b[1] # "language"
  <2>1. Chosen(b) = "undefined"
    BY <1>2 DEF Chosen
  <2> QED BY <2>1, ValuesParts
<1> QED BY <1>1, <1>2

\* An edit of the text, or of text and components, of the handler's own message.
LEMMA EditQueued ==
    ASSUME TInv, Cleared, NEW c \in Messages, NEW e \in Edited, menu[c] # None,
           menu[c].kind # "home", Own(menu[c].kind, e),
           edits' = [edits EXCEPT ![c] = Append(@, e)],
           UNCHANGED <<menu, live, shown, text, raced, kept>>,
           Busy(c), \A m \in Messages : Busy(m)' => Busy(m)
    PROVE  /\ edits' \in [Messages -> Seq(Edited)]
           /\ Blank' /\ HelpShown' /\ (OwnShown => OwnShown') /\ Cleared'
<1>1. edits[c] \in Seq(Edited)
  BY DEF TInv, Types
<1>2. edits' = [edits EXCEPT ![c] = @ \o <<e>>]
  <2>1. Append(edits[c], e) = edits[c] \o <<e>>
    BY <1>1
  <2> QED BY <2>1
<1>3. /\ edits' \in [Messages -> Seq(Edited)]
      /\ Pending(c)' = Pending(c) \cup {e}
      /\ \A m \in Messages : m # c => edits'[m] = edits[m] /\ Pending(m)' = Pending(m)
  BY <1>2, Pushed DEF TInv
<1>4. Blank'
  BY <1>3 DEF TInv, Blank
<1>5. HelpShown'
  BY <1>3 DEF TInv, HelpShown
<1>6. OwnShown => OwnShown'
  BY <1>3 DEF OwnShown
<1>7. Cleared'
  <2>1. \A m \in Messages : m # c /\ Gone(m) => Gone(m)'
    BY <1>3 DEF Gone
  <2>2. Gone(c) => Gone(c)'
    BY <1>3 DEF Gone
  <2> QED BY <2>1, <2>2 DEF Cleared
<1> QED BY <1>3, <1>4, <1>5, <1>6, <1>7

\* The language of the guild is changed, or its update rejects.
LEMMA LanguageStep ==
    ASSUME IInv, NEW p \in Presses, NEW c \in Messages, ChangesLanguage(p, c)
    PROVE  IInv'
<1> DEFINE l == Chosen(press[p].what)
           e == Edit(<<"language", l>>, SameShown, FALSE)
<1>1. /\ Continues(p, c, "change", "none", acked[p])
      /\ edits' = [edits EXCEPT ![c] = Append(@, e)]
      /\ lang' \in {lang, l}
      /\ UNCHANGED <<menu, live, shown, text, page, crossed, raced, kept>>
  BY DEF ChangesLanguage
<1>2. Follows("change", "none") /\ hand[p][c] = "change" /\ acked[p] \in BOOLEAN
  BY <1>1 DEF Follows, Calls, Continues, IInv, TInv, Types
<1>3. /\ acked' \in [Presses -> BOOLEAN]
      /\ hand' \in [Presses -> [Messages -> Calls]]
      /\ press' \in [Presses -> Pressed \cup {None, Past}]
      /\ Role' /\ HelpPressed'
      /\ OwnPressed => OwnPressed'
      /\ \A m \in Messages : Busy(m)' => Busy(m)
      /\ Busy(c)
  BY <1>1, <1>2, HandlersKept DEF IInv
<1>4. press[p].what \in Shows /\ menu[c] # None /\ menu[c].kind = "language"
  BY <1>2 DEF IInv, TInv, Role, Pressed
<1>5. l \in Languages \cup {"undefined"} /\ <<"language", l>> \in Values
  BY <1>4, ChosenForm
<1>6. OwnPressed => l \in Languages
  BY <1>2, <1>4 DEF OwnPressed, OfKind, Chosen
<1> HIDE DEF l
<1>7. e \in Edited /\ Own("language", e)
  BY <1>5 DEF Edit, Edited, Own, Says
<1> HIDE DEF e
<1>8. /\ edits' \in [Messages -> Seq(Edited)]
      /\ Blank' /\ HelpShown' /\ (OwnShown => OwnShown') /\ Cleared'
  BY <1>1, <1>3, <1>4, <1>7, EditQueued DEF IInv
<1>9. Types'
  BY <1>1, <1>3, <1>5, <1>8 DEF IInv, TInv, Types
<1>10. (crossed \/ Apart)'
  BY <1>1, <1>3, <1>6, <1>8 DEF IInv, Apart
<1> QED BY <1>3, <1>8, <1>9, <1>10 DEF IInv, TInv

\* The profile of an avatar message is changed by an edit.
LEMMA UpdateStep ==
    ASSUME IInv, NEW p \in Presses, NEW c \in Messages, DefersUpdate(p, c)
    PROVE  IInv'
<1> USE DEF DefersUpdate, Answers
<1>1. Follows("deferUpdate", "none") /\ hand[p][c] = "deferUpdate"
  BY DEF Follows, Calls, Continues
<1>2. /\ acked' \in [Presses -> BOOLEAN]
      /\ hand' \in [Presses -> [Messages -> Calls]]
      /\ press' \in [Presses -> Pressed \cup {None, Past}]
      /\ Role' /\ HelpPressed'
      /\ OwnPressed => OwnPressed'
      /\ \A m \in Messages : Busy(m)' => Busy(m)
      /\ Busy(c)
  BY <1>1, HandlersKept DEF IInv
<1>4. CASE press[p].what[1] # "avatar"
  <2>1. edits' = edits
    BY <1>4
  <2>2. Blank' /\ HelpShown' /\ (OwnShown => OwnShown') /\ Cleared'
    BY <1>2, <2>1, MessagesKept DEF IInv
  <2>3. Types'
    BY <1>2, <2>1 DEF IInv, TInv, Types
  <2>4. (crossed \/ Apart)'
    BY <1>2, <2>2 DEF IInv, Apart
  <2> QED BY <1>2, <2>2, <2>3, <2>4 DEF IInv, TInv
<1>5. CASE press[p].what[1] = "avatar"
  <2> DEFINE b == press[p].what
             other == IF b[2] = "server_profile" THEN "user_profile" ELSE "server_profile"
             e == Edit(b, {<<"avatar", other>>}, FALSE)
  <2>1. b \in Shows /\ menu[c] # None /\ menu[c].kind = "avatar"
    BY <1>1 DEF IInv, TInv, Role, Pressed
  <2>2. <<"avatar", "server_profile">> \in Shows /\ <<"avatar", "user_profile">> \in Shows
    <3>1. <<"avatar", "server_profile">> \in Components("avatar") /\ "avatar" \in Kinds
      BY ComponentsOf DEF ProfileButton, Kinds, Buttons
    <3> QED BY <3>1, ShowsParts
  <2>3. {<<"avatar", other>>} \in SUBSET Shows
    BY <2>2
  <2>4. b \in Values
    BY <2>1, AreValues
  <2>5. Own("avatar", e)
    BY <1>5 DEF Own, Edit, Says, OfKind
  <2>6. e \in Edited
    BY <2>3, <2>4 DEF Edit, Edited
  <2>7. edits' = [edits EXCEPT ![c] = Append(@, e)]
    BY <1>5
  <2> HIDE DEF e
  <2>8. /\ edits' \in [Messages -> Seq(Edited)]
        /\ Blank' /\ HelpShown' /\ (OwnShown => OwnShown') /\ Cleared'
    BY <1>2, <2>1, <2>5, <2>6, <2>7, EditQueued DEF IInv
  <2>9. Types'
    BY <1>2, <2>8 DEF IInv, TInv, Types
  <2>10. (crossed \/ Apart)'
    BY <1>2, <2>8 DEF IInv, Apart
  <2> QED BY <1>2, <2>8, <2>9, <2>10 DEF IInv, TInv
<1> QED BY <1>4, <1>5

\* The pressed message is drawn again.
LEMMA DrawStep ==
    ASSUME IInv, NEW p \in Presses, NEW c \in Messages, EditsParent(p, c)
    PROVE  IInv'
<1> DEFINE m == press[p].on
           b == press[p].what
           d == Drawn(c, b, shown[m])
<1> USE DEF EditsParent, Answers
<1>1. Follows("editParent", "none") /\ hand[p][c] = "editParent"
  BY DEF Follows, Calls, Continues
<1>2. /\ acked' \in [Presses -> BOOLEAN]
      /\ hand' \in [Presses -> [Messages -> Calls]]
      /\ press' \in [Presses -> Pressed \cup {None, Past}]
      /\ Role' /\ HelpPressed'
      /\ OwnPressed => OwnPressed'
      /\ \A n \in Messages : Busy(n)' => Busy(n)
      /\ Busy(m)
  BY <1>1, HandlersKept DEF IInv
<1>4. /\ press[p] \in Pressed /\ menu[c] # None
      /\ menu[c].kind \in Menus <=> b[1] \in Menus
      /\ menu[c].kind = "home" => m = c
      /\ menu[c].kind \in {"home", "category", "playlist", "loop"}
      /\ menu[c].kind = "category" => b[2] \in {"home", "name"}
  BY <1>1 DEF IInv, TInv, Role
<1>5. m \in Messages /\ b \in Shows
  BY <1>4 DEF Pressed
<1>6. /\ menu[m] # None
      /\ menu[m].kind = "home" => b[1] \in Helps
  BY <1>4 DEF IInv, TInv, HelpPressed
<1>7. shown[m] \in SUBSET Shows
  BY <1>5 DEF IInv, TInv, Types
<1>8. /\ d.text \in Values
      /\ d.shown \in SUBSET Shows
      /\ menu[c].kind \in Helps => \A x \in d.shown : x \in shown[m] \/ x[1] \in Helps
      /\ OfKind(menu[c].kind, b) /\ (\A x \in shown[m] : OfKind(menu[c].kind, x)) =>
            Says(menu[c].kind, d.text) /\ \A x \in d.shown : OfKind(menu[c].kind, x)
  BY <1>4, <1>5, <1>6, <1>7, DrawnForm
<1>9. /\ text' = [text EXCEPT ![m] = d.text]
      /\ shown' = [shown EXCEPT ![m] = d.shown]
      /\ UNCHANGED <<menu, live, edits, page, lang, crossed, raced, kept>>
  OBVIOUS
<1> HIDE DEF m, b, d
<1>10. text' \in [Messages -> Values] /\ shown' \in [Messages -> SUBSET Shows]
  BY <1>5, <1>8, <1>9 DEF IInv, TInv, Types
<1>11. /\ text'[m] = d.text /\ shown'[m] = d.shown
       /\ \A n \in Messages : n # m => text'[n] = text[n] /\ shown'[n] = shown[n]
  BY <1>5, <1>9 DEF IInv, TInv, Types
<1>12. \A n \in Messages : Pending(n)' = Pending(n)
  BY <1>9 DEF Pending
<1>13. Types'
  BY <1>2, <1>9, <1>10 DEF IInv, TInv, Types
<1>14. Blank'
  BY <1>6, <1>9, <1>11 DEF IInv, TInv, Blank
<1>15. HelpShown'
  <2>1. menu[m].kind = "home" => \A x \in d.shown : x[1] \in Helps
    <3> SUFFICES ASSUME menu[m].kind = "home" PROVE \A x \in d.shown : x[1] \in Helps
      OBVIOUS
    <3>1. menu[c].kind \in Helps
      BY <1>4, <1>6 DEF Helps, Menus
    <3>2. \A x \in shown[m] : x[1] \in Helps
      BY <1>5, <1>6 DEF IInv, TInv, HelpShown
    <3> QED BY <1>8, <3>1, <3>2
  <2> QED BY <2>1, <1>9, <1>11, <1>12 DEF IInv, TInv, HelpShown
<1>16. OwnShown /\ OwnPressed => OwnShown'
  <2> SUFFICES ASSUME OwnShown, OwnPressed PROVE OwnShown'
    OBVIOUS
  <2>1. m = c /\ OfKind(menu[c].kind, b)
    BY <1>1 DEF OwnPressed, m, b
  <2>2. \A x \in shown[m] : OfKind(menu[c].kind, x)
    BY <2>1, <1>4 DEF OwnShown
  <2>3. Says(menu[m].kind, d.text) /\ \A x \in d.shown : OfKind(menu[m].kind, x)
    BY <1>8, <2>1, <2>2
  <2> QED BY <2>3, <1>9, <1>11, <1>12 DEF OwnShown
<1>17. Cleared'
  <2>1. \A n \in Messages : n # m /\ Gone(n) => Gone(n)'
    BY <1>2, <1>9, <1>11, <1>12 DEF Gone
  <2>2. \A n \in Messages : n = m /\ Gone(n) => Gone(n)'
    BY <1>2, <1>12 DEF Gone
  <2> QED BY <2>1, <2>2, <1>9 DEF IInv, Cleared
<1>18. (crossed \/ Apart)'
  BY <1>2, <1>9, <1>16 DEF IInv, Apart
<1> QED BY <1>2, <1>13, <1>14, <1>15, <1>17, <1>18 DEF IInv, TInv

\* The first edit under way is carried out.
LEMMA EditStep ==
    ASSUME IInv, NEW m \in Messages, IsEdited(m)
    PROVE  IInv'
<1> DEFINE e == Head(edits[m])
           rest == Tail(edits[m])
           stops == e.stop /\ live[m]
<1>1. edits[m] \in Seq(Edited) /\ edits[m] # <<>>
  BY DEF IsEdited, IInv, TInv, Types
<1>2. /\ e \in Edited /\ rest \in Seq(Edited)
      /\ Pending(m) = Items(rest) \cup {e}
  BY <1>1, Dequeued DEF Pending
<1>3. menu[m] # None
  BY <1>1 DEF IInv, TInv, Blank
<1>4. /\ text' = IF e.text = Same THEN text ELSE [text EXCEPT ![m] = e.text]
      /\ shown' = IF e.shown = SameShown THEN shown ELSE [shown EXCEPT ![m] = e.shown]
      /\ live' = [live EXCEPT ![m] = live[m] /\ ~e.stop]
      /\ edits' = [edits EXCEPT ![m] = IF stops THEN rest \o Clear ELSE rest]
      /\ raced' = IF e.shown = {} /\ (Busy(m) \/ rest # <<>>) THEN raced \cup {m} ELSE raced
      /\ UNCHANGED <<menu, page, press, acked, hand, lang, crossed, kept>>
  BY DEF IsEdited
<1> DEFINE after == IF stops THEN rest \o Clear ELSE rest
<1>5. /\ after \in Seq(Edited)
      /\ \A x \in Items(after) : x \in Pending(m) \/ x = ClearEdit
      /\ stops => ClearEdit \in Items(after)
      /\ ~stops => after = rest
  <2>1. CASE stops
    <3>1. after = rest \o <<ClearEdit>>
      BY <2>1, ClearForm
    <3>2. /\ rest \o <<ClearEdit>> \in Seq(Edited)
          /\ Items(rest \o <<ClearEdit>>) = Items(rest) \cup {ClearEdit}
      <4> HIDE DEF after, rest, stops
      <4>1. rest \in Seq(Edited) /\ ClearEdit \in Edited
        BY <1>2, ClearForm
      <4> QED BY ONLY <4>1, Queued
    <3> HIDE DEF after, rest
    <3> QED BY <1>2, <2>1, <3>1, <3>2, ClearForm
  <2>2. CASE ~stops
    <3>1. after = rest
      BY <2>2
    <3> HIDE DEF after, rest, stops
    <3> QED BY <1>2, <2>2, <3>1
  <2> QED BY <2>1, <2>2
<1>6. edits' = [edits EXCEPT ![m] = after]
  BY <1>4
<1>7. /\ e.text \in Values \cup {Same} /\ e.shown \in (SUBSET Shows) \cup {SameShown} /\ e.stop \in BOOLEAN
  BY <1>2 DEF Edited
<1>8. /\ text' \in [Messages -> Values] /\ text'[m] = IF e.text = Same THEN text[m] ELSE e.text
      /\ \A n \in Messages : n # m => text'[n] = text[n]
  BY <1>4, <1>7 DEF IInv, TInv, Types
<1>9. /\ shown' \in [Messages -> SUBSET Shows]
      /\ shown'[m] = IF e.shown = SameShown THEN shown[m] ELSE e.shown
      /\ \A n \in Messages : n # m => shown'[n] = shown[n]
  BY <1>4, <1>7 DEF IInv, TInv, Types
<1>10. /\ live' \in [Messages -> BOOLEAN] /\ live'[m] => live[m]
       /\ ~live'[m] => stops \/ ~live[m]
       /\ \A n \in Messages : n # m => live'[n] = live[n]
  BY <1>4, <1>7 DEF IInv, TInv, Types
<1>11. raced' \subseteq Messages /\ raced \subseteq raced'
  BY <1>4 DEF IInv, TInv, Types
<1>12. e.shown = {} => m \in raced' \/ (~Busy(m) /\ rest = <<>>)
  BY <1>4
<1>13. e \in Pending(m)
  BY <1>2
<1> HIDE DEF e, rest, stops, after
<1>14. /\ edits' \in [Messages -> Seq(Edited)] /\ edits'[m] = after
       /\ \A n \in Messages : n # m => edits'[n] = edits[n] /\ Pending(n)' = Pending(n)
  BY <1>5, <1>6 DEF IInv, TInv, Types, Pending
<1>15. \A x \in Pending(m)' : x \in Pending(m) \/ x = ClearEdit
  BY <1>5, <1>14 DEF Pending
<1>16. stops => ClearEdit \in Pending(m)'
  BY <1>5, <1>14 DEF Pending
<1>17. Types'
  BY <1>4, <1>8, <1>9, <1>10, <1>11, <1>14 DEF IInv, TInv, Types
<1>18. Blank'
  BY <1>3, <1>4, <1>8, <1>9, <1>10, <1>14 DEF IInv, TInv, Blank
<1>19. Role' /\ HelpPressed' /\ (OwnPressed => OwnPressed')
  BY <1>4 DEF IInv, TInv, Role, HelpPressed, OwnPressed
<1>19a. SameShown # {}
  BY DEF SameShown
<1>20. HelpShown'
  BY <1>19a, <1>3, <1>4, <1>9, <1>13, <1>14, <1>15, ClearForm DEF IInv, TInv, HelpShown
<1>21. OwnShown => OwnShown'
  <2> SUFFICES ASSUME OwnShown PROVE OwnShown'
    OBVIOUS
  <2>1. Own(menu[m].kind, e) /\ Says(menu[m].kind, text[m])
    BY <1>3, <1>13 DEF OwnShown
  <2>2. Says(menu[m].kind, text'[m]) /\ \A b \in shown'[m] : OfKind(menu[m].kind, b)
    BY <2>1, <1>3, <1>8, <1>9 DEF Own, OwnShown
  <2>3. \A x \in Pending(m)' : Own(menu[m].kind, x)
    BY <1>3, <1>15, ClearForm DEF OwnShown
  <2> QED BY <2>2, <2>3, <1>4, <1>8, <1>9, <1>14 DEF OwnShown
<1>22. Cleared'
  <2>1. \A n \in Messages : Busy(n)' <=> Busy(n)
    BY <1>4 DEF Busy
  <2>2. \A n \in Messages : n # m /\ Gone(n) => Gone(n)'
    BY <2>1, <1>9, <1>14 DEF Gone
  <2>3. ASSUME ~live'[m], m \notin raced' \cup kept PROVE Gone(m)'
    <3>1. CASE stops
      BY <3>1, <1>16 DEF Gone
    <3>2. CASE ~stops
      <4>1. ~live[m] /\ m \notin raced \cup kept /\ after = rest
        BY <2>3, <3>2, <1>5, <1>10, <1>11
      <4>2. ClearEdit \in Pending(m)
        BY <4>1, <1>1, <1>3 DEF IInv, Cleared, Gone
      <4>3. CASE e = ClearEdit
        <5>1. ~Busy(m) /\ rest = <<>> /\ e.shown = {}
          BY <2>3, <4>3, <1>12, ClearForm
        <5>2. shown'[m] = {}
          BY <5>1, <1>9, <1>19a
        <5> QED BY <4>1, <5>1, <5>2, <2>1, <1>14 DEF Gone
      <4>4. CASE e # ClearEdit
        <5>1. ClearEdit \in Pending(m)'
          BY <4>1, <4>2, <4>4, <1>2, <1>14 DEF Pending
        <5> QED BY <5>1 DEF Gone
      <4> QED BY <4>3, <4>4
    <3> QED BY <3>1, <3>2
  <2> QED BY <2>2, <2>3, <1>4, <1>10, <1>11 DEF IInv, Cleared
<1>23. (crossed \/ Apart)'
  BY <1>4, <1>19, <1>21 DEF IInv, Apart
<1> QED BY <1>17, <1>18, <1>19, <1>20, <1>22, <1>23 DEF IInv, TInv

\* The first edit under way is rejected.
LEMMA DropStep ==
    ASSUME IInv, NEW m \in Messages, IsNotEdited(m)
    PROVE  IInv'
<1>1. /\ edits[m] \in Seq(Edited) /\ edits[m] # <<>>
      /\ edits' = [edits EXCEPT ![m] = Tail(edits[m])]
      /\ kept' = IF Head(edits[m]) = Head(Clear) THEN kept \cup {m} ELSE kept
      /\ UNCHANGED <<menu, live, shown, text, page, press, acked, hand, lang, crossed, raced>>
  BY DEF IsNotEdited, IInv, TInv, Types
<1>2. /\ Tail(edits[m]) \in Seq(Edited)
      /\ Pending(m) = Items(Tail(edits[m])) \cup {Head(edits[m])}
  BY <1>1, Dequeued DEF Pending
<1>3. /\ edits' \in [Messages -> Seq(Edited)] /\ edits'[m] = Tail(edits[m])
      /\ \A n \in Messages : n # m => edits'[n] = edits[n] /\ Pending(n)' = Pending(n)
  BY <1>1, <1>2 DEF IInv, TInv, Types, Pending
<1>4. Pending(m)' \subseteq Pending(m) /\ Pending(m) = Pending(m)' \cup {Head(edits[m])}
  BY <1>2, <1>3 DEF Pending
<1>5. menu[m] # None
  BY <1>1 DEF IInv, TInv, Blank
<1>6. kept' \subseteq Messages /\ kept \subseteq kept'
      /\ (Head(edits[m]) = ClearEdit => m \in kept')
  <2>1. Head(Clear) = ClearEdit
    BY ClearForm
  <2> QED BY <1>1, <2>1 DEF IInv, TInv, Types
<1>7. Types'
  BY <1>1, <1>3, <1>6 DEF IInv, TInv, Types
<1>8. Blank'
  BY <1>1, <1>3, <1>5 DEF IInv, TInv, Blank
<1>9. Role' /\ HelpPressed' /\ (OwnPressed => OwnPressed')
  BY <1>1 DEF IInv, TInv, Role, HelpPressed, OwnPressed
<1>10. HelpShown'
  BY <1>1, <1>3, <1>4 DEF IInv, TInv, HelpShown
<1>11. OwnShown => OwnShown'
  BY <1>1, <1>3, <1>4 DEF OwnShown
<1>12. Cleared'
  <2>1. \A n \in Messages : Busy(n)' <=> Busy(n)
    BY <1>1 DEF Busy
  <2>2. \A n \in Messages : n # m /\ Gone(n) => Gone(n)'
    BY <2>1, <1>1, <1>3 DEF Gone
  <2>3. Gone(m) => Gone(m)' \/ m \in kept'
    BY <1>1, <1>4, <1>6 DEF Gone
  <2> QED BY <2>2, <2>3, <1>1, <1>6 DEF IInv, Cleared
<1>13. (crossed \/ Apart)'
  BY <1>1, <1>9, <1>11 DEF IInv, Apart
<1> QED BY <1>7, <1>8, <1>9, <1>10, <1>12, <1>13 DEF IInv, TInv

\* A command posts its message.
LEMMA PostStep ==
    ASSUME IInv, NEW m \in Messages, NEW u \in Users, NEW k \in Kinds, Opens(m, u, k)
    PROVE  IInv'
<1>1. /\ menu[m] = None
      /\ menu' = [menu EXCEPT ![m] = [kind |-> k, by |-> u]]
      /\ live' = [live EXCEPT ![m] = TRUE]
      /\ shown' = [shown EXCEPT ![m] = Components(k)]
      /\ text' = [text EXCEPT ![m] = FirstText(k)]
      /\ UNCHANGED <<edits, page, press, acked, hand, lang, crossed, raced, kept>>
  BY DEF Opens
<1>2. /\ Components(k) \subseteq Shows /\ \A b \in Components(k) : OfKind(k, b)
      /\ FirstText(k) \in Values /\ Says(k, FirstText(k))
  BY PostedShows, FirstTexts
<1>3. [kind |-> k, by |-> u] \in Posted
  BY DEF Posted
<1>4. /\ menu' \in [Messages -> Posted \cup {None}] /\ menu'[m] \in Posted /\ menu'[m].kind = k
      /\ \A n \in Messages : n # m => menu'[n] = menu[n]
  BY <1>1, <1>3 DEF IInv, TInv, Types
<1>5. /\ live' \in [Messages -> BOOLEAN] /\ live'[m]
      /\ \A n \in Messages : n # m => live'[n] = live[n]
  BY <1>1 DEF IInv, TInv, Types
<1>6. /\ shown' \in [Messages -> SUBSET Shows] /\ shown'[m] = Components(k)
      /\ \A n \in Messages : n # m => shown'[n] = shown[n]
  BY <1>1, <1>2 DEF IInv, TInv, Types
<1>7. /\ text' \in [Messages -> Values] /\ text'[m] = FirstText(k)
      /\ \A n \in Messages : n # m => text'[n] = text[n]
  BY <1>1, <1>2 DEF IInv, TInv, Types
<1>8. \A n \in Messages : Pending(n)' = Pending(n)
  BY <1>1 DEF Pending
<1>9. Pending(m) = {}
  <2>1. edits[m] = <<>>
    BY <1>1 DEF IInv, TInv, Blank
  <2> QED BY <2>1, NoneQueued DEF Pending
<1>10. Types'
  BY <1>1, <1>4, <1>5, <1>6, <1>7 DEF IInv, TInv, Types
<1>11. Blank'
  BY <1>1, <1>4, <1>5, <1>6, <1>7, Absent DEF IInv, TInv, Blank
<1>12. \A n \in Messages : menu[n] # None => n # m /\ menu'[n] = menu[n]
  BY <1>1, <1>4
<1>13. Role'
  <2>1. \A c \in Messages : menu[c] # None => menu'[c] # None /\ menu'[c] = menu[c]
    BY <1>12
  <2> QED BY <2>1, <1>1 DEF IInv, TInv, Role
<1>14. HelpPressed'
  <2>1. \A p \in Presses : press[p] \in Pressed => press[p].on \in Messages
    BY DEF Pressed
  <2> QED BY <2>1, <1>1, <1>12 DEF IInv, TInv, HelpPressed
<1>15. HelpShown'
  <2>1. k = "home" => \A b \in Components(k) : b[1] \in Helps
    BY <1>2 DEF OfKind, Helps
  <2> QED BY <2>1, <1>4, <1>6, <1>8, <1>9 DEF IInv, TInv, HelpShown
<1>16. OwnShown => OwnShown'
  BY <1>2, <1>4, <1>6, <1>7, <1>8, <1>9 DEF OwnShown
<1>17. OwnPressed => OwnPressed'
  BY <1>1, <1>12 DEF IInv, TInv, Role, OwnPressed
<1>18. Cleared'
  <2>1. \A n \in Messages : Busy(n)' <=> Busy(n)
    BY <1>1 DEF Busy
  <2>2. \A n \in Messages : n # m /\ Gone(n) => Gone(n)'
    BY <2>1, <1>1, <1>6, <1>8 DEF Gone
  <2> QED BY <2>2, <1>1, <1>4, <1>5 DEF IInv, Cleared
<1>19. (crossed \/ Apart)'
  BY <1>1, <1>16, <1>17 DEF IInv, Apart
<1> QED BY <1>10, <1>11, <1>13, <1>14, <1>15, <1>18, <1>19 DEF IInv, TInv

\* What a press queues on the message of a collector that it is handed to.
Queues(c, u, m, b, first) ==
    CASE Matches(c, u, m, b) /\ menu[c].kind = "emojis" -> EmojiEdits(page[c], b)
      [] Matches(c, u, m, b) /\ Stopped(c, b, first) -> Clear
      [] OTHER -> <<>>

\* It is nothing, an edit of an emoji list or the clearing edit.
LEMMA QueuesForm ==
    ASSUME Types, NEW c \in Messages, NEW u, NEW m, NEW b, NEW first
    PROVE  /\ \/ Queues(c, u, m, b, first) = <<>>
              \/ \E e \in Edited :
                    /\ Queues(c, u, m, b, first) = <<e>>
                    /\ e = ClearEdit \/ (menu[c].kind = "emojis" /\ Own("emojis", e))
           /\ ~Matches(c, u, m, b) => Queues(c, u, m, b, first) = <<>>
           /\ Matches(c, u, m, b) /\ Stopped(c, b, first) => Queues(c, u, m, b, first) = <<ClearEdit>>
<1> DEFINE q == Queues(c, u, m, b, first)
<1>1. CASE Matches(c, u, m, b) /\ menu[c].kind = "emojis"
  <2>1. q = EmojiEdits(page[c], b)
    BY <1>1 DEF Queues, Stopped
  <2>2. page[c] \in Pages
    BY DEF Types
  <2>3. ~Stopped(c, b, first)
    BY <1>1 DEF Stopped
  <2>4. \/ EmojiEdits(page[c], b) = <<>>
        \/ \E e \in Edited : EmojiEdits(page[c], b) = <<e>> /\ Own("emojis", e)
    BY <2>2, EmojiForm
  <2> HIDE DEF q
  <2>5. \/ q = <<>>
        \/ \E e \in Edited : q = <<e>> /\ (e = ClearEdit \/ (menu[c].kind = "emojis" /\ Own("emojis", e)))
    BY <1>1, <2>1, <2>4
  <2> QED BY <1>1, <2>3, <2>5 DEF q
<1>2. CASE Matches(c, u, m, b) /\ menu[c].kind # "emojis" /\ Stopped(c, b, first)
  <2>1. q = Clear
    BY <1>2 DEF Queues
  <2> QED BY <1>2, <2>1, ClearForm
<1>3. CASE Matches(c, u, m, b) /\ menu[c].kind # "emojis" /\ ~Stopped(c, b, first)
  <2>1. q = <<>>
    BY <1>3 DEF Queues
  <2> QED BY <1>3, <2>1
<1>4. CASE ~Matches(c, u, m, b)
  <2>1. q = <<>>
    BY <1>4 DEF Queues
  <2> QED BY <1>4, <2>1
<1> QED BY <1>1, <1>2, <1>3, <1>4

\* What a press does if the collectors that it is handed to begin with these
\* calls.
Effect(p, u, m, b, calls) ==
    /\ \A c \in Messages : calls[c] # "none" =>
          Matches(c, u, m, b) /\ calls[c] \in FirstCalls(c, u, b)
    /\ hand' = [hand EXCEPT ![p] = calls]
    /\ \/ press' = [press EXCEPT ![p] = Past] /\ \A c \in Messages : calls[c] = "none"
       \/ press' = [press EXCEPT ![p] = [kind |-> "press", by |-> u, on |-> m, what |-> b]]
    /\ live' \in [Messages -> BOOLEAN]
    /\ \A c \in Messages : live'[c] <=> live[c] /\ ~(Matches(c, u, m, b) /\ Stopped(c, b, calls[c]))
    /\ edits' = [c \in Messages |-> edits[c] \o Queues(c, u, m, b, calls[c])]

\* Every press has such an effect.
LEMMA PressParts ==
    ASSUME Types, NEW p \in Presses, NEW u \in Users, NEW m \in Messages, NEW b, IsPressed(p, u, m, b)
    PROVE  \E calls \in [Messages -> Calls] : Effect(p, u, m, b, calls)
<1> DEFINE handed == {c \in Messages : Matches(c, u, m, b)}
           lists == {c \in handed : menu[c].kind = "emojis"}
<1>1. PICK calls \in [Messages -> {"none", "refuse", "fetch", "editParent", "defer", "deferUpdate"}] :
         LET stop == {c \in handed : Stopped(c, b, calls[c])} IN
         /\ \A c \in Messages :
               calls[c] \in IF c \in handed THEN FirstCalls(c, u, b) ELSE {"none"}
         /\ hand' = [hand EXCEPT ![p] = calls]
         /\ press' = [press EXCEPT ![p] = IF \A c \in Messages : calls[c] = "none" THEN Past
                         ELSE [kind |-> "press", by |-> u, on |-> m, what |-> b]]
         /\ live' = [c \in Messages |-> live[c] /\ c \notin stop]
         /\ edits' = [c \in Messages |-> edits[c] \o
                         CASE c \in lists -> EmojiEdits(page[c], b)
                           [] c \in stop -> Clear
                           [] OTHER -> <<>>]
  BY DEF IsPressed
<1> DEFINE stop == {c \in handed : Stopped(c, b, calls[c])}
<1>2. calls \in [Messages -> Calls]
  BY DEF Calls
<1>3. \A c \in Messages : calls[c] # "none" => Matches(c, u, m, b) /\ calls[c] \in FirstCalls(c, u, b)
  BY <1>1
<1>4. hand' = [hand EXCEPT ![p] = calls]
  BY <1>1
<1>5. \/ press' = [press EXCEPT ![p] = Past] /\ \A c \in Messages : calls[c] = "none"
      \/ press' = [press EXCEPT ![p] = [kind |-> "press", by |-> u, on |-> m, what |-> b]]
  <2>1. CASE \A c \in Messages : calls[c] = "none"
    BY <1>1, <2>1
  <2>2. CASE ~ \A c \in Messages : calls[c] = "none"
    BY <1>1, <2>2
  <2> QED BY <2>1, <2>2
<1>6. live' = [c \in Messages |-> live[c] /\ c \notin stop]
  BY <1>1
<1>7. live' \in [Messages -> BOOLEAN]
  <2> HIDE DEF stop
  <2> QED BY <1>6 DEF Types
<1>8. \A c \in Messages : live'[c] <=> live[c] /\ ~(Matches(c, u, m, b) /\ Stopped(c, b, calls[c]))
  BY <1>6
<1>9. \A c \in Messages : c \in lists <=> Matches(c, u, m, b) /\ menu[c].kind = "emojis"
  OBVIOUS
<1>10. \A c \in Messages : c \in stop <=> Matches(c, u, m, b) /\ Stopped(c, b, calls[c])
  OBVIOUS
<1> DEFINE queued(c) == CASE c \in lists -> EmojiEdits(page[c], b)
                          [] c \in stop -> Clear
                          [] OTHER -> <<>>
<1>11. edits' = [c \in Messages |-> edits[c] \o queued(c)]
  BY <1>1
<1> HIDE DEF handed, lists, stop
<1>12. \A c \in Messages : queued(c) = Queues(c, u, m, b, calls[c])
  BY <1>9, <1>10 DEF Queues
<1>13. edits' = [c \in Messages |-> edits[c] \o Queues(c, u, m, b, calls[c])]
  <2> HIDE DEF queued
  <2> QED BY <1>11, <1>12
<1>14. Effect(p, u, m, b, calls)
  BY <1>3, <1>4, <1>5, <1>7, <1>8, <1>13 DEF Effect
<1> QED BY <1>2, <1>14

\* The edits of a message after a press.
LEMMA QueuedByPress ==
    ASSUME Types, NEW c \in Messages, NEW u, NEW m, NEW b, NEW first,
           edits'[c] = edits[c] \o Queues(c, u, m, b, first)
    PROVE  /\ edits'[c] \in Seq(Edited)
           /\ Pending(c) \subseteq Pending(c)'
           /\ \A x \in Pending(c)' : \/ x \in Pending(c) \/ x = ClearEdit
                                     \/ menu[c].kind = "emojis" /\ Own("emojis", x)
           /\ ~Matches(c, u, m, b) => edits'[c] = edits[c] /\ Pending(c)' = Pending(c)
           /\ Matches(c, u, m, b) /\ Stopped(c, b, first) => ClearEdit \in Pending(c)'
<1> DEFINE q == Queues(c, u, m, b, first)
<1>1. /\ \/ q = <<>>
         \/ \E e \in Edited : q = <<e>> /\ (e = ClearEdit \/ (menu[c].kind = "emojis" /\ Own("emojis", e)))
      /\ ~Matches(c, u, m, b) => q = <<>>
      /\ Matches(c, u, m, b) /\ Stopped(c, b, first) => q = <<ClearEdit>>
  BY QueuesForm
<1>2. edits[c] \in Seq(Edited)
  BY DEF Types
<1>3. edits'[c] = edits[c] \o q
  OBVIOUS
<1> HIDE DEF q
<1>4. CASE q = <<>>
  <2>1. edits'[c] = edits[c]
    BY <1>2, <1>3, <1>4
  <2>2. ~(Matches(c, u, m, b) /\ Stopped(c, b, first))
    BY <1>1, <1>4
  <2> QED BY <1>2, <2>1, <2>2 DEF Pending
<1>5. ASSUME NEW e \in Edited, q = <<e>>, e = ClearEdit \/ (menu[c].kind = "emojis" /\ Own("emojis", e))
      PROVE  /\ edits'[c] \in Seq(Edited)
             /\ Pending(c) \subseteq Pending(c)'
             /\ \A x \in Pending(c)' : \/ x \in Pending(c) \/ x = ClearEdit
                                       \/ menu[c].kind = "emojis" /\ Own("emojis", x)
             /\ ~Matches(c, u, m, b) => edits'[c] = edits[c] /\ Pending(c)' = Pending(c)
             /\ Matches(c, u, m, b) /\ Stopped(c, b, first) => ClearEdit \in Pending(c)'
  <2>1. edits[c] \o <<e>> \in Seq(Edited) /\ Items(edits[c] \o <<e>>) = Items(edits[c]) \cup {e}
    BY <1>2, Queued
  <2>2. edits'[c] \in Seq(Edited) /\ Pending(c)' = Pending(c) \cup {e}
    BY <1>3, <1>5, <2>1 DEF Pending
  <2>3. Matches(c, u, m, b)
    BY <1>1, <1>5
  <2>4. Stopped(c, b, first) => e = ClearEdit
    BY <1>1, <1>5, <2>3
  <2> QED BY <1>5, <2>2, <2>3, <2>4
<1> QED BY <1>1, <1>4, <1>5

\* A component is pressed, and its collectors are handed the interaction.
LEMMA PressStep ==
    ASSUME IInv, NEW p \in Presses, NEW u \in Users, NEW m \in Messages, NEW b \in shown[m],
           IsPressed(p, u, m, b)
    PROVE  IInv'
<1>1. /\ press[p] = None
      /\ page' = [c \in Messages |->
                     IF Matches(c, u, m, b) /\ menu[c].kind = "emojis" THEN Turn(page[c], b) ELSE page[c]]
      /\ UNCHANGED <<menu, shown, text, acked, lang, raced, kept>>
  BY DEF IsPressed
<1>2. crossed' = (crossed \/ {c \in Messages : Matches(c, u, m, b)} \ {m} # {})
  BY DEF IsPressed
<1>3. crossed' \in BOOLEAN /\ (crossed => crossed')
      /\ (~crossed' => \A c \in Messages : Matches(c, u, m, b) => c = m)
  <2>1. crossed \in BOOLEAN
    BY DEF IInv, TInv, Types
  <2> QED BY <1>2, <2>1
<1> PICK calls \in [Messages -> Calls] : Effect(p, u, m, b, calls)
  <2>1. Types
    BY DEF IInv, TInv
  <2> QED BY <2>1, PressParts
<1>4. /\ \A c \in Messages : calls[c] # "none" =>
            Matches(c, u, m, b) /\ calls[c] \in FirstCalls(c, u, b)
      /\ hand' = [hand EXCEPT ![p] = calls]
      /\ \/ press' = [press EXCEPT ![p] = Past] /\ \A c \in Messages : calls[c] = "none"
         \/ press' = [press EXCEPT ![p] = [kind |-> "press", by |-> u, on |-> m, what |-> b]]
      /\ live' \in [Messages -> BOOLEAN]
      /\ \A c \in Messages : live'[c] <=> live[c] /\ ~(Matches(c, u, m, b) /\ Stopped(c, b, calls[c]))
      /\ edits' = [c \in Messages |-> edits[c] \o Queues(c, u, m, b, calls[c])]
  BY DEF Effect
<1>5. menu[m] # None /\ b \in Shows
  BY DEF IInv, TInv, Types, Blank
<1> DEFINE new == [kind |-> "press", by |-> u, on |-> m, what |-> b]
<1>6. new \in Pressed /\ new.on = m /\ new.what = b
  BY <1>5 DEF Pressed
<1>7. /\ press' \in [Presses -> Pressed \cup {None, Past}]
      /\ \A q \in Presses : q # p => press'[q] = press[q]
      /\ press'[p] = new \/ press'[p] = Past
      /\ \A c \in Messages : calls[c] # "none" => press'[p] = new
  <2> HIDE DEF new
  <2>1. press \in [Presses -> Pressed \cup {None, Past}]
    BY DEF IInv, TInv, Types
  <2>2. \/ press' = [press EXCEPT ![p] = Past] /\ \A c \in Messages : calls[c] = "none"
        \/ press' = [press EXCEPT ![p] = new]
    BY <1>4 DEF new
  <2>3. CASE press' = [press EXCEPT ![p] = Past] /\ \A c \in Messages : calls[c] = "none"
    BY <2>1, <2>3
  <2>4. CASE press' = [press EXCEPT ![p] = new]
    BY <1>6, <2>1, <2>4
  <2> QED BY <2>2, <2>3, <2>4
<1>8. /\ hand' \in [Presses -> [Messages -> Calls]]
      /\ \A c \in Messages : hand'[p][c] = calls[c]
      /\ \A q \in Presses, c \in Messages : q # p => hand'[q][c] = hand[q][c]
  BY <1>4 DEF IInv, TInv, Types
<1>9. \A c \in Messages : Matches(c, u, m, b) => live[c] /\ menu[c] # None /\ menu[c] \in Posted
  BY DEF Matches, IInv, TInv, Types, Blank
<1>10. \A c \in Messages :
          /\ edits'[c] \in Seq(Edited)
          /\ Pending(c) \subseteq Pending(c)'
          /\ \A x \in Pending(c)' : \/ x \in Pending(c) \/ x = ClearEdit
                                    \/ menu[c].kind = "emojis" /\ Own("emojis", x)
          /\ ~Matches(c, u, m, b) => edits'[c] = edits[c] /\ Pending(c)' = Pending(c)
          /\ Matches(c, u, m, b) /\ Stopped(c, b, calls[c]) => ClearEdit \in Pending(c)'
  <2> TAKE c \in Messages
  <2>1. edits'[c] = edits[c] \o Queues(c, u, m, b, calls[c])
    BY <1>4
  <2> QED BY <2>1, QueuedByPress DEF IInv, TInv
<1>11. edits' \in [Messages -> Seq(Edited)]
  <2>1. edits' = [c \in Messages |-> edits'[c]]
    BY <1>4
  <2>2. \A c \in Messages : edits'[c] \in Seq(Edited)
    BY <1>10
  <2> QED BY <2>1, <2>2
<1>12. page' \in [Messages -> Pages]
  <2>1. \A c \in Messages : page[c] \in Pages /\ Turn(page[c], b) \in Pages
    BY TurnsToPage DEF IInv, TInv, Types
  <2> QED BY <1>1, <2>1
<1>13. Types'
  BY <1>1, <1>3, <1>4, <1>7, <1>8, <1>11, <1>12 DEF IInv, TInv, Types
<1>14. Blank'
  BY <1>1, <1>4, <1>9, <1>10 DEF IInv, TInv, Blank
<1> HIDE DEF new
<1>15. \A c \in Messages : calls[c] # "none" =>
          /\ press'[p] = new /\ menu[c] # None
          /\ menu[c].kind \in Menus <=> b[1] \in Menus
          /\ menu[c].kind = "home" => c = m
          /\ calls[c] = "editParent" =>
                /\ menu[c].kind \in {"home", "category", "playlist", "loop"}
                /\ menu[c].kind = "category" => b[2] \in {"home", "name"}
          /\ calls[c] \notin {"change"}
          /\ calls[c] = "defer" => menu[c].kind = "language"
          /\ calls[c] = "deferUpdate" => menu[c].kind = "avatar"
  <2> SUFFICES ASSUME NEW c \in Messages, calls[c] # "none"
               PROVE  /\ press'[p] = new /\ menu[c] # None
                      /\ menu[c].kind \in Menus <=> b[1] \in Menus
                      /\ menu[c].kind = "home" => c = m
                      /\ calls[c] = "editParent" =>
                            /\ menu[c].kind \in {"home", "category", "playlist", "loop"}
                            /\ menu[c].kind = "category" => b[2] \in {"home", "name"}
                      /\ calls[c] \notin {"change"}
                      /\ calls[c] = "defer" => menu[c].kind = "language"
                      /\ calls[c] = "deferUpdate" => menu[c].kind = "avatar"
    OBVIOUS
  <2>1. Matches(c, u, m, b) /\ calls[c] \in FirstCalls(c, u, b) /\ press'[p] = new
    BY <1>4, <1>7
  <2>2. menu[c] # None /\ menu[c] \in Posted
    BY <2>1, <1>9
  <2>3. /\ menu[c].kind \in Menus <=> b[1] \in Menus
        /\ menu[c].kind = "home" => c = m
    BY <2>1 DEF Matches, Bound
  <2> QED BY <2>1, <2>2, <2>3, FirstCallForm
<1>16. Role'
  <2> SUFFICES ASSUME NEW q \in Presses, NEW c \in Messages, hand'[q][c] # "none"
               PROVE  /\ press'[q] \in Pressed
                      /\ menu'[c] # None
                      /\ menu'[c].kind \in Menus <=> press'[q].what[1] \in Menus
                      /\ menu'[c].kind = "home" => press'[q].on = c
                      /\ hand'[q][c] = "editParent" =>
                            /\ menu'[c].kind \in {"home", "category", "playlist", "loop"}
                            /\ menu'[c].kind = "category" => press'[q].what[2] \in {"home", "name"}
                      /\ hand'[q][c] \in {"defer", "change"} => menu'[c].kind = "language"
                      /\ hand'[q][c] = "deferUpdate" => menu'[c].kind = "avatar"
    BY DEF Role
  <2>1. CASE q = p
    <3>1. calls[c] # "none" /\ hand'[q][c] = calls[c]
      BY <2>1, <1>8
    <3> QED BY <2>1, <3>1, <1>1, <1>6, <1>15
  <2>2. CASE q # p
    <3>1. hand'[q][c] = hand[q][c] /\ press'[q] = press[q] /\ menu' = menu
      BY <2>2, <1>1, <1>7, <1>8
    <3> QED BY <3>1 DEF IInv, TInv, Role
  <2> QED BY <2>1, <2>2
<1>17. HelpPressed'
  <2>1. menu[m].kind = "home" => b[1] \in Helps
    BY <1>5 DEF IInv, TInv, HelpShown
  <2> QED BY <2>1, <1>1, <1>5, <1>6, <1>7, Absent DEF IInv, TInv, HelpPressed
<1>18. HelpShown'
  BY <1>1, <1>10, ClearForm DEF IInv, TInv, HelpShown
<1>19. OwnShown => OwnShown'
  BY <1>1, <1>10, ClearForm DEF OwnShown
<1>20. ~crossed' /\ OwnShown /\ OwnPressed => OwnPressed'
  <2> SUFFICES ASSUME ~crossed', OwnShown, OwnPressed, NEW q \in Presses, NEW c \in Messages,
                      hand'[q][c] # "none"
               PROVE  press'[q].on = c /\ OfKind(menu'[c].kind, press'[q].what)
    BY DEF OwnPressed
  <2>1. CASE q = p
    <3>1. calls[c] # "none"
      BY <2>1, <1>8
    <3>2. Matches(c, u, m, b) /\ press'[q] = new
      BY <2>1, <3>1, <1>4, <1>7
    <3>3. c = m
      BY <3>2, <1>3
    <3> QED BY <3>2, <3>3, <1>1, <1>5, <1>6 DEF OwnShown
  <2>2. CASE q # p
    BY <2>2, <1>1, <1>7, <1>8 DEF OwnPressed
  <2> QED BY <2>1, <2>2
<1>21. (crossed \/ Apart)'
  BY <1>1, <1>3, <1>19, <1>20 DEF IInv, Apart
<1>22. Cleared'
  <2> SUFFICES ASSUME NEW c \in Messages, menu[c] # None, ~live'[c], c \notin raced \cup kept
               PROVE  Gone(c)'
    BY <1>1 DEF Cleared
  <2>1. CASE live[c]
    <3>1. ClearEdit \in Pending(c)'
      BY <2>1, <1>4, <1>10
    <3> QED BY <3>1, ClearForm DEF Gone
  <2>2. CASE ~live[c]
    <3>1. edits'[c] = edits[c] /\ Pending(c)' = Pending(c) /\ shown'[c] = shown[c]
      BY <2>2, <1>1, <1>9, <1>10
    <3>2. Gone(c)
      BY <2>2 DEF IInv, Cleared
    <3>3. shown[c] = {} /\ ~Busy(c) => ~Busy(c)'
      <4> SUFFICES ASSUME shown[c] = {}, ~Busy(c), NEW q \in Presses, NEW d \in Messages,
                          hand'[q][d] # "none", c \in {d, press'[q].on}
                   PROVE  FALSE
        BY DEF Busy
      <4>1. CASE q = p
        <5>1. calls[d] # "none"
          BY <4>1, <1>8
        <5>2. live[d] /\ press'[q].on = m
          BY <4>1, <5>1, <1>4, <1>6, <1>7, <1>9
        <5> QED BY <2>2, <5>2
      <4>2. CASE q # p
        BY <4>2, <1>7, <1>8 DEF Busy
      <4> QED BY <4>1, <4>2
    <3> QED BY <3>1, <3>2, <3>3 DEF Gone
  <2> QED BY <2>1, <2>2
<1> QED BY <1>13, <1>14, <1>16, <1>17, <1>18, <1>21, <1>22 DEF IInv, TInv

-----------------------------------------------------------------------------
(* The invariant, and what follows from it.                                *)

\* Every step of the messages keeps the invariant.
LEMMA CollectorsStep == IInv /\ [Next]_vars => IInv'
<1> SUFFICES ASSUME IInv, [Next]_vars PROVE IInv'
  OBVIOUS
<1>1. ASSUME NEW m \in Messages, NEW u \in Users, NEW k \in Kinds, Opens(m, u, k) PROVE IInv'
  BY <1>1, PostStep
<1>2. ASSUME NEW p \in Presses, NEW u \in Users, NEW m \in Messages, NEW b \in shown[m], IsPressed(p, u, m, b)
      PROVE  IInv'
  BY <1>2, PressStep
<1>3. ASSUME NEW p \in Presses, NEW c \in Messages, HandlerStep(p, c) PROVE IInv'
  <2>1. CASE Declines(p, c) \/ DefersLanguage(p, c) \/ Rejects(p, c) \/ FetchesTrack(p, c)
    BY <2>1, QuietStep
  <2>2. CASE DefersUpdate(p, c)
    BY <2>2, UpdateStep
  <2>3. CASE EditsParent(p, c)
    BY <2>3, DrawStep
  <2>4. CASE ChangesLanguage(p, c)
    BY <2>4, LanguageStep
  <2>5. CASE AnnouncesTrack(p, c)
    BY <2>5, AnnounceStep
  <2> QED BY <1>3, <2>1, <2>2, <2>3, <2>4, <2>5 DEF HandlerStep
<1>4. ASSUME NEW m \in Messages, TimesOut(m) \/ IsEdited(m) \/ IsNotEdited(m)
      PROVE  IInv'
  BY <1>4, TimeStep, EditStep, DropStep
<1>5. CASE UNCHANGED vars
  <2>1. \A m \in Messages : (Busy(m)' <=> Busy(m)) /\ Pending(m)' = Pending(m)
    BY <1>5 DEF vars, Busy, Pending
  <2>2. Types' /\ Blank' /\ Role' /\ HelpPressed'
    BY <1>5 DEF vars, IInv, TInv, Types, Blank, Role, HelpPressed
  <2>3. HelpShown' /\ Cleared'
    BY <1>5, <2>1 DEF vars, IInv, TInv, HelpShown, Cleared, Gone
  <2>4. (crossed \/ Apart)'
    BY <1>5, <2>1 DEF vars, IInv, Apart, OwnShown, OwnPressed
  <2> QED BY <2>2, <2>3, <2>4 DEF IInv, TInv
<1> QED BY <1>1, <1>2, <1>3, <1>4, <1>5 DEF Next, Running

\* The inductive invariant of the messages, whatever members press and whenever
\* collectors end.
THEOREM Messaging == Spec => []IInv
BY CollectorsInit, CollectorsStep, PTL DEF Spec

\* Texts, components and the language of the guild stay values of the commands,
\* a collector lives and a handler runs only for a posted message.
THEOREM MessagingTypes == Spec => []TypeOK
<1>1. IInv => TypeOK
  <2> SUFFICES ASSUME IInv PROVE TypeOK
    OBVIOUS
  <2>1. \A m \in Messages : text[m] \in Values /\ shown[m] \subseteq Values /\ page[m] \in Pages
    BY AreValues DEF IInv, TInv, Types
  <2>2. \A m \in Messages : live[m] => menu[m] # None
    BY DEF IInv, TInv, Blank
  <2>3. \A p \in Presses, m \in Messages : hand[p][m] # "none" => press[p] # None /\ menu[m] # None
    BY Absent DEF IInv, TInv, Role
  <2>4. lang \in Languages \cup {"undefined"}
    BY DEF IInv, TInv, Types
  <2> QED BY <2>1, <2>2, <2>3, <2>4 DEF TypeOK
<1> QED BY <1>1, Messaging, PTL

\* A page or a mode that does not exist, the language undefined and the text of
\* another command come about only after a press on the message of one command
\* was handed to the collector of another.
THEOREM CrossTalkOnly == Spec => []UndefinedNeedsCrossTalk
<1>1. IInv => UndefinedNeedsCrossTalk
  <2> SUFFICES ASSUME IInv, ~crossed PROVE UndefinedNeedsCrossTalk
    BY DEF UndefinedNeedsCrossTalk
  <2>1. lang \in Languages /\ OwnShown
    BY DEF IInv, Apart
  <2>2. \A m \in Messages : menu[m] # None =>
           text[m][1] = IF menu[m].kind = "emojis" THEN "list" ELSE menu[m].kind
    BY <2>1 DEF OwnShown, Says
  <2>3. ASSUME NEW m \in Messages, menu[m] = None
        PROVE  text[m] = <<"none">> /\ text[m][1] = "none"
    BY <2>3 DEF IInv, TInv, Blank
  <2>4. ASSUME NEW m \in Messages, menu[m] # None
        PROVE  /\ text[m][1] = "playlist" => text[m][2] \in Pages
               /\ text[m] # <<"loop", "undefined">>
    <3>1. Says(menu[m].kind, text[m])
      BY <2>1, <2>4 DEF OwnShown
    <3>2. text[m] = <<"loop", "undefined">> => text[m][1] = "loop"
      OBVIOUS
    <3> QED BY <3>1, <3>2 DEF Says
  <2>5. <<"loop", "undefined">>[1] = "loop"
    OBVIOUS
  <2> QED BY <2>1, <2>2, <2>3, <2>4, <2>5 DEF UndefinedNeedsCrossTalk
<1> QED BY <1>1, Messaging, PTL

\* Components stay on a message whose collector has ended only if a handler had a
\* call under way when they were removed, or the edit that removes them, which
\* the end handlers send once, was rejected.
THEOREM DeadHasCause == Spec => []DeadNeedsCause
<1>1. IInv => DeadNeedsCause
  <2> SUFFICES ASSUME IInv, NEW m \in Messages, menu[m] # None, ~live[m], edits[m] = <<>>, shown[m] # {}
               PROVE  m \in raced \cup kept
    BY DEF DeadNeedsCause
  <2>1. Pending(m) = {}
    BY NoneQueued DEF Pending
  <2> QED BY <2>1 DEF IInv, Cleared, Gone
<1> QED BY <1>1, Messaging, PTL

-----------------------------------------------------------------------------
(* What lets a command through.                                            *)

Stages == {"setting", "user", "guild", "tester", "gate", "resolve", "get", "write", "ended"}
Behind == {"tester", "gate", "resolve", "get", "write"}   \* the calls after the guild's key
Asked == [by : Members, via : {"message", "slash"}, at : Stages]
Ran == [at : {"ran"}, gap : BOOLEAN, user : BOOLEAN,
        op : {"other", "blacklist", "unblacklist"}, target : Targets]

GateTypes ==
    /\ req \in [Requests -> Asked \cup {NotYet}]
    /\ listed \subseteq Targets
    /\ call \in [Requests -> Ran \cup {NotYet}]
    /\ clear \in [Requests -> SUBSET Targets]

\* Whoever is not listed now was seen off the list, and so was, once its key is
\* read, whoever is listed now.  A slash command reads its setting last.
Read(r) ==
    LET late == req[r].via = "slash" /\ req[r].at = "setting" IN
    /\ {req[r].by, Guild} \ listed \subseteq clear[r]
    /\ req[r].at \in Behind \cup {"guild"} \/ late \/ call[r] # NotYet => req[r].by \in clear[r]
    /\ req[r].at \in Behind \/ late \/ call[r] # NotYet => Guild \in clear[r]
    /\ req[r].at \in {"resolve", "get", "write"} => call[r] # NotYet

Through(r) ==
    call[r] # NotYet =>
        /\ req[r] # NotYet
        /\ call[r].gap => req[r].via = "message" /\ call[r].user

GateInv ==
    /\ GateTypes
    /\ \A r \in Requests : req[r] # NotYet => Read(r)
    /\ \A r \in Requests : Through(r)

\* Requests that wait and commands that ran are told apart from none.
LEMMA GateAbsent == NotYet.at = "none" /\ NotYet \notin Asked /\ NotYet \notin Ran
<1>1. NotYet.at = "none"
  BY DEF NotYet
<1>2. \A x \in Asked : x.at # "none"
  BY DEF Asked, Stages
<1>3. \A x \in Ran : x.at # "none"
  BY DEF Ran
<1> QED BY <1>1, <1>2, <1>3

\* The order of the calls of the two handlers.
LEMMA AfterForm ==
    /\ After("message", "arrives") = "setting" /\ After("slash", "arrives") = "user"
    /\ After("message", "setting") = "user" /\ After("slash", "setting") = "gate"
    /\ \A via : After(via, "user") = "guild"
    /\ \A via : After(via, "guild") = "tester"
    /\ After("message", "tester") = "gate" /\ After("slash", "tester") = "setting"
<1>1. After("message", "arrives") = "setting" /\ After("slash", "arrives") = "user"
  BY DEF After
<1>2. After("message", "setting") = "user" /\ After("slash", "setting") = "gate"
  BY DEF After
<1>3. \A via : After(via, "user") = "guild"
  BY DEF After
<1>4. \A via : After(via, "guild") = "tester"
  BY DEF After
<1>5. After("message", "tester") = "gate" /\ After("slash", "tester") = "setting"
  BY DEF After
<1> QED BY <1>1, <1>2, <1>3, <1>4, <1>5

\* A handler goes to another call.
LEMMA GoesOn ==
    ASSUME GateTypes, NEW r \in Requests, req[r] # NotYet, NEW s \in Stages, Goes(r, s)
    PROVE  /\ req' \in [Requests -> Asked \cup {NotYet}]
           /\ req[r] \in Asked /\ req'[r] \in Asked /\ req'[r] # NotYet
           /\ req'[r].by = req[r].by /\ req'[r].via = req[r].via /\ req'[r].at = s
           /\ \A q \in Requests : q # r => req'[q] = req[q]
<1>1. req' = [req EXCEPT ![r].at = s]
  BY DEF Goes
<1>2. req[r] \in Asked
  BY DEF GateTypes
<1>3. [req[r] EXCEPT !.at = s] \in Asked
  BY <1>2 DEF Asked
<1>4. req'[r] = [req[r] EXCEPT !.at = s] /\ \A q \in Requests : q # r => req'[q] = req[q]
  BY <1>1 DEF GateTypes
<1>5. req' \in [Requests -> Asked \cup {NotYet}]
  BY <1>1, <1>3 DEF GateTypes
<1>6. req'[r].by = req[r].by /\ req'[r].via = req[r].via /\ req'[r].at = s
  BY <1>2, <1>4 DEF Asked
<1> QED BY <1>2, <1>3, <1>4, <1>5, <1>6, GateAbsent

\* What is known of a command after a step of its handler alone.
LEMMA HandlerGoes ==
    ASSUME GateInv, NEW r \in Requests, req[r] # NotYet, NEW s \in Stages, Goes(r, s),
           UNCHANGED <<listed, call, clear>>,
           s \in Behind \cup {"guild"} \/ (req[r].via = "slash" /\ s = "setting") => req[r].by \in clear[r],
           s \in Behind \/ (req[r].via = "slash" /\ s = "setting") => Guild \in clear[r],
           s \in {"resolve", "get", "write"} => call[r] # NotYet
    PROVE  GateInv'
<1>1. /\ req' \in [Requests -> Asked \cup {NotYet}]
      /\ req'[r] # NotYet
      /\ req'[r].by = req[r].by /\ req'[r].via = req[r].via /\ req'[r].at = s
      /\ \A q \in Requests : q # r => req'[q] = req[q]
  BY GoesOn DEF GateInv
<1>2. GateTypes'
  BY <1>1 DEF GateInv, GateTypes
<1>3. Read(r)'
  BY <1>1 DEF GateInv, Read
<1>4. \A q \in Requests : q # r /\ req'[q] # NotYet => Read(q)'
  BY <1>1 DEF GateInv, Read
<1>5. \A q \in Requests : Through(q)'
  BY <1>1 DEF GateInv, Through
<1> QED BY <1>2, <1>3, <1>4, <1>5 DEF GateInv

\* A command comes.
LEMMA ArrivesStep ==
    ASSUME GateInv, NEW r \in Requests, NEW m \in Members, NEW via \in {"message", "slash"},
           Arrives(r, m, via)
    PROVE  GateInv'
<1> DEFINE new == [by |-> m, via |-> via, at |-> After(via, "arrives")]
<1>1. /\ req[r] = NotYet
      /\ req' = [req EXCEPT ![r] = new]
      /\ clear' = [clear EXCEPT ![r] = {m, Guild} \ listed]
      /\ UNCHANGED <<listed, call>>
  BY DEF Arrives
<1>2. /\ new \in Asked /\ new.by = m /\ new.via = via /\ new # NotYet
      /\ new.at = IF via = "message" THEN "setting" ELSE "user"
  BY AfterForm, GateAbsent DEF Asked, Stages
<1>3. {m, Guild} \ listed \subseteq Targets
  BY DEF Targets
<1> HIDE DEF new
<1>4. /\ req' \in [Requests -> Asked \cup {NotYet}] /\ req'[r] = new
      /\ \A q \in Requests : q # r => req'[q] = req[q]
  BY <1>1, <1>2 DEF GateInv, GateTypes
<1>5. /\ clear' \in [Requests -> SUBSET Targets] /\ clear'[r] = {m, Guild} \ listed
      /\ \A q \in Requests : q # r => clear'[q] = clear[q]
  BY <1>1, <1>3 DEF GateInv, GateTypes
<1>6. call[r] = NotYet
  BY <1>1 DEF GateInv, Through
<1>7. GateTypes'
  BY <1>1, <1>4, <1>5 DEF GateInv, GateTypes
<1>8. Read(r)'
  BY <1>1, <1>2, <1>4, <1>5, <1>6 DEF Read, Behind
<1>9. \A q \in Requests : q # r /\ req'[q] # NotYet => Read(q)'
  BY <1>1, <1>4, <1>5 DEF GateInv, Read
<1>10. \A q \in Requests : Through(q)'
  BY <1>1, <1>4, <1>6 DEF GateInv, Through
<1> QED BY <1>7, <1>8, <1>9, <1>10 DEF GateInv

\* A command reads its setting, a key of the blacklist or the list of testers.
LEMMA ReadsStep ==
    ASSUME GateInv, NEW r \in Requests,
           \/ ReadsSetting(r)
           \/ req[r] # NotYet /\ ReadsKey(r, "user", req[r].by)
           \/ ReadsKey(r, "guild", Guild)
           \/ ReadsTester(r)
    PROVE  GateInv'
<1>1. req[r] # NotYet /\ req[r] \in Asked
  BY GateAbsent DEF GateInv, GateTypes, ReadsSetting, ReadsKey, ReadsTester
<1>2. Read(r) /\ req[r].via \in {"message", "slash"}
  BY <1>1 DEF GateInv, Asked
<1>3. CASE ReadsSetting(r)
  <2>1. req[r].at = "setting" /\ Proceeds(r) /\ UNCHANGED <<listed, call, clear>>
    BY <1>3 DEF ReadsSetting
  <2>2. CASE req[r].via = "message"
    <3>1. Goes(r, "user")
      BY <2>1, <2>2, AfterForm DEF Proceeds
    <3> QED BY <1>1, <2>1, <2>2, <3>1, HandlerGoes DEF Stages, Behind
  <2>3. CASE req[r].via = "slash"
    <3>1. Goes(r, "gate")
      BY <2>1, <2>3, AfterForm DEF Proceeds
    <3>2. req[r].by \in clear[r] /\ Guild \in clear[r]
      BY <1>2, <2>1, <2>3 DEF Read
    <3> QED BY <1>1, <2>1, <3>1, <3>2, HandlerGoes DEF Stages
  <2> QED BY <1>2, <2>2, <2>3
<1>4. CASE ReadsKey(r, "user", req[r].by)
  <2>1. req[r].at = "user" /\ UNCHANGED <<listed, call, clear>>
    BY <1>4 DEF ReadsKey
  <2>2. CASE Goes(r, "ended")
    BY <1>1, <2>1, <2>2, HandlerGoes DEF Stages, Behind
  <2>3. CASE req[r].by \notin listed /\ Proceeds(r)
    <3>1. Goes(r, "guild")
      BY <2>1, <2>3, AfterForm DEF Proceeds
    <3>2. req[r].by \in clear[r]
      BY <1>2, <2>3 DEF Read
    <3> QED BY <1>1, <2>1, <3>1, <3>2, HandlerGoes DEF Stages, Behind
  <2> QED BY <1>4, <2>2, <2>3 DEF ReadsKey
<1>5. CASE ReadsKey(r, "guild", Guild)
  <2>1. req[r].at = "guild" /\ UNCHANGED <<listed, call, clear>>
    BY <1>5 DEF ReadsKey
  <2>2. CASE Goes(r, "ended")
    BY <1>1, <2>1, <2>2, HandlerGoes DEF Stages, Behind
  <2>3. CASE Guild \notin listed /\ Proceeds(r)
    <3>1. Goes(r, "tester")
      BY <2>1, <2>3, AfterForm DEF Proceeds
    <3>2. req[r].by \in clear[r] /\ Guild \in clear[r]
      BY <1>2, <2>1, <2>3 DEF Read
    <3> QED BY <1>1, <2>1, <3>1, <3>2, HandlerGoes DEF Stages
  <2> QED BY <1>5, <2>2, <2>3 DEF ReadsKey
<1>6. CASE ReadsTester(r)
  <2>1. req[r].at = "tester" /\ UNCHANGED <<listed, call, clear>>
    BY <1>6 DEF ReadsTester
  <2>2. CASE Goes(r, "ended")
    BY <1>1, <2>1, <2>2, HandlerGoes DEF Stages, Behind
  <2>3. CASE Proceeds(r)
    <3>1. req[r].by \in clear[r] /\ Guild \in clear[r]
      BY <1>2, <2>1 DEF Read, Behind
    <3>2. Goes(r, "gate") \/ Goes(r, "setting")
      BY <1>2, <2>1, <2>3, AfterForm DEF Proceeds
    <3> QED BY <1>1, <2>1, <3>1, <3>2, HandlerGoes DEF Stages
  <2> QED BY <1>6, <2>2, <2>3 DEF ReadsTester
<1> QED BY <1>3, <1>4, <1>5, <1>6

\* A command is refused, or blacklist resolves and reads its target.
LEMMA WaitsStep ==
    ASSUME GateInv, NEW r \in Requests, Refused(r) \/ Resolves(r) \/ ReadsTarget(r)
    PROVE  GateInv'
<1>1. req[r] # NotYet /\ req[r].at \in {"gate", "resolve", "get"} /\ UNCHANGED <<listed, call, clear>>
  BY GateAbsent DEF Refused, Resolves, ReadsTarget
<1>2. \/ Goes(r, "ended")
      \/ req[r].at \in {"resolve", "get"} /\ (Goes(r, "get") \/ Goes(r, "write"))
  BY DEF Refused, Resolves, ReadsTarget
<1>3. CASE Goes(r, "ended")
  BY <1>1, <1>3, HandlerGoes DEF Stages, Behind
<1>4. CASE req[r].at \in {"resolve", "get"} /\ (Goes(r, "get") \/ Goes(r, "write"))
  <2>1. req[r].by \in clear[r] /\ Guild \in clear[r] /\ call[r] # NotYet
    BY <1>1, <1>4 DEF GateInv, Read, Behind
  <2> QED BY <1>1, <1>4, <2>1, HandlerGoes DEF Stages
<1> QED BY <1>2, <1>3, <1>4

\* A command runs.
LEMMA RunsStep ==
    ASSUME GateInv, NEW r \in Requests, NEW c \in Commands, NEW v \in Views, Executes(r, c, v)
    PROVE  GateInv'
<1>1. req[r].at = "gate" /\ UNCHANGED <<listed, clear>>
  BY DEF Executes
<1>2. req[r] # NotYet /\ req[r].by \in clear[r] /\ Guild \in clear[r]
  BY <1>1, GateAbsent DEF GateInv, Read, Behind
<1>3. c.user \in BOOLEAN /\ c.bot \in BOOLEAN
  <2>1. Commands \subseteq [type : {"any", "developer", "owner"}, user : BOOLEAN, bot : BOOLEAN]
    BY DEF Commands
  <2> QED BY <2>1
<1>4. v.bot \in BOOLEAN
  BY DEF Views
<1>5. PICK s \in {"ended", "resolve", "get"}, op \in {"other", "blacklist", "unblacklist"}, t \in Targets :
         Goes(r, s) /\ call' = [call EXCEPT ![r] = Call(c, v, op, t)]
  <2>1. Guild \in Targets
    BY DEF Targets
  <2>2. CASE Goes(r, "ended") /\ call' = [call EXCEPT ![r] = Call(c, v, "other", Guild)]
    BY <2>1, <2>2
  <2>3. ASSUME NEW t \in Targets, NEW op \in {"blacklist", "unblacklist"},
               Goes(r, IF op = "blacklist" THEN "resolve" ELSE "get"),
               call' = [call EXCEPT ![r] = Call(c, v, op, t)]
        PROVE  \E s \in {"ended", "resolve", "get"}, o \in {"other", "blacklist", "unblacklist"},
                  x \in Targets : Goes(r, s) /\ call' = [call EXCEPT ![r] = Call(c, v, o, x)]
    <3>1. (IF op = "blacklist" THEN "resolve" ELSE "get") \in {"ended", "resolve", "get"}
      OBVIOUS
    <3> QED BY <2>3, <3>1
  <2> QED BY <2>2, <2>3 DEF Executes
<1> DEFINE ran == Call(c, v, op, t)
<1>6. /\ ran \in Ran /\ ran # NotYet
      /\ (ran.gap <=> c.bot /\ ~v.bot) /\ ran.user = c.user
  <2> DEFINE g == c.bot /\ ~v.bot
  <2>1. g \in BOOLEAN
    BY <1>3, <1>4
  <2>2. ran = [at |-> "ran", gap |-> g, user |-> c.user, op |-> op, target |-> t]
    BY DEF Call
  <2> HIDE DEF g, ran
  <2>3. ran \in Ran /\ ran.user = c.user /\ ran.gap = g
    BY <1>3, <2>1, <2>2 DEF Ran
  <2>4. ran.gap <=> g
    BY <2>3
  <2>5. ran.gap <=> c.bot /\ ~v.bot
    BY <2>4 DEF g
  <2> QED BY <2>3, <2>5, GateAbsent
<1>7. ran.gap => req[r].via = "message" /\ ran.user
  <2>1. CASE MessagePasses(c, req[r].by, v) /\ req[r].via = "message"
    BY <1>3, <1>6, <2>1 DEF MessagePasses
  <2>2. CASE OverridePasses(c, req[r].by, v)
    BY <1>6, <2>2 DEF OverridePasses
  <2>3. CASE SlashPasses(c, req[r].by, v)
    BY <1>6, <2>3 DEF SlashPasses
  <2> QED BY <2>1, <2>2, <2>3 DEF Executes
<1> HIDE DEF ran
<1>8. /\ call' \in [Requests -> Ran \cup {NotYet}] /\ call'[r] = ran
      /\ \A q \in Requests : q # r => call'[q] = call[q]
  BY <1>5, <1>6 DEF GateInv, GateTypes, ran
<1>9. s \in Stages
  BY DEF Stages
<1>10. /\ req' \in [Requests -> Asked \cup {NotYet}]
       /\ req'[r] # NotYet
       /\ req'[r].by = req[r].by /\ req'[r].via = req[r].via /\ req'[r].at = s
       /\ \A q \in Requests : q # r => req'[q] = req[q]
  BY <1>2, <1>5, <1>9, GoesOn DEF GateInv
<1>11. GateTypes'
  BY <1>1, <1>8, <1>10 DEF GateInv, GateTypes
<1>12. Read(r)'
  BY <1>1, <1>2, <1>6, <1>8, <1>10 DEF GateInv, Read
<1>13. \A q \in Requests : q # r /\ req'[q] # NotYet => Read(q)'
  BY <1>1, <1>8, <1>10 DEF GateInv, Read
<1>14. \A q \in Requests : Through(q)'
  BY <1>6, <1>7, <1>8, <1>10 DEF GateInv, Through
<1> QED BY <1>11, <1>12, <1>13, <1>14 DEF GateInv

\* The blacklist is changed.
LEMMA WritesStep ==
    ASSUME GateInv, NEW r \in Requests, Writes(r)
    PROVE  GateInv'
<1>1. /\ req[r].at = "write" /\ Goes(r, "ended") /\ UNCHANGED call
      /\ listed' = IF call[r].op = "blacklist" THEN listed \cup {call[r].target} ELSE listed \ {call[r].target}
      /\ clear' = [q \in Requests |->
                      IF req[q] = NotYet THEN {} ELSE clear[q] \cup ({req[q].by, Guild} \ listed')]
  BY DEF Writes
<1>2. req[r] # NotYet
  BY <1>1, GateAbsent
<1>3. call[r] \in Ran
  BY <1>1, <1>2 DEF GateInv, GateTypes, Read
<1>4. listed' \subseteq Targets
  <2>1. call[r].target \in Targets /\ listed \subseteq Targets
    BY <1>3 DEF Ran, GateInv, GateTypes
  <2> QED BY <1>1, <2>1
<1>5. \A q \in Requests : req[q] # NotYet => {req[q].by, Guild} \subseteq Targets
  BY DEF GateInv, GateTypes, Asked, Targets
<1>6. /\ clear' \in [Requests -> SUBSET Targets]
      /\ \A q \in Requests : req[q] # NotYet => clear'[q] = clear[q] \cup ({req[q].by, Guild} \ listed')
  <2>1. \A q \in Requests : clear[q] \in SUBSET Targets
    BY DEF GateInv, GateTypes
  <2> QED BY <1>1, <1>5, <2>1
<1>7. /\ req' \in [Requests -> Asked \cup {NotYet}]
      /\ req'[r] # NotYet
      /\ req'[r].by = req[r].by /\ req'[r].via = req[r].via /\ req'[r].at = "ended"
      /\ \A q \in Requests : q # r => req'[q] = req[q]
  BY <1>1, <1>2, GoesOn DEF GateInv, Stages
<1>8. GateTypes'
  BY <1>1, <1>4, <1>6, <1>7 DEF GateInv, GateTypes
<1>9. Read(r)'
  BY <1>1, <1>2, <1>6, <1>7 DEF GateInv, Read, Behind
<1>10. \A q \in Requests : q # r /\ req'[q] # NotYet => Read(q)'
  BY <1>1, <1>6, <1>7 DEF GateInv, Read
<1>11. \A q \in Requests : Through(q)'
  BY <1>1, <1>7 DEF GateInv, Through
<1> QED BY <1>8, <1>9, <1>10, <1>11 DEF GateInv

\* What is read of the blacklist before a command runs, in every order of the
\* commands that change it.
THEOREM Gating == GSpec => []GateInv
<1>1. GInit => GateInv
  BY DEF GInit, GateInv, GateTypes, Through
<1>2. GateInv /\ [GNext]_gvars => GateInv'
  <2> SUFFICES ASSUME GateInv, [GNext]_gvars PROVE GateInv'
    OBVIOUS
  <2>1. CASE UNCHANGED gvars
    BY <2>1 DEF gvars, GateInv, GateTypes, Read, Through
  <2>2. CASE GNext
    <3> PICK r \in Requests :
           \/ \E m \in Members, via \in {"message", "slash"} : Arrives(r, m, via)
           \/ ReadsSetting(r)
           \/ req[r] # NotYet /\ ReadsKey(r, "user", req[r].by)
           \/ ReadsKey(r, "guild", Guild)
           \/ ReadsTester(r)
           \/ \E c \in Commands, v \in Views : Executes(r, c, v)
           \/ Refused(r)
           \/ Resolves(r)
           \/ ReadsTarget(r)
           \/ Writes(r)
      BY <2>2 DEF GNext
    <3> QED BY ArrivesStep, ReadsStep, WaitsStep, RunsStep, WritesStep
  <2> QED BY <2>1, <2>2
<1> QED BY <1>1, <1>2, PTL DEF GSpec

\* The blacklist and what is seen of it stay members and the guild, and a command
\* has ended or awaits one of its calls.
THEOREM GateTypesHold == GSpec => []GTypeOK
<1>1. GateInv => GTypeOK
  <2> SUFFICES ASSUME GateInv PROVE GTypeOK
    OBVIOUS
  <2>1. \A r \in Requests : req[r] # NotYet => req[r] \in Asked /\ Read(r)
    BY DEF GateInv, GateTypes
  <2> QED BY <2>1 DEF Asked, Stages, Read, GateInv, GateTypes, GTypeOK
<1> QED BY <1>1, Gating, PTL

\* A command runs only if its member and its guild were each seen off the
\* blacklist since it came.
THEOREM BlacklistSeen == GSpec => []BlacklistHolds
<1>1. GateInv => BlacklistHolds
  BY DEF GateInv, Read, Through, BlacklistHolds
<1> QED BY <1>1, Gating, PTL

\* Only a message whose command asks the member for permissions runs without
\* those that the bot needs.
THEOREM GapOfMessages == GSpec => []BotPermGap
<1>1. GateInv => BotPermGap
  BY DEF GateInv, Through, BotPermGap
<1> QED BY <1>1, Gating, PTL

-----------------------------------------------------------------------------
(* The reminders: their types, that every confirmed one is accounted for,  *)
(* and that the two services and two stores implement the box.             *)

\* Where a reminder is in its command, its key, its row, its handler and the
\* channel fits together.
Order ==
    \A r \in Reminders :
        /\ cmd[r] = "set" => key[r] = "none" /\ job[r] = "none"
        /\ cmd[r] \in {"set", "insert"} => ~row[r] /\ job[r] \in {"none", "select", "done"}
        /\ key[r] = "live" => job[r] = "none"
        /\ r \in lost => cmd[r] # "set" /\ key[r] = "none" /\ job[r] \in {"none", "done"}
        /\ job[r] \in {"del", "post", "again"} => ~row[r]

Count ==
    \A r \in Reminders :
        /\ posted[r] = IF job[r] \in {"reply", "lastreply"} THEN 1
                       ELSE IF job[r] = "done" /\ r \notin lost THEN 1
                       ELSE posted[r]
        /\ posted[r] \in {0, 1}
        /\ job[r] \in Handling \union {"none"} => posted[r] = 0
        /\ posted[r] = 1 => ~row[r] /\ cmd[r] \notin {"set", "insert"} /\ r \notin lost

\* Nobody but a fault, counted among the lost, takes a reminder off its way.
OnItsWay ==
    \A r \in Reminders :
        /\ cmd[r] \in {"insert", "confirm", "confirmed"} =>
              key[r] = "live" \/ job[r] # "none" \/ r \in lost
        /\ cmd[r] \in {"confirm", "confirmed"} /\ r \notin lost =>
              \/ row[r] /\ (key[r] = "live" \/ job[r] \in {"select", "delete"})
              \/ job[r] \in {"del", "post", "again"}
              \/ posted[r] = 1

RemInv == RTypeOK /\ Order /\ Count /\ OnItsWay

\* The program starts in the invariant.
LEMMA RemInit == RInit => RemInv
BY FaultsAssumption DEF RInit, RemInv, RTypeOK, Order, Count, OnItsWay, Handling

\* A step of one reminder keeps it.
LEMMA RemOne ==
    ASSUME RemInv, NEW r \in Reminders,
           Command(r) \/ CommandFails(r) \/ Expires(r) \/ Handler(r)
             \/ Refuses(r) \/ LastReplyLost(r)
    PROVE  RemInv'
<1> USE FaultsAssumption DEF RemInv
<1>1. CASE SetsKey(r)
  <2>1. RTypeOK'
    BY <1>1 DEF SetsKey, Runs, RTypeOK, Handling
  <2>2. Order'
    BY <1>1 DEF SetsKey, Runs, RTypeOK, Order, Count, Handling
  <2>3. Count'
    BY <1>1 DEF SetsKey, Runs, RTypeOK, Order, Count, Handling
  <2>4. OnItsWay'
    BY <1>1 DEF SetsKey, Runs, RTypeOK, Order, Count, OnItsWay, Handling
  <2> QED BY <2>1, <2>2, <2>3, <2>4
<1>2. CASE Inserts(r)
  <2>1. RTypeOK'
    BY <1>2 DEF Inserts, Runs, RTypeOK, Handling
  <2>2. Order'
    BY <1>2 DEF Inserts, Runs, RTypeOK, Order, Count, Handling
  <2>3. Count'
    BY <1>2 DEF Inserts, Runs, RTypeOK, Order, Count, Handling
  <2>4. OnItsWay'
    BY <1>2 DEF Inserts, Runs, RTypeOK, Order, Count, OnItsWay, Handling
  <2> QED BY <2>1, <2>2, <2>3, <2>4
<1>3. CASE Confirms(r)
  <2>1. RTypeOK'
    BY <1>3 DEF Confirms, Runs, RTypeOK, Handling
  <2>2. Order'
    BY <1>3 DEF Confirms, Runs, RTypeOK, Order, Count, Handling
  <2>3. Count'
    BY <1>3 DEF Confirms, Runs, RTypeOK, Order, Count, Handling
  <2>4. OnItsWay'
    BY <1>3 DEF Confirms, Runs, RTypeOK, Order, Count, OnItsWay, Handling
  <2> QED BY <2>1, <2>2, <2>3, <2>4
<1>4. CASE CommandFails(r)
  <2>1. RTypeOK'
    BY <1>4 DEF CommandFails, Runs, AfterFailure, Fault, RTypeOK, Handling
  <2>2. Order'
    BY <1>4 DEF CommandFails, Runs, AfterFailure, Fault, RTypeOK, Order, Count, Handling
  <2>3. Count'
    BY <1>4 DEF CommandFails, Runs, AfterFailure, Fault, RTypeOK, Order, Count, Handling
  <2>4. OnItsWay'
    BY <1>4 DEF CommandFails, Runs, AfterFailure, Fault, RTypeOK, Order, Count, OnItsWay, Handling
  <2> QED BY <2>1, <2>2, <2>3, <2>4
<1>5. CASE Expires(r)
  <2>1. RTypeOK'
    BY <1>5 DEF Expires, RTypeOK, Handling
  <2>2. Order'
    BY <1>5 DEF Expires, RTypeOK, Order, Count, Handling
  <2>3. Count'
    BY <1>5 DEF Expires, RTypeOK, Order, Count, Handling
  <2>4. OnItsWay'
    BY <1>5 DEF Expires, RTypeOK, Order, Count, OnItsWay, Handling
  <2> QED BY <2>1, <2>2, <2>3, <2>4
<1>6. CASE Selects(r)
  <2>1. RTypeOK'
    BY <1>6 DEF Selects, Handles, RTypeOK, Handling
  <2>2. Order'
    BY <1>6 DEF Selects, Handles, RTypeOK, Order, Count, Handling
  <2>3. Count'
    BY <1>6 DEF Selects, Handles, RTypeOK, Order, Count, Handling
  <2>4. OnItsWay'
    BY <1>6 DEF Selects, Handles, RTypeOK, Order, Count, OnItsWay, Handling
  <2> QED BY <2>1, <2>2, <2>3, <2>4
<1>7. CASE SelectsNothing(r)
  <2>1. RTypeOK'
    BY <1>7 DEF SelectsNothing, Handles, RTypeOK, Handling
  <2>2. Order'
    BY <1>7 DEF SelectsNothing, Handles, RTypeOK, Order, Count, Handling
  <2>3. Count'
    BY <1>7 DEF SelectsNothing, Handles, RTypeOK, Order, Count, Handling
  <2>4. OnItsWay'
    BY <1>7 DEF SelectsNothing, Handles, RTypeOK, Order, Count, OnItsWay, Handling
  <2> QED BY <2>1, <2>2, <2>3, <2>4
<1>8. CASE Deletes(r)
  <2>1. RTypeOK'
    BY <1>8 DEF Deletes, Handles, RTypeOK, Handling
  <2>2. Order'
    BY <1>8 DEF Deletes, Handles, RTypeOK, Order, Count, Handling
  <2>3. Count'
    BY <1>8 DEF Deletes, Handles, RTypeOK, Order, Count, Handling
  <2>4. OnItsWay'
    BY <1>8 DEF Deletes, Handles, RTypeOK, Order, Count, OnItsWay, Handling
  <2> QED BY <2>1, <2>2, <2>3, <2>4
<1>9. CASE DeletesKey(r)
  <2>1. RTypeOK'
    BY <1>9 DEF DeletesKey, Handles, RTypeOK, Handling
  <2>2. Order'
    BY <1>9 DEF DeletesKey, Handles, RTypeOK, Order, Count, Handling
  <2>3. Count'
    BY <1>9 DEF DeletesKey, Handles, RTypeOK, Order, Count, Handling
  <2>4. OnItsWay'
    BY <1>9 DEF DeletesKey, Handles, RTypeOK, Order, Count, OnItsWay, Handling
  <2> QED BY <2>1, <2>2, <2>3, <2>4
<1>10. CASE Posts(r)
  <2>1. RTypeOK'
    BY <1>10 DEF Posts, Handles, RTypeOK, Handling
  <2>2. Order'
    BY <1>10 DEF Posts, Handles, RTypeOK, Order, Count, Handling
  <2>3. Count'
    BY <1>10 DEF Posts, Handles, RTypeOK, Order, Count, Handling
  <2>4. OnItsWay'
    BY <1>10 DEF Posts, Handles, RTypeOK, Order, Count, OnItsWay, Handling
  <2> QED BY <2>1, <2>2, <2>3, <2>4
<1>11. CASE Replied(r)
  <2>1. RTypeOK'
    BY <1>11 DEF Replied, Handles, RTypeOK, Handling
  <2>2. Order'
    BY <1>11 DEF Replied, Handles, RTypeOK, Order, Count, Handling
  <2>3. Count'
    BY <1>11 DEF Replied, Handles, RTypeOK, Order, Count, Handling
  <2>4. OnItsWay'
    BY <1>11 DEF Replied, Handles, RTypeOK, Order, Count, OnItsWay, Handling
  <2> QED BY <2>1, <2>2, <2>3, <2>4
<1>12. CASE RefusesReference(r)
  <2>1. RTypeOK'
    BY <1>12 DEF RefusesReference, Handles, RTypeOK, Handling
  <2>2. Order'
    BY <1>12 DEF RefusesReference, Handles, RTypeOK, Order, Count, Handling
  <2>3. Count'
    BY <1>12 DEF RefusesReference, Handles, RTypeOK, Order, Count, Handling
  <2>4. OnItsWay'
    BY <1>12 DEF RefusesReference, Handles, RTypeOK, Order, Count, OnItsWay, Handling
  <2> QED BY <2>1, <2>2, <2>3, <2>4
<1>13. CASE Refuses(r)
  <2>1. RTypeOK'
    BY <1>13 DEF Refuses, Handles, Fault, RTypeOK, Handling
  <2>2. Order'
    BY <1>13 DEF Refuses, Handles, Fault, RTypeOK, Order, Count, Handling
  <2>3. Count'
    BY <1>13 DEF Refuses, Handles, Fault, RTypeOK, Order, Count, Handling
  <2>4. OnItsWay'
    BY <1>13 DEF Refuses, Handles, Fault, RTypeOK, Order, Count, OnItsWay, Handling
  <2> QED BY <2>1, <2>2, <2>3, <2>4
<1>14. CASE LastReplyLost(r)
  <2>1. RTypeOK'
    BY <1>14 DEF LastReplyLost, Handles, Fault, RTypeOK, Handling
  <2>2. Order'
    BY <1>14 DEF LastReplyLost, Handles, Fault, RTypeOK, Order, Count, Handling
  <2>3. Count'
    BY <1>14 DEF LastReplyLost, Handles, Fault, RTypeOK, Order, Count, Handling
  <2>4. OnItsWay'
    BY <1>14 DEF LastReplyLost, Handles, Fault, RTypeOK, Order, Count, OnItsWay, Handling
  <2> QED BY <2>1, <2>2, <2>3, <2>4
<1> QED BY <1>1, <1>2, <1>3, <1>4, <1>5, <1>6, <1>7, <1>8, <1>9, <1>10, <1>11, <1>12, <1>13, <1>14 DEF Command, Handler

\* So does the end of the jobs service, whatever its handlers were at.
LEMMA RemAll ==
    ASSUME RemInv, Crashes \/ Restarts
    PROVE  RemInv'
<1> USE FaultsAssumption DEF RemInv
<1>1. CASE Crashes
  <2>1. RTypeOK'
    <3>1. faults' \in 0..MaxFaults
      BY <1>1 DEF Crashes, Fault, RTypeOK
    <3>2. job' \in [Reminders -> Handling \union {"none", "reply", "lastreply", "done"}]
      BY <1>1 DEF Crashes, Ended, RTypeOK
    <3> QED BY <1>1, <3>1, <3>2 DEF Crashes, RTypeOK
  <2>2. Order'
    BY <1>1 DEF Crashes, Ended, RTypeOK, Order, Handling
  <2>3. Count'
    BY <1>1 DEF Crashes, Ended, RTypeOK, Order, Count, Handling
  <2>4. OnItsWay'
    BY <1>1 DEF Crashes, Ended, RTypeOK, Order, Count, OnItsWay, Handling
  <2> QED BY <2>1, <2>2, <2>3, <2>4
<1>2. CASE Restarts
  BY <1>2 DEF Restarts, RTypeOK, Order, Count, OnItsWay
<1> QED BY <1>1, <1>2

\* the invariant holds in every reachable state.
THEOREM Reminding == RSpec => []RemInv
<1>1. RemInv /\ [RNext]_rvars => RemInv'
  <2> SUFFICES ASSUME RemInv, [RNext]_rvars PROVE RemInv'
    OBVIOUS
  <2>1. CASE UNCHANGED rvars
    BY <2>1 DEF rvars, RemInv, RTypeOK, Order, Count, OnItsWay
  <2> QED BY <2>1, RemOne, RemAll DEF RNext
<1> QED BY <1>1, RemInit, PTL DEF RSpec

\* the variables keep their types.
THEOREM RemindersTypes == RSpec => []RTypeOK
<1>1. RemInv => RTypeOK
  BY DEF RemInv
<1> QED BY <1>1, Reminding, PTL

\* a reminder that was confirmed is never just gone.
THEOREM ConfirmedAccounted == RSpec => []Accounted
<1>1. RemInv => Accounted
  BY DEF RemInv, OnItsWay, Accounted
<1> QED BY <1>1, Reminding, PTL

-----------------------------------------------------------------------------
(* The services implement the box.                                         *)

\* What is seen of a reminder can change in three ways only.
SeenStep(r) ==
    \/ Seen(r)' = Seen(r)
    \/ Seen(r) = "absent" /\ Seen(r)' = "set"
    \/ Seen(r) = "set" /\ Seen(r)' = "delivered"
    \/ Seen(r) \in {"absent", "set"} /\ Seen(r)' = "lost"

\* A step of one reminder.
LEMMA SeenOne ==
    ASSUME RemInv, RemInv', NEW r \in Reminders,
           Command(r) \/ CommandFails(r) \/ Expires(r) \/ Handler(r)
             \/ Refuses(r) \/ LastReplyLost(r)
    PROVE  SeenStep(r) /\ \A q \in Reminders \ {r} : Seen(q)' = Seen(q)
<1>0. RTypeOK /\ Order /\ Count /\ Count'
  BY DEF RemInv
<1> USE <1>0 DEF RTypeOK, Order, Count, Seen, SeenStep, Handling
<1>1. CASE SetsKey(r)
  <2>1. SeenStep(r)
    BY <1>1 DEF SetsKey, Runs
  <2>2. \A q \in Reminders \ {r} : Seen(q)' = Seen(q)
    BY <1>1 DEF SetsKey, Runs
  <2> QED BY <2>1, <2>2
<1>2. CASE Inserts(r)
  <2>1. SeenStep(r)
    BY <1>2 DEF Inserts, Runs
  <2>2. \A q \in Reminders \ {r} : Seen(q)' = Seen(q)
    BY <1>2 DEF Inserts, Runs
  <2> QED BY <2>1, <2>2
<1>3. CASE Confirms(r)
  <2>1. SeenStep(r)
    BY <1>3 DEF Confirms, Runs
  <2>2. \A q \in Reminders \ {r} : Seen(q)' = Seen(q)
    BY <1>3 DEF Confirms, Runs
  <2> QED BY <2>1, <2>2
<1>4. CASE CommandFails(r)
  <2>1. SeenStep(r)
    BY <1>4 DEF CommandFails, Runs, AfterFailure, Fault
  <2>2. \A q \in Reminders \ {r} : Seen(q)' = Seen(q)
    BY <1>4 DEF CommandFails, Runs, AfterFailure, Fault
  <2> QED BY <2>1, <2>2
<1>5. CASE Expires(r)
  <2>1. SeenStep(r)
    BY <1>5 DEF Expires
  <2>2. \A q \in Reminders \ {r} : Seen(q)' = Seen(q)
    BY <1>5 DEF Expires
  <2> QED BY <2>1, <2>2
<1>6. CASE Selects(r)
  <2>1. SeenStep(r)
    BY <1>6 DEF Selects, Handles
  <2>2. \A q \in Reminders \ {r} : Seen(q)' = Seen(q)
    BY <1>6 DEF Selects, Handles
  <2> QED BY <2>1, <2>2
<1>7. CASE SelectsNothing(r)
  <2>1. SeenStep(r)
    BY <1>7 DEF SelectsNothing, Handles
  <2>2. \A q \in Reminders \ {r} : Seen(q)' = Seen(q)
    BY <1>7 DEF SelectsNothing, Handles
  <2> QED BY <2>1, <2>2
<1>8. CASE Deletes(r)
  <2>1. SeenStep(r)
    BY <1>8 DEF Deletes, Handles
  <2>2. \A q \in Reminders \ {r} : Seen(q)' = Seen(q)
    BY <1>8 DEF Deletes, Handles
  <2> QED BY <2>1, <2>2
<1>9. CASE DeletesKey(r)
  <2>1. SeenStep(r)
    BY <1>9 DEF DeletesKey, Handles
  <2>2. \A q \in Reminders \ {r} : Seen(q)' = Seen(q)
    BY <1>9 DEF DeletesKey, Handles
  <2> QED BY <2>1, <2>2
<1>10. CASE Posts(r)
  <2>1. SeenStep(r)
    BY <1>10 DEF Posts, Handles
  <2>2. \A q \in Reminders \ {r} : Seen(q)' = Seen(q)
    BY <1>10 DEF Posts, Handles
  <2> QED BY <2>1, <2>2
<1>11. CASE Replied(r)
  <2>1. SeenStep(r)
    BY <1>11 DEF Replied, Handles
  <2>2. \A q \in Reminders \ {r} : Seen(q)' = Seen(q)
    BY <1>11 DEF Replied, Handles
  <2> QED BY <2>1, <2>2
<1>12. CASE RefusesReference(r)
  <2>1. SeenStep(r)
    BY <1>12 DEF RefusesReference, Handles
  <2>2. \A q \in Reminders \ {r} : Seen(q)' = Seen(q)
    BY <1>12 DEF RefusesReference, Handles
  <2> QED BY <2>1, <2>2
<1>13. CASE Refuses(r)
  <2>1. SeenStep(r)
    BY <1>13 DEF Refuses, Handles, Fault
  <2>2. \A q \in Reminders \ {r} : Seen(q)' = Seen(q)
    BY <1>13 DEF Refuses, Handles, Fault
  <2> QED BY <2>1, <2>2
<1>14. CASE LastReplyLost(r)
  <2>1. SeenStep(r)
    BY <1>14 DEF LastReplyLost, Handles, Fault
  <2>2. \A q \in Reminders \ {r} : Seen(q)' = Seen(q)
    BY <1>14 DEF LastReplyLost, Handles, Fault
  <2> QED BY <2>1, <2>2
<1> QED BY <1>1, <1>2, <1>3, <1>4, <1>5, <1>6, <1>7, <1>8, <1>9, <1>10, <1>11, <1>12, <1>13, <1>14 DEF Command, Handler

\* The end of the jobs service loses some and changes nothing else.
LEMMA SeenAll ==
    ASSUME RemInv, RemInv', Crashes \/ Restarts
    PROVE  \A r \in Reminders :
              Seen(r)' = Seen(r) \/ (Seen(r) \in {"absent", "set"} /\ Seen(r)' = "lost")
<1>0. RTypeOK /\ Order /\ Count /\ Count'
  BY DEF RemInv
<1> USE <1>0 DEF RTypeOK, Order, Count, Seen, Handling
<1>1. CASE Crashes
  BY <1>1 DEF Crashes, Ended
<1>2. CASE Restarts
  BY <1>2 DEF Restarts
<1> QED BY <1>1, <1>2

\* a reminder is delivered at most once, whatever fails, and a lost one
\* is not delivered after all.
THEOREM Implements == RSpec => Box!Safe
<1> DEFINE b == [r \in Reminders |-> Seen(r)]
<1>1. RInit => b = [r \in Reminders |-> "absent"]
  BY DEF RInit, Seen, Handling
<1>2. RemInv /\ RemInv' /\ [RNext]_rvars => Box!Next \/ b' = b
  <2> SUFFICES ASSUME RemInv, RemInv', [RNext]_rvars PROVE Box!Next \/ b' = b
    OBVIOUS
  <2>0. b' = [r \in Reminders |-> Seen(r)']
    OBVIOUS
  <2>1. CASE UNCHANGED rvars
    BY <2>0, <2>1 DEF rvars, Seen
  <2>2. ASSUME NEW r \in Reminders,
               Command(r) \/ CommandFails(r) \/ Expires(r) \/ Handler(r)
                 \/ Refuses(r) \/ LastReplyLost(r)
        PROVE  Box!Next \/ b' = b
    <3>1. SeenStep(r) /\ \A q \in Reminders \ {r} : Seen(q)' = Seen(q)
      BY <2>2, SeenOne
    <3>2. b' = [b EXCEPT ![r] = Seen(r)'] /\ b[r] = Seen(r)
      BY <2>0, <3>1
    <3>3. CASE Seen(r)' = Seen(r)
      BY <3>2, <3>3
    <3>4. CASE Seen(r) = "absent" /\ Seen(r)' = "set"
      BY <3>2, <3>4 DEF Box!Next, Box!Set, Box!Becomes
    <3>5. CASE Seen(r) = "set" /\ Seen(r)' = "delivered"
      BY <3>2, <3>5 DEF Box!Next, Box!Deliver, Box!Becomes
    <3>6. CASE Seen(r) \in {"absent", "set"} /\ Seen(r)' = "lost"
      <4>1. b' = [q \in Reminders |-> IF q \in {r} THEN "lost" ELSE b[q]]
        BY <3>2, <3>6
      <4>2. {r} \in SUBSET {q \in Reminders : b[q] \in {"absent", "set"}}
        BY <3>2, <3>6
      <4> QED BY <4>1, <4>2 DEF Box!Next, Box!LoseSome
    <3> QED BY <3>1, <3>3, <3>4, <3>5, <3>6 DEF SeenStep
  <2>3. CASE Crashes \/ Restarts
    <3> DEFINE R == {r \in Reminders : Seen(r)' # Seen(r)}
    <3>1. \A r \in Reminders :
             Seen(r)' = Seen(r) \/ (Seen(r) \in {"absent", "set"} /\ Seen(r)' = "lost")
      BY <2>3, SeenAll
    <3>2. b' = [q \in Reminders |-> IF q \in R THEN "lost" ELSE b[q]]
      BY <2>0, <3>1
    <3>3. R \in SUBSET {q \in Reminders : b[q] \in {"absent", "set"}}
      BY <3>1
    <3> QED BY <3>2, <3>3 DEF Box!Next, Box!LoseSome
  <2> QED BY <2>1, <2>2, <2>3 DEF RNext
<1>3. RInit => Box!Init
  BY <1>1 DEF Box!Init
<1>4. RemInv /\ RemInv' /\ [RNext]_rvars => [Box!Next]_b
  BY <1>2
<1> QED BY <1>3, <1>4, Reminding, PTL DEF RSpec, Box!Safe

=============================================================================
