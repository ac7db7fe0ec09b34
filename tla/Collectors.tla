------------------------------ MODULE Collectors ------------------------------
(***************************************************************************)
(* The interactive messages of the bot.  A command posts a message with    *)
(* buttons or a menu and a collector, which lives for a time and is handed *)
(* every press it matches.  A collector that names its message (option     *)
(* message) matches the presses on it; the others match every press on a   *)
(* component of their type, on whatever message.  Each matching collector  *)
(* runs a handler of its own, which answers the interaction, draws the     *)
(* pressed message again (editParent) or edits the message of its command. *)
(* Discord accepts one answer to an interaction; a second one rejects.     *)
(* Any call may reject as well, and ends the handler that made it: nothing *)
(* is tried again, and a rejection that nobody awaits is logged.           *)
(***************************************************************************)
EXTENDS Integers, Sequences

CONSTANTS
    Users,
    First,       \* the member who runs the first command
    NMessages,   \* messages and presses, numbered in their order
    NPresses,
    Languages,   \* config.languages
    LastPage     \* index of the last page of a list of emojis or tracks

ASSUME FirstAssumption == First \in Users
ASSUME BoundsAssumption == NMessages \in Nat /\ NPresses \in Nat /\ LastPage \in Nat

Messages == 1 .. NMessages
Presses == 1 .. NPresses

VARIABLES
    menu,     \* menu[m]: the command that posted m and the member who ran it
    live,     \* live[m]: the collector of that command has not ended
    shown,    \* shown[m]: the components on m
    text,     \* text[m]: what m says
    edits,    \* edits[m]: calls of msg.edit under way, in their order
    page,     \* page[m]: currentPage of an emoji list
    press,    \* press[p]: who pressed what, on which message
    acked,    \* acked[p]: Discord has an answer to the interaction
    hand,     \* hand[p][m]: the call the handler of m's collector awaits
    lang,     \* language of the guild's row
    crossed,  \* history: a collector was handed a press on another message
    raced,    \* history: messages that lost their components with a call under way
    kept      \* history: messages that did not lose them, the edit was rejected

vars == <<menu, live, shown, text, edits, page, press, acked, hand, lang, crossed, raced, kept>>

-----------------------------------------------------------------------------
(* Components are pairs of a command and the custom_id or the value.       *)

None == [kind |-> "none"]
Past == [kind |-> "past"]
Menus == {"home", "category", "search"}
Buttons == {"emojis", "avatar", "playlist", "loop", "language"}
Bound == {"home", "loop", "search"}                \* collectors with a message
Filtered == {"emojis", "avatar"}                   \* collectors with a filter
Kinds == Menus \cup Buttons

Pages == 0 .. LastPage                             \* 25 emojis, 10 tracks each

NaN == -9                                          \* Number() of a text
Number(b) == IF b[1] = "playlist" THEN b[2] ELSE NaN
Add(n, d) == IF n = NaN THEN NaN ELSE n + d
\* Mutant: the last page is not the last.
WrapLate(n) == CASE n # NaN /\ n > LastPage + 1 -> 0
                 [] n # NaN /\ n < 0 -> LastPage
                 [] OTHER -> n

Wrap(n) == CASE n # NaN /\ n > LastPage -> 0
             [] n # NaN /\ n < 0 -> LastPage
             [] OTHER -> n

Pager(n) == {<<"playlist", Add(n, -1)>>, <<"playlist", Add(n, 1)>>}

EmojiButtons == {<<"emojis", "backward">>, <<"emojis", "delete">>, <<"emojis", "forward">>}
LoopButtons == {<<"loop", "off">>, <<"loop", "track">>, <<"loop", "queue">>}
LanguageButtons == {<<"language", l>> : l \in Languages}
ProfileButton == {<<"avatar", "server_profile">>}
TrackMenu == {<<"search", "track">>}
HelpMenu == {<<"home", "home">>, <<"home", "type">>}
CategoryMenu == {<<"category", "home">>, <<"category", "name">>}

Components(k) ==
    CASE k = "home" -> HelpMenu
      [] k = "category" -> CategoryMenu
      [] k = "search" -> TrackMenu
      [] k = "emojis" -> EmojiButtons
      [] k = "avatar" -> ProfileButton
      [] k = "playlist" -> Pager(0)
      [] k = "loop" -> LoopButtons
      [] k = "language" -> LanguageButtons

FirstText(k) ==
    CASE k = "playlist" -> <<k, 0>>
      [] k = "emojis" -> <<"list", 0>>
      [] OTHER -> <<k, "first">>

Init ==
    /\ menu = [m \in Messages |-> None]
    /\ live = [m \in Messages |-> FALSE]
    /\ shown = [m \in Messages |-> {}]
    /\ text = [m \in Messages |-> <<"none">>]
    /\ edits = [m \in Messages |-> <<>>]
    /\ page = [m \in Messages |-> 0]
    /\ press = [p \in Presses |-> None]
    /\ acked = [p \in Presses |-> FALSE]
    /\ hand = [p \in Presses |-> [m \in Messages |-> "none"]]
    /\ lang \in Languages
    /\ crossed = FALSE
    /\ raced = {}
    /\ kept = {}

-----------------------------------------------------------------------------
(* A command posts its message and starts its collector.                   *)

\* Members differ by their names only: First is who comes first.
\* A list of emojis with one page only is posted without buttons.
Opens(m, u, k) ==
    /\ menu[m] = None
    /\ m = 1 => u = First
    /\ k = "emojis" => Pages # {0}
    /\ \A n \in 1 .. m - 1 : menu[n] # None
    /\ menu' = [menu EXCEPT ![m] = [kind |-> k, by |-> u]]
    /\ live' = [live EXCEPT ![m] = TRUE]
    /\ shown' = [shown EXCEPT ![m] = Components(k)]
    /\ text' = [text EXCEPT ![m] = FirstText(k)]
    /\ UNCHANGED <<edits, page, press, acked, hand, lang, crossed, raced, kept>>

-----------------------------------------------------------------------------
(* What the handlers do before their first await.                          *)

Matches(c, u, m, b) ==
    /\ live[c]
    /\ menu[c].kind \in Menus <=> b[1] \in Menus
    /\ menu[c].kind \in Bound => c = m
    /\ menu[c].kind \in Filtered => u = menu[c].by

\* The first call of the handler of collector c.  A member is in the voice
\* channel or not; a name that is no command throws in help.
FirstCalls(c, u, b) ==
    LET k == menu[c].kind IN
    CASE k \in {"home", "category", "search", "playlist"} /\ u # menu[c].by -> {"refuse"}
      [] k = "category" /\ u = menu[c].by /\ b[2] \notin {"home", "name"} -> {"none"}
      [] k = "search" /\ u = menu[c].by -> {"fetch"}
      [] k = "loop" -> {"refuse", "editParent"}
      [] k = "language" -> {"defer"}
      [] k = "avatar" -> {"deferUpdate"}
      [] k = "emojis" -> {"none"}
      [] OTHER -> {"editParent"}

\* The page of an emoji list after a press.
Turn(n, b) ==
    CASE b = <<"emojis", "forward">> -> IF n + 1 \in Pages THEN n + 1 ELSE 0
      [] b = <<"emojis", "backward">> -> IF n - 1 \in Pages THEN n - 1 ELSE LastPage
      [] OTHER -> n

Edit(t, s, stop) == [text |-> t, shown |-> s, stop |-> stop]
Same == <<"same">>
SameShown == {Same}
Clear == <<Edit(Same, {}, FALSE)>>

EmojiEdits(n, b) ==
    CASE b[1] = "emojis" /\ b[2] = "delete" -> <<Edit(Same, {}, TRUE)>>
      [] b[1] = "emojis" /\ b[2] # "delete" -> <<Edit(<<"list", Turn(n, b)>>, Components("emojis"), FALSE)>>
      [] OTHER -> <<>>

\* The handler of loop stops its collector at once; its end clears.
Stopped(c, b, call) == menu[c].kind = "loop" /\ b[1] = "loop" /\ call = "editParent"

IsPressed(p, u, m, b) ==
    LET handed == {c \in Messages : Matches(c, u, m, b)}
        lists == {c \in handed : menu[c].kind = "emojis"}
    IN  /\ press[p] = None
        /\ \A q \in 1 .. p - 1 : press[q] # None
        /\ b \in shown[m]
        /\ \E calls \in [Messages -> {"none", "refuse", "fetch", "editParent", "defer", "deferUpdate"}] :
              LET stop == {c \in handed : Stopped(c, b, calls[c])} IN
              /\ \A c \in Messages :
                    calls[c] \in IF c \in handed THEN FirstCalls(c, u, b) ELSE {"none"}
              /\ hand' = [hand EXCEPT ![p] = calls]
              /\ press' = [press EXCEPT ![p] = IF \A c \in Messages : calls[c] = "none" THEN Past
                              ELSE [kind |-> "press", by |-> u, on |-> m, what |-> b]]
              /\ live' = [c \in Messages |-> live[c] /\ c \notin stop]
              /\ edits' = [c \in Messages |-> edits[c] \o
                              CASE c \in lists -> EmojiEdits(page[c], b)
                                [] c \in stop -> Clear
                                [] OTHER -> <<>>]
        /\ page' = [c \in Messages |-> IF c \in lists THEN Turn(page[c], b) ELSE page[c]]
        /\ crossed' = (crossed \/ handed \ {m} # {})
        /\ UNCHANGED <<menu, shown, text, acked, lang, raced, kept>>

-----------------------------------------------------------------------------
(* Discord answers the first call of a handler.                            *)

\* The interaction is forgotten with the last of its handlers.
Continues(p, c, at, next, ack) ==
    /\ hand[p][c] = at
    /\ hand' = [hand EXCEPT ![p][c] = next]
    /\ LET over == \A d \in Messages : hand'[p][d] = "none" IN
       /\ press' = IF over THEN [press EXCEPT ![p] = Past] ELSE press
       /\ acked' = [acked EXCEPT ![p] = ack /\ ~over]

Answers(p, c, at, next) ==
    /\ ~acked[p]
    /\ Continues(p, c, at, next, TRUE)
    /\ UNCHANGED <<menu, live, page, lang, crossed, raced, kept>>

\* defer(64) and a followup that only the presser sees.
Declines(p, c) == Answers(p, c, "refuse", "none") /\ UNCHANGED <<shown, text, edits>>

DefersLanguage(p, c) ==
    /\ Answers(p, c, "defer", IF press[p].by = menu[c].by THEN "change" ELSE "none")
    /\ UNCHANGED <<shown, text, edits>>

DefersUpdate(p, c) ==
    /\ Answers(p, c, "deferUpdate", "none")
    /\ LET b == press[p].what
           other == IF b[2] = "server_profile" THEN "user_profile" ELSE "server_profile"
       IN  edits' = IF b[1] = "avatar"
                    THEN [edits EXCEPT ![c] = Append(@, Edit(b, {<<"avatar", other>>}, FALSE))]
                    ELSE edits
    /\ UNCHANGED <<shown, text>>

\* editParent draws the message that was pressed, with or without components.
Drawn(c, b, old) ==
    LET k == menu[c].kind
        n == Wrap(Number(b))
    IN  CASE k = "playlist" -> [text |-> <<k, n>>, shown |-> Pager(n)]
          [] k = "loop" -> [text |-> IF b[1] = "loop" THEN b ELSE <<"loop", "undefined">>, shown |-> old]
          [] k \in {"home", "category"} ->
                [text |-> <<k, b[2]>>, shown |-> IF b[2] = "home" THEN Components(k) ELSE old]

EditsParent(p, c) ==
    LET m == press[p].on
        d == Drawn(c, press[p].what, shown[m])
    IN  /\ Answers(p, c, "editParent", "none")
        /\ text' = [text EXCEPT ![m] = d.text]
        /\ shown' = [shown EXCEPT ![m] = d.shown]
        /\ UNCHANGED edits

\* Another handler was faster, or the call fails: it rejects, and its handler
\* ends.  A track that has expired ends the handler of a search.
Rejects(p, c) ==
    /\ hand[p][c] # "none"
    /\ Continues(p, c, hand[p][c], "none", acked[p])
    /\ UNCHANGED <<menu, live, shown, text, edits, page, lang, crossed, raced, kept>>

\* The custom_id of another button has no third part.
Chosen(b) == IF b[1] = "language" THEN b[2] ELSE "undefined"

\* After the followup: msg.edit of the text is not awaited, updateLanguage is,
\* and may reject.
ChangesLanguage(p, c) ==
    LET l == Chosen(press[p].what)
        e == Edit(<<"language", l>>, SameShown, FALSE)
    IN  /\ Continues(p, c, "change", "none", acked[p])
        /\ edits' = [edits EXCEPT ![c] = Append(@, e)]
        /\ lang' \in {lang, l}
        /\ UNCHANGED <<menu, live, shown, text, page, crossed, raced, kept>>

\* A search reads the track and puts it into the queue, or finds that the
\* player is connecting; it stops its collector after two awaits, so that the
\* handler of a second press may add a track as well.
FetchesTrack(p, c) ==
    /\ \E next \in {"refuse", "announce"} : Continues(p, c, "fetch", next, acked[p])
    /\ UNCHANGED <<menu, live, shown, text, edits, page, lang, crossed, raced, kept>>

\* Mutant: the end removes no components.
StopsSilently(c) == live' = [live EXCEPT ![c] = FALSE] /\ UNCHANGED edits

\* stop() ends a live collector once; its end removes the components.
Stops(c) ==
    /\ live' = [live EXCEPT ![c] = FALSE]
    /\ edits' = IF live[c] THEN [edits EXCEPT ![c] = @ \o Clear] ELSE edits

AnnouncesTrack(p, c) ==
    /\ Continues(p, c, "announce", "none", acked[p])
    /\ Stops(c)
    /\ UNCHANGED <<menu, shown, text, page, lang, crossed, raced, kept>>

-----------------------------------------------------------------------------
(* The time of a collector, and the edits of messages.                     *)

\* Mutant: a collector of buttons has no time.
TimesOutMenus(c) ==
    /\ live[c]
    /\ menu[c].kind \in Menus
    /\ Stops(c)
    /\ UNCHANGED <<menu, shown, text, page, press, acked, hand, lang, crossed, raced, kept>>

TimesOut(c) ==
    /\ live[c]
    /\ Stops(c)
    /\ UNCHANGED <<menu, shown, text, page, press, acked, hand, lang, crossed, raced, kept>>

Busy(m) == \E p \in Presses, c \in Messages : hand[p][c] # "none" /\ m \in {c, press[p].on}

\* An emoji list stops when the edit of its button delete is answered.
IsEdited(m) ==
    LET e == Head(edits[m])
        rest == Tail(edits[m])
        stops == e.stop /\ live[m]
    IN  /\ edits[m] # <<>>
        /\ text' = IF e.text = Same THEN text ELSE [text EXCEPT ![m] = e.text]
        /\ shown' = IF e.shown = SameShown THEN shown ELSE [shown EXCEPT ![m] = e.shown]
        /\ live' = [live EXCEPT ![m] = @ /\ ~e.stop]
        /\ edits' = [edits EXCEPT ![m] = IF stops THEN rest \o Clear ELSE rest]
        /\ raced' = IF e.shown = {} /\ (Busy(m) \/ rest # <<>>) THEN raced \cup {m} ELSE raced
        /\ UNCHANGED <<menu, page, press, acked, hand, lang, crossed, kept>>

\* Nothing edits the message again; an emoji list goes on.
IsNotEdited(m) ==
    /\ edits[m] # <<>>
    /\ edits' = [edits EXCEPT ![m] = Tail(@)]
    /\ kept' = IF Head(edits[m]) = Head(Clear) THEN kept \cup {m} ELSE kept
    /\ UNCHANGED <<menu, live, shown, text, page, press, acked, hand, lang, crossed, raced>>

-----------------------------------------------------------------------------

HandlerStep(p, c) ==
    \/ Declines(p, c)
    \/ DefersLanguage(p, c)
    \/ DefersUpdate(p, c)
    \/ EditsParent(p, c)
    \/ Rejects(p, c)
    \/ ChangesLanguage(p, c)
    \/ FetchesTrack(p, c)
    \/ AnnouncesTrack(p, c)

Running ==
    \/ \E p \in Presses, c \in Messages : HandlerStep(p, c)
    \/ \E m \in Messages : TimesOut(m) \/ IsEdited(m) \/ IsNotEdited(m)

Next ==
    \/ \E m \in Messages, u \in Users, k \in Kinds : Opens(m, u, k)
    \/ \E p \in Presses, u \in Users, m \in Messages : \E b \in shown[m] : IsPressed(p, u, m, b)
    \/ Running

\* Every call is answered or rejected, and every collector has a time.
Fairness == WF_vars(Running)

Spec == Init /\ [][Next]_vars /\ Fairness

-----------------------------------------------------------------------------
(* Properties.                                                             *)

\* What a message says, the components it shows and the language stay values
\* of the commands.
Values ==
    {<<"none">>} \cup (UNION {Components(k) : k \in Kinds})
        \cup {FirstText(k) : k \in Kinds}
        \cup {<<"avatar", "user_profile">>, <<"loop", "undefined">>, <<"language", "undefined">>}
        \cup {<<k, n>> : k \in {"playlist", "list"}, n \in (-1 .. LastPage + 1) \cup {NaN}}
        \cup {<<"category", "type">>, <<"home", "name">>}

TypeOK ==
    /\ \A m \in Messages : text[m] \in Values /\ shown[m] \subseteq Values /\ page[m] \in Pages
    /\ \A m \in Messages : live[m] => menu[m] # None
    /\ \A p \in Presses, m \in Messages : hand[p][m] # "none" => press[p] # None /\ menu[m] # None
    /\ lang \in Languages \cup {"undefined"}

\* A page that does not exist, a mode that does not exist, the language undefined
\* or a message with the text of another command comes about only if a collector
\* was handed a press on the message of another command (option message is
\* missing in playlist.ts, language.ts).
UndefinedNeedsCrossTalk ==
    \/ crossed
    \/ /\ lang \in Languages
       /\ \A m \in Messages :
             menu[m] # None =>
                 text[m][1] = IF menu[m].kind = "emojis" THEN "list" ELSE menu[m].kind
       /\ \A m \in Messages : text[m][1] = "playlist" => text[m][2] \in Pages
       /\ \A m \in Messages : text[m] # <<"loop", "undefined">>

\* A message whose collector has ended shows components, which nothing answers,
\* only if a handler had a call under way when they were removed, or the one
\* edit that removes them was rejected (the end handlers of avatar.ts, help.ts,
\* playlist.ts, language.ts, loop.ts, emojis.ts).
DeadNeedsCause ==
    \A m \in Messages :
        menu[m] # None /\ ~live[m] /\ edits[m] = <<>> /\ shown[m] # {} => m \in raced \cup kept

\* "Only the command executor can use this!" (locales/en-US/commands.json, the
\* text that help.ts shows to anybody else): what a help menu says changes on
\* selections of the member who asked for it.  It does not hold: the collector of
\* another member's category menu takes the selection as one on its own menu.
OnlyExecutor ==
    [][\A m \in Messages :
          menu[m].kind \in {"home", "category"} /\ text'[m] # text[m]
             => \E p \in Presses : hand'[p] # hand[p] /\ press[p].by = menu[m].by]_vars

\* Every collector ends, every edit is answered or rejected and every handler
\* ends, however commands, presses, rejections and the ends of collectors mix.
Settles ==
    []<>/\ \A m \in Messages : ~live[m] /\ edits[m] = <<>>
        /\ \A p \in Presses, c \in Messages : hand[p][c] = "none"
===============================================================================
