--------------------------- MODULE StarboardProofs ---------------------------
(* The starboard, for every number of reactions, messages and commands.    *)
EXTENDS Starboard, TLAPS

-----------------------------------------------------------------------------
(* Lists and what they hold.                                               *)

LEMMA EmptyList == Range(<<>>) = {}
  BY DEF Range

LEMMA OneEntry == \A h \in Handlers : Range(<<h>>) = {h} /\ DOMAIN <<h>> = {1}
  BY DEF Range

LEMMA AppendEntry ==
  ASSUME NEW s \in Seq(Handlers), NEW h \in Handlers
  PROVE  /\ Range(Append(s, h)) = Range(s) \union {h}
         /\ Append(s, h) \in Seq(Handlers)
         /\ Append(s, h) # <<>>
         /\ DOMAIN Append(s, h) = DOMAIN s \union {Len(s) + 1}
         /\ Append(s, h)[Len(s) + 1] = h
         /\ \A i \in DOMAIN s : Append(s, h)[i] = s[i]
  <1>1. /\ DOMAIN Append(s, h) = DOMAIN s \union {Len(s) + 1}
        /\ Append(s, h)[Len(s) + 1] = h
        /\ \A i \in DOMAIN s : Append(s, h)[i] = s[i]
        /\ Append(s, h) \in Seq(Handlers)
        /\ Append(s, h) # <<>>
    OBVIOUS
  <1>2. Range(Append(s, h)) = Range(s) \union {h}
    BY <1>1, Zenon DEF Range
  <1>3. QED
    BY <1>1, <1>2

LEMMA SomeEntry ==
  ASSUME NEW s \in Seq(Handlers)
  PROVE  /\ Range(s) \subseteq Handlers
         /\ s # <<>> => Range(s) # {}
  <1>1. Range(s) \subseteq Handlers
    BY DEF Range
  <1>2. s # <<>> => 1 \in DOMAIN s
    OBVIOUS
  <1>3. QED
    BY <1>1, <1>2 DEF Range

-----------------------------------------------------------------------------
(* Types.                                                                  *)

LEMMA Places ==
  ASSUME TypeOK, NEW h \in Handlers,
         NEW l \in {"idle", "edit", "post", "store", "done"}, Goto(h, l)
  PROVE  /\ pc' \in [Handlers -> {"idle", "edit", "post", "store", "done"}]
         /\ pc'[h] = l
         /\ \A g \in Handlers : g # h => pc'[g] = pc[g]
  BY DEF TypeOK, Goto

LEMMA StoreTypes ==
  ASSUME TypeOK, NEW h \in Handlers
  PROVE  /\ Concat(ids, h) \in Seq(Handlers)
         /\ <<h>> \in Seq(Handlers)
         /\ <<>> \in Seq(Handlers)
  <1>1. ids \in Seq(Handlers)
    BY DEF TypeOK
  <1>2. QED
    BY <1>1, AppendEntry DEF Concat

LEMMA SafeType ==
  ASSUME TypeOK, ids' \in Seq(Handlers), Remember
  PROVE  safe' \subseteq Handlers
  <1>1. Listed' \subseteq Handlers
    BY SomeEntry DEF Listed
  <1>2. QED
    BY <1>1 DEF TypeOK, Remember

LEMMA TypeStep == TypeOK /\ [Next]_vars => TypeOK'
  <1> SUFFICES ASSUME TypeOK, [Next]_vars PROVE TypeOK'
    OBVIOUS
  <1>1. CASE Next
    <2>1. ids' \in Seq(Handlers) /\ UNCHANGED msg
      <3>1. ASSUME NEW h \in Handlers, Store(h) PROVE ids' \in Seq(Handlers) /\ UNCHANGED msg
        BY <3>1, StoreTypes DEF Store, TypeOK
      <3>2. ASSUME NEW h \in Handlers,
                   Ignored(h) \/ EditStarts(h) \/ EditEnds(h) \/ PostStarts(h) \/ Posted(h)
            PROVE  ids' = ids /\ UNCHANGED msg
        BY <3>2, Zenon DEF Ignored, EditStarts, EditEnds, PostStarts, Posted
      <3>3. ASSUME NEW c \in Commands, Asks(c) \/ Creates(c) \/ Deletes(c) \/ CommandFails(c)
            PROVE  ids' \in {ids, <<>>} /\ UNCHANGED msg
        BY <3>3 DEF Asks, Creates, Deletes, CommandFails, InsertKeeps, hvars
      <3>4. ids \in Seq(Handlers) /\ <<>> \in Seq(Handlers)
        BY DEF TypeOK
      <3>5. QED
        BY <1>1, <3>1, <3>2, <3>3, <3>4 DEF Next, Step
    <2>2. safe' \subseteq Handlers
      BY <1>1, <2>1, SafeType DEF Next
    <2>3. ASSUME NEW h \in Handlers, Ignored(h) \/ EditStarts(h) \/ EditEnds(h)
          PROVE  TypeOK'
      BY <2>1, <2>2, <2>3, Places DEF Ignored, EditStarts, EditEnds, TypeOK
    <2>4. ASSUME NEW h \in Handlers, PostStarts(h)
          PROVE  TypeOK'
      <3>1. empty' \in [Handlers -> BOOLEAN] /\ raced' \subseteq Messages /\ mishap' \in BOOLEAN
        BY <2>4 DEF PostStarts, TypeOK
      <3>2. QED
        BY <2>1, <2>2, <2>4, <3>1, Places DEF PostStarts, TypeOK
    <2>5. ASSUME NEW h \in Handlers, Posted(h)
          PROVE  TypeOK'
      <3>1. posts' \subseteq Handlers /\ faults' \in 0..MaxFaults
        BY <2>5, FaultsAssumption DEF Posted, TypeOK
      <3>2. pc' \in [Handlers -> {"idle", "edit", "post", "store", "done"}]
        BY <2>5, Places DEF Posted
      <3>3. QED
        BY <2>1, <2>2, <2>5, <3>1, <3>2 DEF Posted, TypeOK
    <2>6. ASSUME NEW h \in Handlers, Store(h)
          PROVE  TypeOK'
      <3>1. faults' \in 0..MaxFaults
        BY <2>6, FaultsAssumption DEF Store, TypeOK
      <3>4. mishap' \in BOOLEAN
        BY <2>6, Zenon DEF Store, TypeOK
      <3>2. pc' \in [Handlers -> {"idle", "edit", "post", "store", "done"}]
        BY <2>6, Places DEF Store
      <3>3. QED
        BY <2>1, <2>2, <2>6, <3>1, <3>2, <3>4 DEF Store, TypeOK
    <2>7. ASSUME NEW c \in Commands, Asks(c) \/ Creates(c) \/ Deletes(c) \/ CommandFails(c)
          PROVE  TypeOK'
      <3>1. cpc' \in [Commands -> {"idle", "create", "delete", "done"}]
        BY <2>7 DEF Asks, Creates, Deletes, CommandFails, Cgoto, TypeOK
      <3>2. faults' \in 0..MaxFaults
        BY <2>7, FaultsAssumption DEF Asks, Creates, Deletes, CommandFails, TypeOK
      <3>4. exists' \in BOOLEAN /\ mishap' \in BOOLEAN
        BY <2>7, Zenon DEF Asks, Creates, Deletes, CommandFails, TypeOK
      <3>3. QED
        BY <2>1, <2>2, <2>7, <3>1, <3>2, <3>4 DEF Asks, Creates, Deletes, CommandFails, hvars, TypeOK
    <2>8. QED
      BY <1>1, <2>3, <2>4, <2>5, <2>6, <2>7 DEF Next, Step
  <1>2. CASE UNCHANGED vars
    BY <1>2 DEF vars, hvars, TypeOK
  <1>3. QED
    BY <1>1, <1>2

-----------------------------------------------------------------------------
(* The inductive invariant, one step per action.                           *)

\* What is safe stays so if the list keeps it and no post starts to pend on an
\* empty list while something is safe.
LEMMA SafeStep ==
  ASSUME Remember,
         ~exists' => ids' = <<>>,
         exists' => safe \subseteq Listed',
         exists' /\ PostingOnEmpty' # {} => safe = {}
  PROVE  Gone' /\ NothingSafeYet' /\ SafeStays'
  BY DEF Remember, Gone, NothingSafeYet, SafeStays

LEMMA QuietStep ==
  ASSUME IInv, Remember \/ UNCHANGED safe,
         UNCHANGED <<exists, ids, posts, msg, empty, raced, mishap>>,
         Posting' = Posting,
         \A h \in Handlers : pc[h] \in {"store", "done"} => pc'[h] = pc[h],
         TypeOK'
  PROVE  IInv'
  <1> USE DEF IInv
  <1>1. Listed' = Listed /\ PostingOnEmpty' = PostingOnEmpty
    BY DEF Listed, PostingOnEmpty
  <1>2. Gone' /\ NothingSafeYet' /\ SafeStays'
    <2>1. CASE Remember
      BY <1>1, <2>1, SafeStep DEF Gone, SafeStays, NothingSafeYet
    <2>2. CASE UNCHANGED safe
      BY <1>1, <2>2 DEF Gone, SafeStays, NothingSafeYet
    <2>3. QED
      BY <2>1, <2>2
  <1>3. Listed \subseteq Handlers /\ posts \subseteq Handlers
    BY SomeEntry DEF TypeOK, Listed
  <1>4. ListedWerePosted'
    BY <1>1, <1>3 DEF ListedWerePosted
  <1>5. PostsAlone' /\ NoMishapYet'
    BY <1>1, Zenon DEF PostsAlone, NoMishapYet
  <1>6. DoubleNeedsRace'
    BY DEF DoubleNeedsRace
  <1>7. BoardAgrees'
    BY <1>1, <1>3 DEF BoardAgrees
  <1>8. QED
    BY <1>2, <1>4, <1>5, <1>6, <1>7

LEMMA PostStartsStep ==
  ASSUME IInv, TypeOK', Remember, NEW h \in Handlers, PostStarts(h)
  PROVE  IInv'
  <1> USE DEF IInv
  <1>1. /\ pc'[h] = "post" /\ \A g \in Handlers : g # h => pc'[g] = pc[g]
        /\ pc[h] = "idle" /\ exists /\ ~Found(h)
        /\ UNCHANGED <<exists, ids, posts, msg>>
    BY Places DEF PostStarts
  <1>2. Posting' = Posting \union {h} /\ h \notin Posting /\ Listed' = Listed
    BY <1>1 DEF Posting, Listed
  <1>3. Listed \subseteq Handlers /\ posts \subseteq Handlers /\ Posting \subseteq Handlers
    BY SomeEntry DEF TypeOK, Listed, Posting
  <1>4. /\ empty'[h] <=> ids = <<>>
        /\ \A g \in Handlers : g # h => empty'[g] = empty[g]
    BY DEF PostStarts, TypeOK
  <1>5. /\ raced \subseteq raced'
        /\ msg[h] \notin raced' => \A g \in Posting : msg[g] # msg[h]
        /\ \A m \in raced' : m \in raced \/ m = msg[h]
    BY Zenon DEF PostStarts
  <1>6. ~mishap' => ~mishap /\ msg[h] \notin raced' /\ PostingOnEmpty = {}
    BY Zenon DEF PostStarts
  <1>7. h \notin Listed /\ h \notin posts
    BY <1>1 DEF ListedWerePosted
  <1>8. Gone' /\ NothingSafeYet' /\ SafeStays'
    <2>1. ids = <<>> => safe = {}
      BY EmptyList DEF SafeStays, Listed
    <2>2. PostingOnEmpty' # {} => PostingOnEmpty # {} \/ ids = <<>>
      BY <1>2, <1>3, <1>4 DEF PostingOnEmpty
    <2>3. QED
      BY <1>1, <1>2, <2>1, <2>2, SafeStep DEF SafeStays, NothingSafeYet
  <1>9. ListedWerePosted'
    BY <1>1, <1>2, <1>3, <1>7 DEF ListedWerePosted
  <1>10. PostsAlone'
    <2>1. \A g \in Listed : msg[g] # msg[h]
      BY <1>1 DEF Found
    <2>2. QED
      BY <1>1, <1>2, <1>5, <2>1 DEF PostsAlone
  <1>11. NoMishapYet'
    <2> SUFFICES ASSUME ~mishap' PROVE NoMishapYet!2'
      BY DEF NoMishapYet
    <2>1. raced' = {}
      BY <1>5, <1>6 DEF NoMishapYet
    <2>2. \A g \in Posting : ~empty[g] /\ ids # <<>>
      BY <1>6, <1>3 DEF NoMishapYet, PostingOnEmpty
    <2>3. ASSUME NEW g \in Posting'
          PROVE  /\ exists'
                 /\ empty'[g] => ids' = <<>> /\ Posting' = {g}
                 /\ ~empty'[g] => ids' # <<>>
      <3>1. CASE g = h
        BY <1>1, <1>2, <1>4, <2>2, <3>1
      <3>2. CASE g # h
        BY <1>1, <1>2, <1>3, <1>4, <2>2, <2>3, <3>2
      <3>3. QED
        BY <3>1, <3>2
    <2>4. QED
      BY <2>1, <2>3
  <1>12. DoubleNeedsRace'
    BY <1>1, <1>5 DEF DoubleNeedsRace
  <1>13. BoardAgrees'
    BY <1>1, <1>2, <1>3, <1>6, <1>7 DEF BoardAgrees
  <1>14. QED
    BY <1>8, <1>9, <1>10, <1>11, <1>12, <1>13

LEMMA PostedStep ==
  ASSUME IInv, TypeOK', Remember, NEW h \in Handlers, Posted(h)
  PROVE  IInv'
  <1> USE DEF IInv
  <1>1. /\ pc[h] = "post" /\ pc'[h] \in {"store", "done"}
        /\ \A g \in Handlers : g # h => pc'[g] = pc[g]
        /\ posts' \subseteq posts \union {h}
        /\ pc'[h] = "done" => posts' = posts
        /\ UNCHANGED <<exists, ids, msg, empty, raced, mishap>>
    BY Places DEF Posted
  <1>2. /\ Posting' \subseteq Posting /\ PostingOnEmpty' \subseteq PostingOnEmpty
        /\ h \in Posting /\ Listed' = Listed
    BY <1>1 DEF Posting, PostingOnEmpty, Listed
  <1>3. Listed \subseteq Handlers /\ posts \subseteq Handlers
    BY SomeEntry DEF TypeOK, Listed
  <1>4. h \notin Listed /\ h \notin posts
    BY <1>1 DEF ListedWerePosted
  <1>5. Gone' /\ NothingSafeYet' /\ SafeStays'
    BY <1>1, <1>2, SafeStep DEF SafeStays, NothingSafeYet, Gone
  <1>6. ListedWerePosted'
    BY <1>1, <1>2, <1>3, <1>4 DEF ListedWerePosted
  <1>7. PostsAlone'
    BY <1>1, <1>2 DEF PostsAlone
  <1>8. NoMishapYet'
    BY <1>1, <1>2 DEF NoMishapYet
  <1>9. DoubleNeedsRace'
    BY <1>1 DEF DoubleNeedsRace
  <1>10. BoardAgrees'
    <2>1. ASSUME ~mishap, NEW g \in posts PROVE msg[g] # msg[h]
      <3>1. g \in Listed \/ pc[g] = "store"
        BY <2>1 DEF BoardAgrees
      <3>2. pc[g] = "store" => g \in Posting /\ g # h
        BY <1>1, <1>3 DEF Posting
      <3>3. QED
        BY <1>2, <2>1, <3>1, <3>2 DEF PostsAlone, NoMishapYet
    <2>2. posts' # posts => pc'[h] = "store"
      BY <1>1
    <2>3. ASSUME ~mishap', NEW f \in posts', NEW g \in posts', f # g
          PROVE  msg'[f] # msg'[g]
      BY <1>1, <2>1, <2>3 DEF BoardAgrees
    <2>4. ASSUME ~mishap', NEW g \in posts'
          PROVE  g \in Listed' \/ pc'[g] = "store"
      BY <1>1, <1>2, <1>3, <2>2, <2>4 DEF BoardAgrees
    <2>5. QED
      BY <2>3, <2>4 DEF BoardAgrees
  <1>11. QED
    BY <1>5, <1>6, <1>7, <1>8, <1>9, <1>10

LEMMA StoreStep ==
  ASSUME IInv, TypeOK', Remember, NEW h \in Handlers, Store(h)
  PROVE  IInv'
  <1> USE DEF IInv
  <1>1. /\ pc[h] = "store" /\ pc'[h] = "done"
        /\ \A g \in Handlers : g # h => pc'[g] = pc[g]
        /\ UNCHANGED <<exists, posts, msg, empty, raced>>
    BY Places DEF Store
  <1>2. Posting' = Posting \ {h} /\ h \in Posting
    BY <1>1 DEF Posting
  <1>3. Listed \subseteq Handlers /\ posts \subseteq Handlers /\ ids \in Seq(Handlers)
    BY SomeEntry DEF TypeOK, Listed
  <1>4. PostingOnEmpty' \subseteq PostingOnEmpty /\ (empty[h] => h \in PostingOnEmpty)
    BY <1>1, <1>2 DEF PostingOnEmpty
  <1>5. \/ ids' = ids /\ (mishap' \/ (~exists /\ mishap' = mishap))
        \/ exists /\ mishap' = mishap /\ empty[h] /\ ids' = <<h>>
        \/ exists /\ mishap' = mishap /\ ~empty[h] /\ ids = <<>> /\ ids' = ids
        \/ exists /\ mishap' = mishap /\ ~empty[h] /\ ids # <<>> /\ ids' = Append(ids, h)
    BY Zenon DEF Store, Concat
  <1>6. /\ ids' = ids => Listed' = Listed
        /\ ids' = <<h>> => Listed' = {h}
        /\ ids' = Append(ids, h) => Listed' = Listed \union {h}
        /\ ids = <<>> => Listed = {}
    <2>1. Range(Append(ids, h)) = Listed \union {h}
      BY <1>3, AppendEntry DEF Listed
    <2>2. Range(<<h>>) = {h} /\ Range(<<>>) = {}
      BY EmptyList, OneEntry
    <2>3. QED
      BY <2>1, <2>2, Zenon DEF Listed
  <1>7. \/ Listed' = Listed
        \/ empty[h] /\ Listed' = {h}
        \/ Listed' = Listed \union {h}
    BY <1>5, <1>6
  <1>8. Listed' \subseteq Listed \union {h}
    BY <1>7
  <1>9. Gone' /\ NothingSafeYet' /\ SafeStays'
    <2>1. safe \subseteq Listed'
      BY <1>4, <1>7 DEF SafeStays, NothingSafeYet
    <2>2. ~exists' => ids' = <<>>
      BY <1>1, <1>5 DEF Gone
    <2>3. QED
      BY <1>4, <2>1, <2>2, SafeStep DEF NothingSafeYet
  <1>10. ListedWerePosted'
    BY <1>1, <1>3, <1>8 DEF ListedWerePosted
  <1>11. PostsAlone'
    BY <1>1, <1>2, <1>8 DEF PostsAlone
  <1>12. NoMishapYet'
    <2>1. ASSUME ~mishap', NEW g \in Posting'
          PROVE  ~empty[h] /\ ids' # <<>>
      <3>1. ~mishap /\ exists
        BY <1>2, <1>5, <2>1 DEF NoMishapYet
      <3>2. ~empty[h] /\ ids # <<>>
        BY <1>2, <2>1, <3>1 DEF NoMishapYet
      <3>3. QED
        BY <1>3, <1>5, <2>1, <3>1, <3>2, AppendEntry
    <2>2. ~mishap' => ~mishap
      BY <1>5
    <2>3. QED
      BY <1>1, <1>2, <2>1, <2>2 DEF NoMishapYet
  <1>13. DoubleNeedsRace'
    <2>1. CASE ids' = ids
      BY <1>1, <2>1 DEF DoubleNeedsRace
    <2>2. CASE ids' = <<h>>
      BY <2>2, OneEntry DEF DoubleNeedsRace
    <2>3. CASE ids' = Append(ids, h)
      <3> DEFINE n == Len(ids) + 1
      <3>1. /\ DOMAIN ids' = DOMAIN ids \union {n} /\ ids'[n] = h
            /\ \A i \in DOMAIN ids : ids'[i] = ids[i]
        BY <1>3, <2>3, AppendEntry
      <3>2. \A i \in DOMAIN ids : msg[ids[i]] = msg[h] => msg[h] \in raced
        BY <1>2 DEF PostsAlone, Listed, Range
      <3> HIDE DEF n
      <3>3. QED
        BY <1>1, <3>1, <3>2 DEF DoubleNeedsRace
    <2>4. QED
      BY <1>5, <2>1, <2>2, <2>3
  <1>14. BoardAgrees'
    <2> SUFFICES ASSUME ~mishap' PROVE BoardAgrees'
      BY DEF BoardAgrees
    <2>1. ~mishap /\ exists /\ (empty[h] => ids = <<>> /\ Posting = {h})
          /\ (~empty[h] => ids # <<>>)
      BY <1>2, <1>5 DEF NoMishapYet
    <2>2. \/ ids' = <<h>> /\ ids = <<>>
          \/ ids' = Append(ids, h)
      BY <1>5, <2>1, Zenon
    <2>3. Listed' = Listed \union {h}
      BY <1>6, <2>2
    <2>4. QED
      BY <1>1, <1>3, <2>1, <2>3 DEF BoardAgrees
  <1>15. QED
    BY <1>9, <1>10, <1>11, <1>12, <1>13, <1>14

LEMMA CreatesStep ==
  ASSUME IInv, TypeOK', Remember, NEW c \in Commands, Creates(c)
  PROVE  IInv'
  <1> USE DEF IInv
  <1>1. exists' /\ UNCHANGED <<ids, posts, pc, msg, empty, raced, mishap>>
    BY DEF Creates, InsertKeeps, hvars
  <1>2. Posting' = Posting /\ PostingOnEmpty' = PostingOnEmpty /\ Listed' = Listed
    BY <1>1 DEF Posting, PostingOnEmpty, Listed
  <1>3. Gone' /\ NothingSafeYet' /\ SafeStays'
    BY <1>1, <1>2, SafeStep DEF SafeStays, NothingSafeYet
  <1>4. ListedWerePosted' /\ PostsAlone' /\ DoubleNeedsRace' /\ BoardAgrees'
    BY <1>1, <1>2, Zenon DEF ListedWerePosted, PostsAlone, DoubleNeedsRace, BoardAgrees
  <1>5. NoMishapYet'
    BY <1>1, <1>2, Zenon DEF NoMishapYet
  <1>6. QED
    BY <1>3, <1>4, <1>5

LEMMA DeletesStep ==
  ASSUME IInv, TypeOK', Remember, NEW c \in Commands, Deletes(c)
  PROVE  IInv'
  <1> USE DEF IInv
  <1>1. ~exists' /\ ids' = <<>> /\ mishap' /\ UNCHANGED <<posts, pc, msg, empty, raced>>
    BY DEF Deletes, hvars
  <1>2. Posting' = Posting /\ Listed' = {}
    BY <1>1, EmptyList DEF Posting, Listed
  <1>3. Gone' /\ NothingSafeYet' /\ SafeStays'
    BY <1>1, SafeStep
  <1>4. ListedWerePosted' /\ PostsAlone'
    BY <1>1, <1>2 DEF ListedWerePosted, PostsAlone
  <1>5. NoMishapYet' /\ BoardAgrees'
    BY <1>1 DEF NoMishapYet, BoardAgrees
  <1>6. DoubleNeedsRace'
    BY <1>1 DEF DoubleNeedsRace
  <1>7. QED
    BY <1>3, <1>4, <1>5, <1>6

-----------------------------------------------------------------------------
(* The theorems.                                                           *)

LEMMA InitIInv == Init => IInv
  <1> SUFFICES ASSUME Init PROVE IInv
    OBVIOUS
  <1> USE DEF Init
  <1>1. TypeOK
    <2>1. ids \in Seq(Handlers) /\ faults \in 0..MaxFaults
      BY FaultsAssumption
    <2>2. exists \in BOOLEAN /\ mishap \in BOOLEAN
      BY Zenon
    <2>3. QED
      BY <2>1, <2>2 DEF TypeOK
  <1>2. Listed = {} /\ Posting = {}
    BY EmptyList DEF Listed, Posting
  <1>3. QED
    BY <1>1, <1>2 DEF IInv, Gone, NothingSafeYet, PostingOnEmpty, ListedWerePosted,
       PostsAlone, NoMishapYet, SafeStays, DoubleNeedsRace, BoardAgrees

LEMMA StepKeepsIInv == IInv /\ [Next]_vars => IInv'
  <1> SUFFICES ASSUME IInv, [Next]_vars PROVE IInv'
    OBVIOUS
  <1>1. TypeOK'
    BY TypeStep DEF IInv
  <1>2. ASSUME Remember, NEW h \in Handlers, Ignored(h) \/ EditStarts(h) \/ EditEnds(h)
        PROVE  IInv'
    <2>1. /\ UNCHANGED <<exists, ids, posts, msg, empty, raced, mishap>>
          /\ pc[h] \in {"idle", "edit"} /\ pc'[h] \in {"edit", "done"}
          /\ \A g \in Handlers : g # h => pc'[g] = pc[g]
      BY <1>2, Places DEF Ignored, EditStarts, EditEnds, IInv
    <2>2. Posting' = Posting
      BY <2>1 DEF Posting
    <2>3. QED
      BY <1>1, <1>2, <2>1, <2>2, QuietStep
  <1>3. ASSUME Remember, NEW c \in Commands, Asks(c) \/ CommandFails(c)
        PROVE  IInv'
    <2>1. UNCHANGED <<exists, ids, posts, pc, msg, empty, raced, mishap>>
      BY <1>3, Zenon DEF Asks, CommandFails, hvars
    <2>2. Posting' = Posting
      BY <2>1 DEF Posting
    <2>3. QED
      BY <1>1, <1>3, <2>1, <2>2, QuietStep
  <1>4. CASE UNCHANGED vars
    <2>1. UNCHANGED <<exists, ids, posts, pc, msg, empty, safe, raced, mishap>>
      BY <1>4 DEF vars, hvars
    <2>2. Posting' = Posting
      BY <2>1 DEF Posting
    <2>3. QED
      BY <1>1, <2>1, <2>2, QuietStep
  <1>5. QED
    BY <1>1, <1>2, <1>3, <1>4, PostStartsStep, PostedStep, StoreStep, CreatesStep, DeletesStep
       DEF Next, Step

\* Every reachable state satisfies the inductive invariant.
THEOREM Invariance == Spec => []IInv
  BY InitIInv, StepKeepsIInv, PTL DEF Spec

\* Every variable keeps its type.
THEOREM TypeCorrect == Spec => []TypeOK
  <1>1. IInv => TypeOK
    BY DEF IInv
  <1>2. QED
    BY <1>1, Invariance, PTL

\* What was listed while no post was pending on an empty list stays listed
\* until the starboard is deleted (the two UPDATEs of messageReactionAdd).
THEOREM SafeKept == Spec => []SafeStays
  <1>1. IInv => SafeStays
    BY DEF IInv
  <1>2. QED
    BY <1>1, Invariance, PTL

\* No message is listed twice unless two of its reactions posted at once.
THEOREM DoublesRaced == Spec => []DoubleNeedsRace
  <1>1. IInv => DoubleNeedsRace
    BY DEF IInv
  <1>2. QED
    BY <1>1, Invariance, PTL

\* Without overlapping posts, failed stores and deletions every message is
\* posted once, and its post listed.
THEOREM BoardKept == Spec => []BoardAgrees
  <1>1. IInv => BoardAgrees
    BY DEF IInv
  <1>2. QED
    BY <1>1, Invariance, PTL
=============================================================================
