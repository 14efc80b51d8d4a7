-------------------------- MODULE SceneTrackerProofs --------------------------
(***************************************************************************)
(* The list of scenes follows the script, for scripts of any length, any   *)
(* ids and texts and any number of edits.  Nothing is assumed of the       *)
(* numbers: the argument is about ids, titles and what is pending.         *)
(***************************************************************************)
EXTENDS SceneTracker, TLAPS

IsHeading(h) ==
  /\ h = [id |-> h.id, text |-> h.text, num |-> h.num, locked |-> h.locked]
  /\ h.id \in Ids \cup {NoId}

IsDoc(doc) ==
  /\ doc \in Seq(Range(doc))
  /\ \A i \in DOMAIN doc : IsHeading(doc[i])

DistinctIds(doc) == \A i, j \in DOMAIN doc : doc[i].id = doc[j].id => i = j

\* The scene of a heading, whatever its title.
HasScene(h) ==
  /\ h.id \in DOMAIN scenes
  /\ scenes[h.id] = [title |-> scenes[h.id].title, ord |-> h.num]

\* Every heading has a scene of its own, described but for a title that waits.
Following ==
  /\ list = ListedScenes(script)
  /\ scenes = [x \in DOMAIN scenes |-> scenes[x]]
  /\ DistinctIds(script)
  /\ \A i \in DOMAIN script :
       /\ script[i].id \in Ids
       /\ HasScene(script[i])
       /\ script[i].id # headerTimer => scenes[script[i].id] = Describe(script[i])

Quiet == /\ ~removeTimer /\ ~pasteTimer /\ ~caretIn /\ ~suppressed /\ ~missed
         /\ importing = "no"

\* The inductive invariant: a modal dialog keeps the tracker deaf, and when
\* nothing else is pending only the title of the timer's heading may differ.
Inv ==
  /\ IsDoc(script)
  /\ clip # NoHeading => IsHeading(clip)
  /\ headerTimer \in Ids \cup {NoId}
  /\ importing = "dialog" => suppressed
  /\ Quiet => Following

-----------------------------------------------------------------------------
LEMMA DocDomain ==
  ASSUME NEW doc, IsDoc(doc)
  PROVE  Len(doc) \in Nat /\ DOMAIN doc = 1 .. Len(doc)
BY DEF IsDoc

LEMMA MadeDoc ==
  ASSUME NEW n \in Nat, NEW doc, doc = [i \in 1 .. n |-> doc[i]],
         \A i \in 1 .. n : IsHeading(doc[i])
  PROVE  IsDoc(doc)
<1>1. DOMAIN doc = 1 .. n
  OBVIOUS
<1>2. doc \in [1 .. n -> Range(doc)]
  BY <1>1 DEF Range
<1>3. doc \in Seq(Range(doc))
  BY <1>2
<1> QED
  BY <1>1, <1>3 DEF IsDoc

LEMMA BlankIsHeading ==
  ASSUME NEW id \in Ids \cup {NoId}
  PROVE  /\ IsHeading(Blank(id))
         /\ \A locked \in BOOLEAN : IsHeading([Blank(id) EXCEPT !.locked = locked])
<1>1. IsHeading(Blank(id))
  BY DEF Blank, IsHeading
<1>2. ASSUME NEW locked \in BOOLEAN
      PROVE  IsHeading([Blank(id) EXCEPT !.locked = locked])
  BY DEF Blank, IsHeading
<1> QED
  BY <1>1, <1>2

LEMMA DocOf ==
  ASSUME NEW S, NEW doc \in Seq(S), \A h \in S : IsHeading(h)
  PROVE  IsDoc(doc)
BY DEF IsDoc, Range

LEMMA InsertKeepsDoc ==
  ASSUME NEW doc, IsDoc(doc), NEW h, IsHeading(h), NEW i \in 1 .. Len(doc) + 1
  PROVE  IsDoc(InsertAt(doc, i, h))
<1> DEFINE S == Range(doc) \cup {h}
<1>1. doc \in Seq(S) /\ h \in S /\ Len(doc) \in Nat
  BY DEF IsDoc
<1>2. \A g \in S : IsHeading(g)
  BY DEF IsDoc, Range
<1> HIDE DEF S
<1>3. SubSeq(doc, 1, i - 1) \in Seq(S) /\ SubSeq(doc, i, Len(doc)) \in Seq(S)
  BY <1>1
<1>4. <<h>> \in Seq(S)
  BY <1>1
<1>5. InsertAt(doc, i, h) \in Seq(S)
  BY <1>3, <1>4 DEF InsertAt
<1> QED
  BY <1>2, <1>5, DocOf

LEMMA RemoveKeepsDoc ==
  ASSUME NEW doc, IsDoc(doc), NEW i \in DOMAIN doc
  PROVE  IsDoc(RemoveAt(doc, i))
<1> DEFINE S == Range(doc)
<1>1. doc \in Seq(S) /\ Len(doc) \in Nat /\ i \in 1 .. Len(doc)
  BY DEF IsDoc
<1>2. \A g \in S : IsHeading(g)
  BY DEF IsDoc, Range
<1> HIDE DEF S
<1>3. SubSeq(doc, 1, i - 1) \in Seq(S) /\ SubSeq(doc, i + 1, Len(doc)) \in Seq(S)
  BY <1>1
<1>4. RemoveAt(doc, i) \in Seq(S)
  BY <1>3 DEF RemoveAt
<1> QED
  BY <1>2, <1>4, DocOf

LEMMA MovedStaysInside ==
  ASSUME NEW doc, IsDoc(doc), NEW i \in DOMAIN doc, NEW j \in DOMAIN doc
  PROVE  j \in 1 .. Len(RemoveAt(doc, i)) + 1
<1> DEFINE S == Range(doc)
<1>1. doc \in Seq(S) /\ Len(doc) \in Nat /\ i \in 1 .. Len(doc) /\ j \in 1 .. Len(doc)
  BY DEF IsDoc
<1> HIDE DEF S
<1> DEFINE before == SubSeq(doc, 1, i - 1)
           after == SubSeq(doc, i + 1, Len(doc))
<1>2. Len(before) = i - 1 /\ before \in Seq(S)
  BY <1>1
<1>3. Len(after) = Len(doc) - i /\ after \in Seq(S)
  BY <1>1
<1>4. RemoveAt(doc, i) = before \o after
  BY DEF RemoveAt
<1> HIDE DEF before, after
<1>5. Len(before \o after) = Len(before) + Len(after)
  BY <1>2, <1>3
<1> QED
  BY <1>1, <1>2, <1>3, <1>4, <1>5

LEMMA RetitleKeepsDoc ==
  ASSUME NEW doc, IsDoc(doc), NEW i \in DOMAIN doc, NEW t
  PROVE  LET new == [doc EXCEPT ![i].text = t]
         IN /\ IsDoc(new)
            /\ DOMAIN new = DOMAIN doc
            /\ \A j \in DOMAIN doc : new[j].id = doc[j].id /\ new[j].num = doc[j].num
            /\ \A j \in DOMAIN doc : j # i => new[j] = doc[j]
<1> DEFINE new == [doc EXCEPT ![i].text = t]
<1>1. Len(doc) \in Nat /\ DOMAIN doc = 1 .. Len(doc)
  BY DocDomain
<1>2. DOMAIN new = DOMAIN doc /\ new = [j \in DOMAIN doc |-> new[j]]
  OBVIOUS
<1>3. \A j \in DOMAIN doc : j # i => new[j] = doc[j]
  OBVIOUS
<1>4. new[i] = [doc[i] EXCEPT !.text = t]
  OBVIOUS
<1>5. IsHeading(doc[i])
  BY DEF IsDoc
<1>6. IsHeading(new[i]) /\ new[i].id = doc[i].id /\ new[i].num = doc[i].num
  BY <1>4, <1>5 DEF IsHeading
<1> HIDE DEF new
<1>7. \A j \in DOMAIN doc : IsHeading(new[j]) /\ new[j].id = doc[j].id /\ new[j].num = doc[j].num
  BY <1>3, <1>6 DEF IsDoc
<1>8. IsDoc(new)
  BY <1>1, <1>2, <1>7, MadeDoc
<1> QED
  BY <1>2, <1>3, <1>7, <1>8 DEF new
-----------------------------------------------------------------------------
LEMMA FirstIsOnly ==
  ASSUME NEW doc, IsDoc(doc), DistinctIds(doc), NEW i \in DOMAIN doc
  PROVE  FirstWithId(doc, doc[i].id) = doc[i]
<1> DEFINE P(k) == doc[k].id = doc[i].id /\ \A j \in 1 .. k - 1 : doc[j].id # doc[i].id
<1>1. Len(doc) \in Nat /\ DOMAIN doc = 1 .. Len(doc)
  BY DocDomain
<1>2. P(i)
  <2> SUFFICES ASSUME NEW j \in 1 .. i - 1 PROVE doc[j].id # doc[i].id
    OBVIOUS
  <2>1. j \in DOMAIN doc /\ j # i
    BY <1>1
  <2> QED
    BY <2>1 DEF DistinctIds
<1>3. \A k \in DOMAIN doc : P(k) => k = i
  BY DEF DistinctIds
<1>4. (CHOOSE k \in DOMAIN doc : P(k)) = i
  <2> HIDE DEF P
  <2> QED
    BY <1>2, <1>3
<1> QED
  BY <1>4 DEF FirstWithId

(***************************************************************************)
(* Update() makes the list and every scene that of the headings, whatever  *)
(* the document was: new ids differ from each other and from those that    *)
(* stay, and of equal ids only the first stays.                            *)
(***************************************************************************)
LEMMA UpdateFollows ==
  ASSUME NEW doc, IsDoc(doc), NEW locked, UpdateOf(doc, locked)
  PROVE  IsDoc(script') /\ Following'
<1>1. Len(doc) \in Nat /\ DOMAIN doc = 1 .. Len(doc)
  BY DocDomain
<1>2. PICK f \in GeneratedIds(doc) :
        /\ script' = UpdatedScript(doc, f, locked)
        /\ scenes' = DescribedScenes(script')
        /\ list' = ListedScenes(script')
  BY DEF UpdateOf
<1>3. /\ f \in [NeedsId(doc) -> FreeIds(doc)]
      /\ \A a, b \in NeedsId(doc) : f[a] = f[b] => a = b
  <2>1. f \in Injection(NeedsId(doc), FreeIds(doc))
    BY <1>2 DEF GeneratedIds
  <2> QED
    BY <2>1 DEF Injection, IsInjective
<1> DEFINE idOf(i) == IF i \in NeedsId(doc) THEN f[i] ELSE doc[i].id
<1>4. /\ DOMAIN script' = DOMAIN doc
      /\ script' = [i \in DOMAIN doc |-> script'[i]]
      /\ \A i \in DOMAIN doc :
           /\ script'[i].id = idOf(i)
           /\ script'[i] = [id |-> script'[i].id, text |-> script'[i].text,
                            num |-> script'[i].num, locked |-> script'[i].locked]
  <2>1. DOMAIN f = NeedsId(doc)
    BY <1>3
  <2> QED
    BY <1>2, <2>1 DEF UpdatedScript
<1>5. \A i \in DOMAIN doc : idOf(i) \in Ids
  BY <1>3 DEF NeedsId, FreeIds, IsDoc, IsHeading
<1>6. \A i \in NeedsId(doc), j \in DOMAIN doc : f[i] # doc[j].id
  BY <1>3 DEF FreeIds, IdsOf
<1>7. \A i, j \in DOMAIN doc : i < j /\ j \notin NeedsId(doc) => doc[i].id # doc[j].id
  <2> SUFFICES ASSUME NEW i \in DOMAIN doc, NEW j \in DOMAIN doc, i < j,
                      doc[i].id = doc[j].id
               PROVE  j \in NeedsId(doc)
    OBVIOUS
  <2>1. i \in 1 .. j - 1
    BY <1>1
  <2> QED
    BY <2>1 DEF NeedsId
<1>8. DistinctIds(script')
  <2> SUFFICES ASSUME NEW i \in DOMAIN doc, NEW j \in DOMAIN doc, idOf(i) = idOf(j)
               PROVE  i = j
    BY <1>4 DEF DistinctIds
  <2>1. CASE i \in NeedsId(doc) /\ j \in NeedsId(doc)
    BY <1>3, <2>1
  <2>2. CASE i \in NeedsId(doc) /\ j \notin NeedsId(doc)
    BY <1>6, <2>2
  <2>3. CASE i \notin NeedsId(doc) /\ j \in NeedsId(doc)
    BY <1>6, <2>3
  <2>4. CASE i \notin NeedsId(doc) /\ j \notin NeedsId(doc)
    <3>1. doc[i].id = doc[j].id
      BY <2>4
    <3>2. i = j \/ i < j \/ j < i
      BY <1>1
    <3> QED
      BY <1>7, <2>4, <3>1, <3>2
  <2> QED
    BY <2>1, <2>2, <2>3, <2>4
<1>9. IsDoc(script')
  <2>1. \A i \in 1 .. Len(doc) : IsHeading(script'[i])
    BY <1>1, <1>4, <1>5 DEF IsHeading
  <2> QED
    BY <1>1, <1>4, <2>1, MadeDoc
<1>10. ASSUME NEW i \in DOMAIN script'
       PROVE  /\ script'[i].id \in Ids
              /\ script'[i].id \in DOMAIN scenes'
              /\ scenes'[script'[i].id] = Describe(script'[i])
  <2>1. script'[i].id \in Ids /\ script'[i].id \in IdsOf(script')
    BY <1>4, <1>5 DEF IdsOf
  <2>2. scenes'[script'[i].id] = Describe(FirstWithId(script', script'[i].id))
    BY <1>2, <2>1 DEF DescribedScenes
  <2>3. FirstWithId(script', script'[i].id) = script'[i]
    BY <1>8, <1>9, FirstIsOnly
  <2>4. script'[i].id \in DOMAIN scenes'
    BY <1>2, <2>1 DEF DescribedScenes
  <2> QED
    BY <2>1, <2>2, <2>3, <2>4
<1>11. scenes' = [x \in DOMAIN scenes' |-> scenes'[x]]
  BY <1>2 DEF DescribedScenes
<1>12. Following'
  BY <1>2, <1>8, <1>10, <1>11 DEF Following, HasScene, Describe
<1> QED
  BY <1>9, <1>12

(***************************************************************************)
(* SceneHeaderChanged() makes the title of one heading right and touches   *)
(* nothing else.                                                           *)
(***************************************************************************)
LEMMA TitledDescribes ==
  ASSUME NEW doc, IsDoc(doc), DistinctIds(doc), NEW id,
         scenes = [x \in DOMAIN scenes |-> scenes[x]],
         \A j \in DOMAIN doc : HasScene(doc[j])
  PROVE  LET new == Titled(doc, id)
         IN /\ DOMAIN new = DOMAIN scenes
            /\ new = [x \in DOMAIN new |-> new[x]]
            /\ \A j \in DOMAIN doc :
                 IF doc[j].id = id THEN new[id] = Describe(doc[j])
                 ELSE new[doc[j].id] = scenes[doc[j].id]
<1> DEFINE new == Titled(doc, id)
<1>1. CASE id \notin IdsOf(doc)
  BY <1>1 DEF Titled, IdsOf
<1>2. CASE id \in IdsOf(doc)
  <2>1. PICK k \in DOMAIN doc : doc[k].id = id
    BY <1>2 DEF IdsOf
  <2>2. id \in DOMAIN scenes /\ scenes[id] = [title |-> scenes[id].title, ord |-> doc[k].num]
    BY <2>1 DEF HasScene
  <2>3. FirstWithId(doc, id) = doc[k]
    BY <2>1, FirstIsOnly
  <2>4. new = [scenes EXCEPT ![id].title = doc[k].text]
    BY <1>2, <2>2, <2>3 DEF Titled
  <2>5. /\ DOMAIN new = DOMAIN scenes
        /\ new = [x \in DOMAIN new |-> new[x]]
        /\ new[id] = [scenes[id] EXCEPT !.title = doc[k].text]
        /\ \A x \in DOMAIN scenes : x # id => new[x] = scenes[x]
    BY <2>2, <2>4
  <2>6. new[id] = Describe(doc[k])
    BY <2>2, <2>5 DEF Describe
  <2>7. ASSUME NEW j \in DOMAIN doc, doc[j].id # id
        PROVE  new[doc[j].id] = scenes[doc[j].id]
    BY <2>5, <2>7 DEF HasScene
  <2>8. ASSUME NEW j \in DOMAIN doc, doc[j].id = id
        PROVE  new[id] = Describe(doc[j])
    <3>1. j = k
      BY <2>1, <2>8 DEF DistinctIds
    <3> QED
      BY <2>6, <3>1
  <2> HIDE DEF new
  <2> QED
    BY <2>5, <2>7, <2>8 DEF new
<1> QED
  BY <1>1, <1>2
-----------------------------------------------------------------------------
LEMMA UpdateKeeps ==
  ASSUME NEW doc, IsDoc(doc), NEW locked, UpdateOf(doc, locked),
         clip' # NoHeading => IsHeading(clip'),
         headerTimer' \in Ids \cup {NoId},
         importing' = "dialog" => suppressed'
  PROVE  Inv'
BY UpdateFollows DEF Inv

\* A step that leaves something pending need not keep the list in step.
LEMMA PendingKeeps ==
  ASSUME Inv, IsDoc(script'), ~Quiet',
         clip' # NoHeading => IsHeading(clip'),
         headerTimer' \in Ids \cup {NoId},
         importing' = "dialog" => suppressed'
  PROVE  Inv'
BY DEF Inv

LEMMA RenumberedIsDoc ==
  ASSUME NEW doc, IsDoc(doc), NEW numbered
  PROVE  IsDoc(WithNumbersOf(doc, numbered))
<1> DEFINE new == WithNumbersOf(doc, numbered)
<1>1. Len(doc) \in Nat /\ DOMAIN doc = 1 .. Len(doc)
  BY DocDomain
<1>2. new = [i \in 1 .. Len(doc) |-> new[i]]
  BY <1>1 DEF WithNumbersOf
<1>3. \A i \in 1 .. Len(doc) : IsHeading(new[i])
  BY <1>1 DEF WithNumbersOf, IsHeading, IsDoc
<1> HIDE DEF new
<1>4. IsDoc(new)
  BY <1>1, <1>2, <1>3, MadeDoc
<1> QED
  BY <1>4 DEF new

LEMMA ResetIsDoc ==
  ASSUME NEW doc, IsDoc(doc)
  PROVE  IsDoc(ResetScript(doc))
<1> DEFINE new == ResetScript(doc)
<1>1. Len(doc) \in Nat /\ DOMAIN doc = 1 .. Len(doc)
  BY DocDomain
<1>2. new = [i \in 1 .. Len(doc) |-> new[i]]
  BY <1>1 DEF ResetScript
<1>3. ASSUME NEW i \in 1 .. Len(doc)
      PROVE  IsHeading(new[i])
  <2>1. IsHeading(doc[i])
    BY <1>1 DEF IsDoc
  <2>2. new[i] = [doc[i] EXCEPT !.num = <<i>>, !.locked = FALSE]
    BY <1>1 DEF ResetScript
  <2> QED
    BY <2>1, <2>2 DEF IsHeading
<1> HIDE DEF new
<1>4. IsDoc(new)
  BY <1>1, <1>2, <1>3, MadeDoc
<1> QED
  BY <1>4 DEF new

LEMMA HandleInsertedKeeps ==
  ASSUME Inv, NEW doc, IsDoc(doc), NEW i, HandleInserted(doc, i),
         UNCHANGED <<clip, headerTimer, suppressed, importing>>
  PROVE  Inv'
<1> DEFINE new == WithNumbersOf(doc, InsertedScript(doc, i, scenesLocked).doc)
<1>1. IsDoc(new)
  BY RenumberedIsDoc
<1>2. /\ clip' # NoHeading => IsHeading(clip')
      /\ headerTimer' \in Ids \cup {NoId}
      /\ importing' = "dialog" => suppressed'
  BY DEF Inv
<1>3. CASE suppressed /\ script' = doc
  BY <1>2, <1>3, PendingKeeps DEF Quiet
<1>4. CASE UpdateOf(new, scenesLocked)
  BY <1>1, <1>2, <1>4, UpdateKeeps
<1>5. CASE script' = new /\ missed' = TRUE
  BY <1>1, <1>2, <1>5, PendingKeeps DEF Quiet
<1> QED
  BY <1>3, <1>4, <1>5 DEF HandleInserted

LEMMA TypeKeeps ==
  ASSUME Inv, NEW i \in DOMAIN script, NEW t, Type(i, t)
  PROVE  Inv'
<1> DEFINE doc == [script EXCEPT ![i].text = t]
           id == script[i].id
<1>1. /\ IsDoc(doc)
      /\ DOMAIN doc = DOMAIN script
      /\ \A j \in DOMAIN script : doc[j].id = script[j].id /\ doc[j].num = script[j].num
      /\ \A j \in DOMAIN script : j # i => doc[j] = script[j]
  BY RetitleKeepsDoc DEF Inv
<1>2. id \in Ids \cup {NoId}
  BY DEF Inv, IsDoc, IsHeading
<1>3. /\ clip' # NoHeading => IsHeading(clip')
      /\ importing' = "dialog" => suppressed'
  BY DEF Inv, Type, documentVars, modes
<1> HIDE DEF doc
<1>4. CASE suppressed /\ script' = doc /\ Unheard
  BY <1>1, <1>3, <1>4, PendingKeeps DEF Quiet, Inv, Type, modes, Unheard, timers
<1>5. CASE UpdateOf(doc, scenesLocked) /\ headerTimer' = NoId
  BY <1>1, <1>3, <1>5, UpdateKeeps
<1>6. CASE /\ script' = doc
           /\ scenes' = IF headerTimer = id THEN scenes ELSE Titled(doc, headerTimer)
           /\ headerTimer' = id
           /\ UNCHANGED <<list, removeTimer, pasteTimer, missed>>
  <2>1. SUFFICES ASSUME Quiet PROVE Following'
    BY <1>1, <1>2, <1>3, <1>6 DEF Inv, Quiet, Type, modes
  <2>2. Following
    BY <2>1 DEF Inv
  <2>3. DistinctIds(doc) /\ ListedScenes(doc) = ListedScenes(script)
    BY <1>1, <2>2 DEF Following, DistinctIds, ListedScenes
  <2>4. \A j \in DOMAIN doc : HasScene(doc[j])
    BY <1>1, <2>2 DEF Following, HasScene
  <2>5. /\ DOMAIN scenes' = DOMAIN scenes
        /\ scenes' = [x \in DOMAIN scenes' |-> scenes'[x]]
    BY <1>1, <1>6, <2>2, <2>3, <2>4, TitledDescribes DEF Following
  <2>6. ASSUME NEW j \in DOMAIN doc
        PROVE  \/ scenes'[doc[j].id] = scenes[doc[j].id] /\ (j = i \/ doc[j].id # headerTimer)
               \/ scenes'[doc[j].id] = Describe(doc[j])
    <3>1. CASE headerTimer = id
      BY <1>1, <1>6, <2>2, <3>1 DEF Following, DistinctIds
    <3>2. CASE headerTimer # id
      BY <1>1, <1>6, <2>2, <2>3, <2>4, <3>2, TitledDescribes DEF Following
    <3> QED
      BY <3>1, <3>2
  <2>7. ASSUME NEW j \in DOMAIN doc
        PROVE  /\ doc[j].id \in Ids
               /\ doc[j].id \in DOMAIN scenes'
               /\ scenes'[doc[j].id] = [title |-> scenes'[doc[j].id].title, ord |-> doc[j].num]
               /\ doc[j].id # id => scenes'[doc[j].id] = Describe(doc[j])
    <3>1. doc[j].id \in Ids /\ doc[j].id \in DOMAIN scenes'
      BY <1>1, <2>2, <2>4, <2>5 DEF Following, HasScene
    <3>2. scenes'[doc[j].id] = [title |-> scenes'[doc[j].id].title, ord |-> doc[j].num]
      <4>1. CASE scenes'[doc[j].id] = scenes[doc[j].id]
        BY <2>4, <4>1 DEF HasScene
      <4>2. CASE scenes'[doc[j].id] = Describe(doc[j])
        BY <4>2 DEF Describe
      <4> QED
        BY <2>6, <4>1, <4>2
    <3>3. ASSUME doc[j].id # id
          PROVE  scenes'[doc[j].id] = Describe(doc[j])
      <4>1. j # i /\ doc[j] = script[j]
        BY <1>1, <3>3
      <4> QED
        BY <1>1, <2>2, <2>6, <4>1 DEF Following
    <3> QED
      BY <3>1, <3>2, <3>3
  <2> QED
    BY <1>6, <2>2, <2>3, <2>5, <2>7 DEF Following, HasScene, DistinctIds
<1> QED
  BY <1>4, <1>5, <1>6 DEF Type, doc
LEMMA OmitKeeps ==
  ASSUME Inv, NEW i \in DOMAIN script, NEW t, OmitScene(i, t)
  PROVE  Inv'
<1> DEFINE doc == [script EXCEPT ![i].text = t]
           id == script[i].id
<1>1. /\ IsDoc(doc)
      /\ DOMAIN doc = DOMAIN script
      /\ \A j \in DOMAIN script : doc[j].id = script[j].id /\ doc[j].num = script[j].num
      /\ \A j \in DOMAIN script : j # i => doc[j] = script[j]
  BY RetitleKeepsDoc DEF Inv
<1>2. /\ script' = doc
      /\ scenes' = Titled(doc, id)
      /\ UNCHANGED <<clip, list, headerTimer, removeTimer, pasteTimer, caretIn,
                     suppressed, importing, missed>>
  BY DEF OmitScene, documentVars, timers, modes
<1> HIDE DEF doc
<1>3. SUFFICES ASSUME Quiet PROVE Following'
  BY <1>1, <1>2 DEF Inv, Quiet
<1>4. Following
  BY <1>3 DEF Inv
<1>5. DistinctIds(doc) /\ ListedScenes(doc) = ListedScenes(script)
  BY <1>1, <1>4 DEF Following, DistinctIds, ListedScenes
<1>6. \A j \in DOMAIN doc : HasScene(doc[j])
  BY <1>1, <1>4 DEF Following, HasScene
<1>7. /\ DOMAIN scenes' = DOMAIN scenes
      /\ scenes' = [x \in DOMAIN scenes' |-> scenes'[x]]
      /\ \A j \in DOMAIN doc : IF doc[j].id = id THEN scenes'[id] = Describe(doc[j])
                               ELSE scenes'[doc[j].id] = scenes[doc[j].id]
  BY <1>1, <1>2, <1>4, <1>5, <1>6, TitledDescribes DEF Following
<1>8. ASSUME NEW j \in DOMAIN doc
      PROVE  /\ doc[j].id \in Ids /\ doc[j].id \in DOMAIN scenes'
             /\ scenes'[doc[j].id] = [title |-> scenes'[doc[j].id].title, ord |-> doc[j].num]
             /\ doc[j].id # headerTimer' => scenes'[doc[j].id] = Describe(doc[j])
  <2>1. doc[j].id \in Ids /\ doc[j].id \in DOMAIN scenes'
    BY <1>1, <1>4, <1>6, <1>7 DEF Following, HasScene
  <2>2. CASE doc[j].id = id
    <3>1. scenes'[doc[j].id] = Describe(doc[j])
      BY <1>7, <2>2
    <3> QED
      BY <2>1, <3>1 DEF Describe
  <2>3. CASE doc[j].id # id
    <3>1. doc[j] = script[j] /\ scenes'[doc[j].id] = scenes[doc[j].id]
      BY <1>1, <1>7, <2>3
    <3>2. scenes'[doc[j].id] = [title |-> scenes'[doc[j].id].title, ord |-> doc[j].num]
      BY <1>6, <3>1 DEF HasScene
    <3>3. doc[j].id # headerTimer' => scenes'[doc[j].id] = Describe(doc[j])
      BY <1>1, <1>2, <1>4, <3>1 DEF Following
    <3> QED
      BY <2>1, <3>2, <3>3
  <2> QED
    BY <2>2, <2>3
<1> QED
  BY <1>2, <1>4, <1>5, <1>7, <1>8 DEF Following, HasScene, DistinctIds

LEMMA HeaderTimerKeeps ==
  ASSUME Inv, HeaderTimer
  PROVE  Inv'
<1>1. /\ scenes' = Titled(script, headerTimer) /\ headerTimer' = NoId
      /\ UNCHANGED <<script, clip, list, removeTimer, pasteTimer, caretIn, suppressed,
                     importing, missed>>
  BY DEF HeaderTimer, documentVars, modes
<1>2. IsDoc(script)
  BY DEF Inv
<1>3. SUFFICES ASSUME Quiet PROVE Following'
  BY <1>1 DEF Inv, Quiet
<1>4. Following
  BY <1>3 DEF Inv
<1>5. /\ DOMAIN scenes' = DOMAIN scenes
      /\ scenes' = [x \in DOMAIN scenes' |-> scenes'[x]]
      /\ \A j \in DOMAIN script :
           IF script[j].id = headerTimer THEN scenes'[headerTimer] = Describe(script[j])
           ELSE scenes'[script[j].id] = scenes[script[j].id]
  BY <1>1, <1>2, <1>4, TitledDescribes DEF Following
<1>6. ASSUME NEW j \in DOMAIN script
      PROVE  /\ script[j].id \in Ids /\ script[j].id \in DOMAIN scenes'
             /\ scenes'[script[j].id] = Describe(script[j])
  BY <1>4, <1>5 DEF Following, HasScene
<1> QED
  BY <1>1, <1>4, <1>5, <1>6 DEF Following, HasScene, DistinctIds, Describe

LEMMA CreateRevisionKeeps ==
  ASSUME Inv, NEW lock \in BOOLEAN, CreateRevision(lock)
  PROVE  Inv'
<1>1. UNCHANGED <<clip, scenes, list, headerTimer, removeTimer, pasteTimer, caretIn,
                  suppressed, importing, missed>>
  BY DEF CreateRevision, modes, Unheard, timers
<1>2. Len(script) \in Nat /\ DOMAIN script = 1 .. Len(script)
  BY DocDomain DEF Inv
<1>3. CASE ~lock
  <2>1. script' = script
    BY <1>3 DEF CreateRevision
  <2> QED
    BY <1>1, <2>1 DEF Inv, Quiet, Following, HasScene
<1>4. CASE lock
  <2>1. script' = [i \in DOMAIN script |-> [script[i] EXCEPT !.locked = TRUE]]
    BY <1>4 DEF CreateRevision
  <2>2. ASSUME NEW i \in DOMAIN script
        PROVE  /\ IsHeading(script'[i])
               /\ script'[i].id = script[i].id
               /\ script'[i].num = script[i].num
               /\ script'[i].text = script[i].text
    <3>1. IsHeading(script[i])
      BY DEF Inv, IsDoc
    <3>2. script'[i] = [script[i] EXCEPT !.locked = TRUE]
      BY <2>1
    <3> QED
      BY <3>1, <3>2 DEF IsHeading
  <2>3. DOMAIN script' = DOMAIN script /\ script' = [i \in 1 .. Len(script) |-> script'[i]]
    BY <1>2, <2>1
  <2>4. IsDoc(script')
    BY <1>2, <2>2, <2>3, MadeDoc
  <2>5. Following => Following'
    BY <1>1, <2>2, <2>3 DEF Following, HasScene, Describe, DistinctIds, ListedScenes
  <2> QED
    BY <1>1, <2>4, <2>5 DEF Inv, Quiet
<1> QED
  BY <1>3, <1>4
LEMMA InitFollows == Init => Inv
<1> SUFFICES ASSUME Init PROVE Inv
  OBVIOUS
<1>1. PICK k \in 0 .. MaxScenes :
        script = [i \in 1 .. k |-> [id |-> i, text |-> Blank(i).text, num |-> <<i>>,
                                   locked |-> scenesLocked]]
  BY DEF Init
<1>2. /\ clip = NoHeading /\ headerTimer = NoId /\ importing = "no"
      /\ scenes = [x \in DOMAIN script |-> Describe(script[x])]
      /\ list = ListedScenes(script)
  BY DEF Init
<1>3. k \in Nat /\ DOMAIN script = 1 .. k /\ 1 .. k \subseteq Ids
  BY <1>1, TrackerAssumption
<1>4. \A i \in 1 .. k : IsHeading(script[i]) /\ script[i].id = i
  BY <1>1, <1>3 DEF IsHeading
<1>5. IsDoc(script)
  BY <1>1, <1>3, <1>4, MadeDoc
<1>6. Following
  BY <1>2, <1>3, <1>4 DEF Following, DistinctIds, HasScene, Describe
<1> QED
  BY <1>2, <1>5, <1>6 DEF Inv

LEMMA InsertionKeeps ==
  ASSUME Inv, NEW i \in 1 .. Len(script) + 1,
         Restore(i) \/ PasteOwn(i) \/ PasteForeign(i)
  PROVE  Inv'
<1>1. IsDoc(script)
  BY DEF Inv
<1>2. ASSUME NEW h, IsHeading(h), HandleInserted(InsertAt(script, i, h), i),
             UNCHANGED <<clip, headerTimer, suppressed, importing>>
      PROVE  Inv'
  BY <1>1, <1>2, InsertKeepsDoc, HandleInsertedKeeps
<1>3. CASE Restore(i)
  BY <1>2, <1>3 DEF Restore, Inv, documentVars, timers, modes
<1>4. CASE PasteOwn(i)
  BY <1>2, <1>4 DEF PasteOwn, Paste, Inv, documentVars, modes
<1>5. CASE PasteForeign(i)
  <2>1. PICK id \in FreeIds(script), locked \in BOOLEAN :
          Paste(i, [Blank(id) EXCEPT !.locked = locked])
    BY <1>5 DEF PasteForeign
  <2>2. IsHeading([Blank(id) EXCEPT !.locked = locked])
    BY BlankIsHeading DEF FreeIds
  <2> QED
    BY <1>2, <2>1, <2>2 DEF Paste, documentVars, modes
<1> QED
  BY <1>3, <1>4, <1>5

LEMMA MakeHeadingKeeps ==
  ASSUME Inv, NEW i \in 1 .. Len(script) + 1, NEW h, IsHeading(h), MakeHeading(i, h)
  PROVE  Inv'
<1>1. IsDoc(script')
  BY InsertKeepsDoc DEF Inv, MakeHeading
<1>2. /\ caretIn' = TRUE
      /\ UNCHANGED <<clip, headerTimer, suppressed, importing>>
  BY DEF MakeHeading, documentVars, modes, Unheard, timers
<1> QED
  BY <1>1, <1>2, PendingKeeps DEF Inv, Quiet

LEMMA FillHeadingKeeps ==
  ASSUME Inv, NEW i \in DOMAIN script, NEW t, FillHeading(i, t)
  PROVE  Inv'
<1>1. IsDoc(script')
  BY RetitleKeepsDoc DEF Inv, FillHeading
<1>2. /\ caretIn' = TRUE
      /\ UNCHANGED <<clip, headerTimer, suppressed, importing>>
  BY DEF FillHeading, documentVars, modes, Unheard, timers
<1> QED
  BY <1>1, <1>2, PendingKeeps DEF Inv, Quiet

LEMMA CopyKeeps ==
  ASSUME Inv, NEW i \in DOMAIN script, Copy(i)
  PROVE  Inv'
<1>1. IsHeading(script[i]) /\ clip' = script[i]
  BY DEF Inv, IsDoc, Copy
<1>2. UNCHANGED <<script, scenes, list, headerTimer, removeTimer, pasteTimer, caretIn,
                  suppressed, importing, missed>>
  BY DEF Copy, modes, Unheard, timers
<1> QED
  BY <1>1, <1>2 DEF Inv, Quiet, Following, HasScene

LEMMA DeleteKeeps ==
  ASSUME Inv, NEW i \in DOMAIN script, Delete(i)
  PROVE  Inv'
<1>1. IsDoc(script')
  BY RemoveKeepsDoc DEF Inv, Delete
<1>2. IsHeading(script[i]) /\ clip' = script[i]
  BY DEF Inv, IsDoc, Delete
<1>3. /\ removeTimer' = (removeTimer \/ ~suppressed)
      /\ UNCHANGED <<headerTimer, suppressed, importing>>
  BY DEF Delete, modes
<1>4. ~Quiet'
  BY <1>3 DEF Quiet
<1> QED
  BY <1>1, <1>2, <1>3, <1>4, PendingKeeps DEF Inv

LEMMA OutlineKeeps ==
  ASSUME Inv, NEW doc, IsDoc(doc), OutlineEdit(doc)
  PROVE  Inv'
<1>1. /\ UpdateOf(doc, scenesLocked)
      /\ UNCHANGED <<clip, headerTimer, importing>> /\ importing # "dialog"
  BY DEF OutlineEdit, documentVars, timers, UserActs
<1> QED
  BY <1>1, UpdateKeeps DEF Inv

LEMMA ImportSceneKeeps ==
  ASSUME Inv, ImportScene
  PROVE  Inv'
<1>1. importing = "dialog" /\ UNCHANGED <<clip, headerTimer, suppressed, importing>>
  BY DEF ImportScene, documentVars, modes, Unheard, timers
<1> DEFINE S == Range(script) \cup {Blank(NoId)}
<1>2. \A h \in S : IsHeading(h)
  BY BlankIsHeading DEF Inv, IsDoc, Range
<1>3. script \in Seq(S) /\ Blank(NoId) \in S
  BY DEF Inv, IsDoc
<1> HIDE DEF S
<1>4. script' \in Seq(S)
  BY <1>3 DEF ImportScene
<1>5. IsDoc(script')
  BY <1>2, <1>4, DocOf
<1> QED
  BY <1>1, <1>5, PendingKeeps DEF Inv, Quiet

LEMMA StepKeeps == Inv /\ [Next]_vars => Inv'
<1> SUFFICES ASSUME Inv, [Next]_vars PROVE Inv'
  OBVIOUS
<1> USE DEF documentVars, timers, modes
<1>1. IsDoc(script)
  BY DEF Inv
<1>2. ASSUME NEW i \in DOMAIN script, NEW t \in Texts,
             Type(i, t) \/ FillHeading(i, t) \/ OmitScene(i, t)
      PROVE  Inv'
  BY <1>2, TypeKeeps, FillHeadingKeeps, OmitKeeps
<1>3. ASSUME NEW i \in DOMAIN script, UnmakeHeading(i)
      PROVE  Inv'
  <2>1. /\ UpdateOf(RemoveAt(script, i), scenesLocked)
        /\ clip' = script[i]
        /\ UNCHANGED <<headerTimer, suppressed, importing>>
    BY <1>3 DEF UnmakeHeading
  <2>2. IsDoc(RemoveAt(script, i)) /\ IsHeading(clip')
    BY <1>1, <2>1, RemoveKeepsDoc DEF IsDoc
  <2> QED
    BY <2>1, <2>2, UpdateKeeps DEF Inv
<1>4. ASSUME NEW i \in DOMAIN script, Copy(i) \/ Delete(i)
      PROVE  Inv'
  BY <1>4, CopyKeeps, DeleteKeeps
<1>5. ASSUME NEW i \in DOMAIN script, DeleteScene(i)
      PROVE  Inv'
  BY <1>1, <1>5, RemoveKeepsDoc, OutlineKeeps DEF DeleteScene
<1>6. ASSUME NEW i \in DOMAIN script, NEW j \in DOMAIN script, MoveScene(i, j)
      PROVE  Inv'
  <2>1. IsHeading(script[i]) /\ IsDoc(RemoveAt(script, i))
    BY <1>1, RemoveKeepsDoc DEF IsDoc
  <2>2. IsDoc(InsertAt(RemoveAt(script, i), j, script[i]))
    BY <1>1, <2>1, MovedStaysInside, InsertKeepsDoc
  <2> QED
    BY <1>6, <2>2, OutlineKeeps DEF MoveScene
<1>7. ASSUME NEW i \in 1 .. Len(script) + 1,
             Restore(i) \/ PasteOwn(i) \/ PasteForeign(i)
      PROVE  Inv'
  BY <1>7, InsertionKeeps
<1>8. ASSUME NEW i \in 1 .. Len(script) + 1,
             MakeHeading(i, Blank(NoId)) \/ MakeHeading(i, clip)
      PROVE  Inv'
  <2>1. IsHeading(Blank(NoId)) /\ (clip # NoHeading => IsHeading(clip))
    BY BlankIsHeading DEF Inv
  <2>2. MakeHeading(i, clip) => clip # NoHeading
    BY DEF MakeHeading
  <2> QED
    BY <1>8, <2>1, <2>2, MakeHeadingKeeps
<1>9. ASSUME NEW lock \in BOOLEAN, CreateRevision(lock)
      PROVE  Inv'
  BY <1>9, CreateRevisionKeeps
<1>10. CASE LeaveHeading
  BY <1>1, <1>10, UpdateKeeps DEF LeaveHeading, Update, Inv
<1>11. CASE ResetLocking
  BY <1>1, <1>11, ResetIsDoc, UpdateKeeps DEF ResetLocking, Inv
<1>12. CASE Reopen
  <2>1. IsDoc(IF revised THEN script ELSE ResetScript(script))
    BY <1>1, ResetIsDoc
  <2>2. /\ UpdateOf(IF revised THEN script ELSE ResetScript(script), scenesLocked)
        /\ headerTimer' = NoId /\ importing' = "no" /\ clip' = clip
    BY <1>12 DEF Reopen
  <2> QED
    BY <2>1, <2>2, UpdateKeeps DEF Inv
<1>13. CASE BeginImport \/ CloseImport \/ CancelImport
  <2>1. /\ UNCHANGED <<script, clip, headerTimer>>
        /\ suppressed' /\ (importing' = "dialog" \/ importing' = "ending" \/ importing' = "no")
    BY <1>13 DEF BeginImport, CloseImport, CancelImport, Unheard, Inv
  <2> QED
    BY <1>1, <2>1, PendingKeeps DEF Inv, Quiet
<1>14. CASE ImportScene
  BY <1>14, ImportSceneKeeps
<1>15. CASE EndImport
  BY <1>1, <1>15, UpdateKeeps DEF EndImport, Update, Inv
<1>16. CASE HeaderTimer
  BY <1>16, HeaderTimerKeeps
<1>17. CASE RemoveTimer
  BY <1>1, <1>17, UpdateKeeps DEF RemoveTimer, Update, Inv
<1>18. CASE PasteTimer
  BY <1>1, <1>18, UpdateKeeps DEF PasteTimer, Update, Inv
<1>19. CASE UNCHANGED vars
  BY <1>19 DEF vars, Inv, Quiet, Following, HasScene
<1> QED
  BY <1>2, <1>3, <1>4, <1>5, <1>6, <1>7, <1>8, <1>9, <1>10, <1>11, <1>12, <1>13,
     <1>14, <1>15, <1>16, <1>17, <1>18, <1>19 DEF Next, System

LEMMA FollowingIsInStep == Inv => ListFollowsScript
<1> SUFFICES ASSUME Inv, Settled PROVE InStep
  BY DEF ListFollowsScript
<1>1. Following /\ headerTimer = NoId
  BY DEF Inv, Settled, Quiet
<1>2. IsInjective(list)
  BY <1>1 DEF Following, ListedScenes, DistinctIds, IsInjective
<1>3. \A i \in DOMAIN script : scenes[script[i].id] = Describe(script[i])
  BY <1>1, TrackerAssumption DEF Following
<1> QED
  BY <1>1, <1>2, <1>3 DEF InStep, Following

(***************************************************************************)
(* Whatever the user and the timers do, and in whatever order, a settled   *)
(* tracker shows exactly the headings of the script: the update that was   *)
(* put off, the restored id, the duplicate and the cancelled timer lose    *)
(* nothing (nsSceneTracker.cpp).                                           *)
(***************************************************************************)
THEOREM ScenesFollowTheScript == Spec => []ListFollowsScript
<1>1. Spec => []Inv
  BY InitFollows, StepKeeps, PTL DEF Spec
<1> QED
  BY <1>1, FollowingIsInStep, PTL
===============================================================================
