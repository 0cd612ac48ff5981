----------------------------- MODULE Hooks_proofs -----------------------------
(***************************************************************************)
(* What callHook() guarantees the handlers of a hook, however many there   *)
(* are and whatever they do to the list they are called from.              *)
(***************************************************************************)
EXTENDS Hooks, SequenceTheorems, TLAPS

-----------------------------------------------------------------------------
(* Edits of a list of handlers *)

\* What splice(idx, 1) leaves.
LEMMA RemovedFacts ==
  ASSUME NEW s \in Seq(Handlers), NEW h \in ToSet(s)
  PROVE  /\ RemoveHandler(s, h) \in Seq(Handlers) /\ Len(RemoveHandler(s, h)) = Len(s) - 1
         /\ \E q \in 1 .. Len(s) :
              /\ s[q] = h
              /\ \A j \in 1 .. Len(s) - 1 : RemoveHandler(s, h)[j] = s[IF j < q THEN j ELSE j + 1]
<1> DEFINE q == CHOOSE i \in DOMAIN s : s[i] = h
           front == SubSeq(s, 1, q - 1)
           back == SubSeq(s, q + 1, Len(s))
<1>1. q \in 1 .. Len(s) /\ s[q] = h /\ Len(s) \in Nat
  <2>1. \E i \in DOMAIN s : s[i] = h
    BY DEF ToSet
  <2> QED
    BY <2>1
<1>2. RemoveHandler(s, h) = front \o back
  BY DEF RemoveHandler, RemoveAt
<1> HIDE DEF q
<1>3. \A i \in 1 .. Len(s) : s[i] \in Handlers
  OBVIOUS
<1>4. /\ front \in Seq(Handlers) /\ Len(front) = q - 1
      /\ \A i \in 1 .. q - 1 : front[i] = s[i]
  <2>1. \A i \in 1 .. q - 1 : s[i] \in Handlers
    BY <1>1, <1>3
  <2>2. /\ front \in Seq(Handlers) /\ Len(front) = IF 1 <= q - 1 THEN (q - 1) - 1 + 1 ELSE 0
        /\ \A i \in 1 .. (q - 1) - 1 + 1 : front[i] = s[1 + i - 1]
    BY <1>1, <2>1, SubSeqProperties
  <2> QED
    BY <1>1, <2>2
<1>5. /\ back \in Seq(Handlers) /\ Len(back) = Len(s) - q
      /\ \A i \in 1 .. Len(s) - q : back[i] = s[q + i]
  <2>1. \A i \in q + 1 .. Len(s) : s[i] \in Handlers
    BY <1>1, <1>3
  <2>2. /\ back \in Seq(Handlers) /\ Len(back) = IF q + 1 <= Len(s) THEN Len(s) - (q + 1) + 1 ELSE 0
        /\ \A i \in 1 .. Len(s) - (q + 1) + 1 : back[i] = s[q + 1 + i - 1]
    BY <1>1, <2>1, SubSeqProperties
  <2> QED
    BY <1>1, <2>2
<1> HIDE DEF front, back
<1>6. /\ front \o back \in Seq(Handlers) /\ Len(front \o back) = Len(front) + Len(back)
      /\ \A j \in 1 .. Len(front) + Len(back) :
            (front \o back)[j] = IF j <= Len(front) THEN front[j] ELSE back[j - Len(front)]
  BY <1>4, <1>5, ConcatProperties
<1>7. Len(front) + Len(back) = Len(s) - 1
  BY <1>1, <1>4, <1>5
<1>8. \A j \in 1 .. Len(s) - 1 : (front \o back)[j] = IF j <= q - 1 THEN front[j] ELSE back[j - (q - 1)]
  BY <1>4, <1>6, <1>7
<1> DEFINE r == front \o back
<1> HIDE DEF r
<1>9. ASSUME NEW j \in 1 .. Len(s) - 1
      PROVE  r[j] = s[IF j < q THEN j ELSE j + 1]
  <2>0. r[j] = IF j <= q - 1 THEN front[j] ELSE back[j - (q - 1)]
    BY <1>8 DEF r
  <2>1. CASE j < q
    <3>1. j \in 1 .. q - 1 /\ j <= q - 1
      BY <1>1, <2>1
    <3>2. r[j] = front[j]
      BY <2>0, <3>1
    <3>3. front[j] = s[j]
      BY <1>4, <3>1
    <3> QED
      BY <2>1, <3>2, <3>3
  <2>2. CASE j >= q
    <3>1. j - (q - 1) \in 1 .. Len(s) - q /\ q + (j - (q - 1)) = j + 1 /\ ~(j <= q - 1) /\ ~(j < q)
      BY <1>1, <2>2
    <3>2. r[j] = back[j - (q - 1)]
      BY <2>0, <3>1
    <3>3. back[j - (q - 1)] = s[q + (j - (q - 1))]
      BY <1>5, <3>1
    <3> QED
      BY <3>1, <3>2, <3>3
  <2> QED
    BY <1>1, <2>1, <2>2
<1>10. RemoveHandler(s, h) = r /\ r \in Seq(Handlers) /\ Len(r) = Len(s) - 1
  BY <1>2, <1>6, <1>7 DEF r
<1> QED
  BY <1>1, <1>9, <1>10

LEMMA AppendFacts ==
  ASSUME NEW s \in Seq(Handlers), NEW h \in Handlers
  PROVE  /\ Append(s, h) \in Seq(Handlers) /\ Len(Append(s, h)) = Len(s) + 1
         /\ DOMAIN Append(s, h) = 1 .. Len(s) + 1 /\ DOMAIN s = 1 .. Len(s) /\ Len(s) \in Nat
         /\ \A i \in 1 .. Len(s) : Append(s, h)[i] = s[i]
         /\ Append(s, h)[Len(s) + 1] = h
         /\ ToSet(Append(s, h)) = ToSet(s) \cup {h}
<1>1. /\ Append(s, h) \in Seq(Handlers) /\ Len(Append(s, h)) = Len(s) + 1
      /\ DOMAIN Append(s, h) = 1 .. Len(s) + 1 /\ DOMAIN s = 1 .. Len(s) /\ Len(s) \in Nat
      /\ \A i \in 1 .. Len(s) : Append(s, h)[i] = s[i]
      /\ Append(s, h)[Len(s) + 1] = h
  BY AppendProperties
<1>2. \A i \in 1 .. Len(s) + 1 : i \in 1 .. Len(s) \/ i = Len(s) + 1
  BY <1>1
<1>3. 1 .. Len(s) \subseteq 1 .. Len(s) + 1 /\ Len(s) + 1 \in 1 .. Len(s) + 1
  BY <1>1
<1>4. ToSet(Append(s, h)) = ToSet(s) \cup {h}
  <2> DEFINE t == Append(s, h)
             n == Len(s)
  <2>1. /\ DOMAIN t = 1 .. n + 1 /\ DOMAIN s = 1 .. n
        /\ \A i \in 1 .. n : t[i] = s[i]
        /\ t[n + 1] = h
        /\ \A i \in 1 .. n + 1 : i \in 1 .. n \/ i = n + 1
        /\ \A i \in 1 .. n : i \in 1 .. n + 1
        /\ n + 1 \in 1 .. n + 1
    BY <1>1, <1>2, <1>3
  <2> HIDE DEF t, n
  <2>2. ToSet(t) = ToSet(s) \cup {h}
    BY <2>1 DEF ToSet
  <2> QED
    BY <2>2 DEF t
<1> QED
  BY <1>1, <1>4

\* The four edits.
LEMMA EditKinds ==
  ASSUME NEW edit \in HookEdits
  PROVE  \/ edit[1] = "none" \/ edit[1] = "clear"
         \/ edit[1] \in {"remove", "register"} /\ edit[2] \in Handlers
BY DEF HookEdits

LEMMA EditedFacts ==
  ASSUME NEW s \in Seq(Handlers), IsInjective(s), NEW edit \in HookEdits,
         edit[1] = "remove" => edit[2] \in ToSet(s), edit[1] = "register" => edit[2] \notin ToSet(s)
  PROVE  Edited(s, edit) \in Seq(Handlers) /\ IsInjective(Edited(s, edit))
<1>0. Len(s) \in Nat /\ DOMAIN s = 1 .. Len(s)
  OBVIOUS
<1>1. CASE edit[1] = "none"
  BY <1>1 DEF Edited
<1>2. CASE edit[1] = "clear"
  BY <1>2 DEF Edited, IsInjective
<1>3. CASE edit[1] = "remove"
  <2> DEFINE r == RemoveHandler(s, edit[2])
  <2>1. Edited(s, edit) = r
    BY <1>3 DEF Edited
  <2>2. PICK q \in 1 .. Len(s) : \A j \in 1 .. Len(s) - 1 : r[j] = s[IF j < q THEN j ELSE j + 1]
    BY <1>3, RemovedFacts
  <2>3. r \in Seq(Handlers) /\ Len(r) = Len(s) - 1
    BY <1>3, RemovedFacts
  <2> HIDE DEF r
  <2>4. DOMAIN r = 1 .. Len(s) - 1
    BY <2>3
  <2>5. ASSUME NEW a \in DOMAIN r, NEW b \in DOMAIN r, r[a] = r[b]
        PROVE  a = b
    <3> DEFINE x == IF a < q THEN a ELSE a + 1
               y == IF b < q THEN b ELSE b + 1
    <3>1. x \in DOMAIN s /\ y \in DOMAIN s
      BY <1>0, <2>4
    <3>2. s[x] = s[y]
      BY <2>2, <2>4, <2>5
    <3>3. x = y
      BY <3>1, <3>2 DEF IsInjective
    <3> QED
      BY <1>0, <2>4, <3>3
  <2> QED
    BY <2>1, <2>3, <2>5 DEF IsInjective
<1>4. CASE edit[1] = "register"
  <2> DEFINE h == edit[2]
             r == Append(s, h)
  <2>0. h \in Handlers
    BY <1>4, EditKinds
  <2>1. Edited(s, edit) = r
    BY <1>4 DEF Edited
  <2>2. /\ r \in Seq(Handlers) /\ DOMAIN r = 1 .. Len(s) + 1
        /\ \A i \in 1 .. Len(s) : r[i] = s[i]
        /\ r[Len(s) + 1] = h
    BY <2>0, AppendFacts
  <2>3. \A i \in DOMAIN s : s[i] # h
    BY <1>4 DEF ToSet
  <2> HIDE DEF r, h
  <2>4. ASSUME NEW a \in DOMAIN r, NEW b \in DOMAIN r, r[a] = r[b]
        PROVE  a = b
    <3>1. a \in 1 .. Len(s) \/ a = Len(s) + 1
      BY <1>0, <2>2
    <3>2. b \in 1 .. Len(s) \/ b = Len(s) + 1
      BY <1>0, <2>2
    <3> QED
      BY <1>0, <2>2, <2>3, <2>4, <3>1, <3>2 DEF IsInjective
  <2> QED
    BY <2>1, <2>2, <2>4 DEF IsInjective
<1> QED
  BY <1>1, <1>2, <1>3, <1>4, EditKinds

\* r is s, or s without the handler at some place.
Shifted(s, r) ==
    \E q \in Nat : \A j \in DOMAIN r :
        LET k == IF j < q THEN j ELSE j + 1
        IN  k \in DOMAIN s /\ r[j] = s[k]

LEMMA ShiftedRefl ==
  ASSUME NEW s \in Seq(Handlers)
  PROVE  Shifted(s, s)
<1>1. DOMAIN s = 1 .. Len(s) /\ Len(s) + 1 \in Nat
  OBVIOUS
<1>2. \A j \in DOMAIN s : j < Len(s) + 1
  BY <1>1
<1> QED
  BY <1>1, <1>2 DEF Shifted

\* What one handler's edit leaves of the list the loop walks.
LEMMA EditedArray ==
  ASSUME NEW s \in Seq(Handlers), NEW edit \in HookEdits, edit[1] # "clear",
         edit[1] = "remove" => edit[2] \in ToSet(s)
  PROVE  /\ Edited(s, edit) \in Seq(Handlers)
         /\ edit[1] # "register" => Shifted(s, Edited(s, edit))
         /\ \A n \in 1 .. Len(s) :
              (edit[1] = "remove" => \A i \in 1 .. n : s[i] # edit[2]) =>
                 n <= Len(Edited(s, edit)) /\ \A i \in 1 .. n : Edited(s, edit)[i] = s[i]
         /\ \A h \in ToSet(s) : h \in ToSet(Edited(s, edit)) \/ (edit[1] = "remove" /\ h = edit[2])
         /\ edit[1] = "register" => edit[2] \in ToSet(Edited(s, edit))
<1>0. Len(s) \in Nat /\ DOMAIN s = 1 .. Len(s)
  OBVIOUS
<1>1. CASE edit[1] = "none"
  BY <1>0, <1>1, ShiftedRefl DEF Edited
<1>2. CASE edit[1] = "remove"
  <2> DEFINE g == edit[2]
             r == RemoveHandler(s, g)
  <2>1. Edited(s, edit) = r
    BY <1>2 DEF Edited
  <2>2. PICK q \in 1 .. Len(s) :
             s[q] = g /\ \A j \in 1 .. Len(s) - 1 : r[j] = s[IF j < q THEN j ELSE j + 1]
    BY <1>2, RemovedFacts
  <2>3. r \in Seq(Handlers) /\ Len(r) = Len(s) - 1
    BY <1>2, RemovedFacts
  <2> HIDE DEF r, g
  <2>4. DOMAIN r = 1 .. Len(s) - 1 /\ q \in Nat
    BY <1>0, <2>3
  <2>5. \A j \in DOMAIN r : (IF j < q THEN j ELSE j + 1) \in DOMAIN s
    BY <1>0, <2>4
  <2>6. Shifted(s, r)
    <3>1. \A j \in DOMAIN r : r[j] = s[IF j < q THEN j ELSE j + 1]
      BY <2>2, <2>4
    <3> QED
      BY <2>4, <2>5, <3>1 DEF Shifted
  <2>7. ASSUME NEW n \in 1 .. Len(s), \A i \in 1 .. n : s[i] # g
        PROVE  n <= Len(r) /\ \A i \in 1 .. n : r[i] = s[i]
    <3>1. n < q
      BY <1>0, <2>2, <2>7
    <3>2. n <= Len(s) - 1 /\ \A i \in 1 .. n : i < q /\ i \in 1 .. Len(s) - 1
      BY <1>0, <3>1
    <3> QED
      BY <2>2, <2>3, <3>2
  <2>8. ASSUME NEW h \in ToSet(s), h # g
        PROVE  h \in ToSet(r)
    <3>1. PICK k \in 1 .. Len(s) : s[k] = h
      BY <1>0 DEF ToSet
    <3> DEFINE j == IF k < q THEN k ELSE k - 1
    <3>2. k # q
      BY <2>2, <2>8, <3>1
    <3>3. j \in 1 .. Len(s) - 1 /\ k = IF j < q THEN j ELSE j + 1
      BY <1>0, <3>2
    <3> HIDE DEF j
    <3>4. r[j] = h
      BY <2>2, <3>1, <3>3
    <3> QED
      BY <2>4, <3>3, <3>4 DEF ToSet
  <2> QED
    BY <1>2, <2>1, <2>3, <2>6, <2>7, <2>8 DEF g
<1>3. CASE edit[1] = "register"
  <2> DEFINE g == edit[2]
  <2>1. Edited(s, edit) = Append(s, g)
    BY <1>3 DEF Edited
  <2>2. g \in Handlers
    BY <1>3, EditKinds
  <2> HIDE DEF g
  <2>3. /\ Append(s, g) \in Seq(Handlers) /\ Len(Append(s, g)) = Len(s) + 1
        /\ \A i \in 1 .. Len(s) : Append(s, g)[i] = s[i]
        /\ ToSet(Append(s, g)) = ToSet(s) \cup {g}
    BY <2>2, AppendFacts
  <2>4. \A n \in 1 .. Len(s) : n <= Len(s) + 1 /\ \A i \in 1 .. n : i \in 1 .. Len(s)
    BY <1>0
  <2> QED
    BY <1>3, <2>1, <2>3, <2>4 DEF g
<1> QED
  BY <1>1, <1>2, <1>3, EditKinds

-----------------------------------------------------------------------------
(* One handler *)

LEMMA AdvancedFacts ==
  ASSUME NEW edit \in HookEdits, loop \in Loops
  PROVE  /\ Advanced(edit).at = loop.at + 1
         /\ Advanced(edit).ran = Append(loop.ran, loop.array[loop.at])
         /\ Advanced(edit).attached = (loop.attached /\ edit[1] # "clear")
         /\ Advanced(edit).array = IF loop.attached /\ edit[1] # "clear" THEN Edited(loop.array, edit) ELSE loop.array
         /\ Advanced(edit).spliced = (loop.spliced \/ Splices(edit))
         /\ Advanced(edit).added = (loop.added \/ edit[1] = "register")
         /\ Advanced(edit).context = loop.context /\ Advanced(edit).result = loop.result
         /\ Advanced(edit).due = loop.due /\ Advanced(edit).spoke = loop.spoke
BY DEF Advanced, Loops

LEMMA DroppedFacts ==
  ASSUME NEW edit \in HookEdits, loop \in Loops
  PROVE  /\ Advanced(edit).dropped \subseteq Handlers
         /\ ~loop.attached \/ edit[1] \in {"none", "clear"} => Advanced(edit).dropped = loop.dropped
         /\ loop.attached /\ edit[1] = "remove" => Advanced(edit).dropped = loop.dropped \cup {edit[2]}
         /\ loop.attached /\ edit[1] = "register" => Advanced(edit).dropped = loop.dropped \ {edit[2]}
<1> DEFINE d == IF ~loop.attached THEN loop.dropped
                ELSE CASE edit[1] = "remove" -> loop.dropped \cup {edit[2]}
                       [] edit[1] = "register" -> loop.dropped \ {edit[2]}
                       [] OTHER -> loop.dropped
<1>1. Advanced(edit).dropped = d
  BY DEF Advanced, Loops
<1>2. loop.dropped \subseteq Handlers
  BY DEF Loops
<1> QED
  BY <1>1, <1>2, EditKinds

LEMMA AdvancedType ==
  ASSUME NEW edit \in HookEdits, loop \in Loops, loop.at <= Len(loop.array),
         loop.attached /\ edit[1] = "remove" => edit[2] \in ToSet(loop.array)
  PROVE  Advanced(edit) \in Loops
<1> DEFINE at == loop.at + 1
           ran == Append(loop.ran, loop.array[loop.at])
           attached == loop.attached /\ edit[1] # "clear"
           array == IF loop.attached /\ edit[1] # "clear" THEN Edited(loop.array, edit) ELSE loop.array
           spliced == loop.spliced \/ Splices(edit)
           added == loop.added \/ edit[1] = "register"
           dropped == IF ~loop.attached THEN loop.dropped
                      ELSE CASE edit[1] = "remove" -> loop.dropped \cup {edit[2]}
                             [] edit[1] = "register" -> loop.dropped \ {edit[2]}
                             [] OTHER -> loop.dropped
<1>1. loop.array \in Seq(Handlers) /\ loop.at \in Nat \ {0} /\ loop.ran \in Seq(Handlers)
  BY DEF Loops
<1>2. loop.array[loop.at] \in Handlers
  BY <1>1
<1>3. at \in Nat \ {0} /\ ran \in Seq(Handlers)
  BY <1>1, <1>2
<1>4. array \in Seq(Handlers)
  BY <1>1, EditedArray
<1>5. dropped \in SUBSET Handlers
  BY EditKinds DEF Loops
<1>6. attached \in BOOLEAN /\ added \in BOOLEAN /\ spliced \in BOOLEAN
  BY DEF Loops, Splices
<1>7. Advanced(edit) = [loop EXCEPT !.at = at, !.ran = ran, !.attached = attached, !.array = array,
                                    !.spliced = spliced, !.added = added, !.dropped = dropped]
  BY DEF Advanced
<1> HIDE DEF at, ran, attached, array, spliced, added, dropped
<1>8. [loop EXCEPT !.at = at, !.ran = ran, !.attached = attached, !.array = array,
                   !.spliced = spliced, !.added = added, !.dropped = dropped] \in Loops
  BY <1>3, <1>4, <1>5, <1>6 DEF Loops
<1> QED
  BY <1>7, <1>8

LEMMA AnswersFacts ==
  ASSUME NEW name, NEW h \in Handlers, NEW l \in Loops, NEW speaks \in BOOLEAN
  PROVE  /\ Answers(name, h, l, speaks) \in Loops
         /\ \A f \in {"array", "at", "attached", "due", "ran", "spliced", "added", "dropped"} :
              Answers(name, h, l, speaks)[f] = l[f]
         /\ ~speaks => Answers(name, h, l, speaks) = l
         /\ speaks => /\ Answers(name, h, l, speaks).result = <<Append(l.context, h)>>
                      /\ Answers(name, h, l, speaks).context = IF Chains(name) THEN Append(l.context, h) ELSE l.context
                      /\ Answers(name, h, l, speaks).spoke = Append(l.spoke, h)
<1>1. CASE ~speaks
  BY <1>1 DEF Answers
<1>2. CASE speaks
  <2> DEFINE ret == Append(l.context, h)
             said == Append(l.spoke, h)
             told == IF Chains(name) THEN ret ELSE l.context
             new == [l EXCEPT !.result = <<ret>>, !.context = told, !.spoke = said]
  <2>1. l.context \in Seq(Handlers) /\ l.spoke \in Seq(Handlers)
    BY DEF Loops
  <2>2. ret \in Seq(Handlers) /\ said \in Seq(Handlers)
    BY <2>1
  <2>3. told \in Seq(Handlers) /\ <<ret>> \in Seq(Seq(Handlers))
    BY <2>1, <2>2
  <2>4. Answers(name, h, l, speaks) = new
    BY <1>2 DEF Answers
  <2> HIDE DEF ret, said, told
  <2>5. new \in Loops
    BY <2>2, <2>3 DEF Loops
  <2>6. \A f \in {"array", "at", "attached", "due", "ran", "spliced", "added", "dropped"} : new[f] = l[f]
    BY DEF Loops
  <2>7. new.result = <<ret>> /\ new.context = told /\ new.spoke = said
    BY DEF Loops
  <2> HIDE DEF new
  <2> QED
    BY <1>2, <2>4, <2>5, <2>6, <2>7 DEF ret, said, told
<1> QED
  BY <1>1, <1>2

LEMMA AnswersContext ==
  ASSUME NEW name, NEW h \in Handlers, NEW l \in Loops, NEW speaks \in BOOLEAN, speaks
  PROVE  Answers(name, h, l, speaks).context = IF Chains(name) THEN Append(l.context, h) ELSE l.context
<1> DEFINE ret == Append(l.context, h)
           told == IF Chains(name) THEN ret ELSE l.context
           said == Append(l.spoke, h)
           a == Answers(name, h, l, speaks)
<1>1. a = [l EXCEPT !.result = <<ret>>, !.context = told, !.spoke = said]
  BY DEF Answers
<1> HIDE DEF a, told, said, ret
<1>2. a.context = told
  BY <1>1 DEF Loops
<1> QED
  BY <1>2 DEF a, told, ret

\* What one handler's turn does to the loop.
LEMMA CallFacts ==
  ASSUME HookInv, NEW edit \in HookEdits, NEW speaks \in BOOLEAN, CallHandler(edit, speaks)
  PROVE  /\ stage \in HookNames /\ stage' = stage /\ marks' = marks
         /\ loop \in Loops /\ loop' \in Loops
         /\ LiveArray /\ RanPrefix /\ StillThere /\ Ordered /\ Composed
         /\ loop.array \in Seq(Handlers) /\ loop.ran \in Seq(Handlers)
         /\ loop.at \in 1 .. Len(loop.array) /\ Len(loop.array) \in Nat /\ Len(loop.ran) \in Nat
         /\ loop.array[loop.at] \in Handlers
         /\ loop.attached /\ edit[1] = "remove" => edit[2] \in ToSet(loop.array)
         /\ loop'.at = loop.at + 1 /\ loop'.ran = Append(loop.ran, loop.array[loop.at])
         /\ loop'.due = loop.due /\ loop'.spliced = (loop.spliced \/ Splices(edit))
         /\ loop'.added = (loop.added \/ edit[1] = "register")
         /\ loop'.attached = (loop.attached /\ edit[1] # "clear")
         /\ loop'.array = IF loop.attached /\ edit[1] # "clear" THEN Edited(loop.array, edit) ELSE loop.array
         /\ loop'.dropped = Advanced(edit).dropped
<1>1. /\ stage \in HookNames /\ stage' = stage /\ marks' = marks /\ loop \in Loops
      /\ LiveArray /\ RanPrefix /\ StillThere /\ Ordered /\ Composed
  BY DEF HookInv, HookTypes, CallHandler
<1>2. /\ loop.array \in Seq(Handlers) /\ loop.ran \in Seq(Handlers) /\ loop.at \in Nat \ {0}
      /\ loop.at <= Len(loop.array)
  BY <1>1 DEF Loops, CallHandler
<1>3. loop.at \in 1 .. Len(loop.array) /\ Len(loop.array) \in Nat /\ Len(loop.ran) \in Nat
  BY <1>2
<1>4. loop.array[loop.at] \in Handlers
  BY <1>2, <1>3
<1>5. loop.attached /\ edit[1] = "remove" => edit[2] \in ToSet(loop.array)
  BY <1>1 DEF CallHandler, Registered, LiveArray
<1> DEFINE adv == Advanced(edit)
<1>6. adv \in Loops
  BY <1>1, <1>2, <1>5, AdvancedType
<1>7. loop' = Answers(stage, loop.array[loop.at], adv, speaks)
  BY DEF CallHandler
<1>8. /\ adv.at = loop.at + 1
      /\ adv.ran = Append(loop.ran, loop.array[loop.at])
      /\ adv.attached = (loop.attached /\ edit[1] # "clear")
      /\ adv.array = IF loop.attached /\ edit[1] # "clear" THEN Edited(loop.array, edit) ELSE loop.array
      /\ adv.spliced = (loop.spliced \/ Splices(edit))
      /\ adv.added = (loop.added \/ edit[1] = "register")
      /\ adv.due = loop.due
  BY <1>1, AdvancedFacts
<1> HIDE DEF adv
<1>9. /\ loop' \in Loops
      /\ \A f \in {"array", "at", "attached", "due", "ran", "spliced", "added", "dropped"} : loop'[f] = adv[f]
  BY <1>4, <1>6, <1>7, AnswersFacts, ZenonT(30)
<1>10. loop'.dropped = Advanced(edit).dropped
  BY <1>9 DEF adv
<1> QED
  BY <1>1, <1>2, <1>3, <1>4, <1>5, <1>8, <1>9, <1>10

LEMMA CallKeepsLists ==
  ASSUME HookInv, NEW edit \in HookEdits, NEW speaks \in BOOLEAN, CallHandler(edit, speaks)
  PROVE  HookTypes' /\ OneEach' /\ LiveArray'
<1>1. /\ stage \in HookNames /\ stage' = stage /\ marks' = marks /\ loop' \in Loops /\ LiveArray
      /\ loop'.attached = (loop.attached /\ edit[1] # "clear")
      /\ loop'.array = IF loop.attached /\ edit[1] # "clear" THEN Edited(loop.array, edit) ELSE loop.array
  BY CallFacts
<1>2. /\ hooks \in [HookNames -> Seq(Handlers)] /\ marks \in Seq(Handlers) /\ OneEach
  BY DEF HookInv, HookTypes
<1>3. hooks' = [hooks EXCEPT ![stage] = Edited(hooks[stage], edit)]
  BY DEF CallHandler
<1>4. /\ edit[1] = "remove" => edit[2] \in ToSet(hooks[stage])
      /\ edit[1] = "register" => edit[2] \notin ToSet(hooks[stage])
  BY DEF CallHandler, Registered
<1>5. Edited(hooks[stage], edit) \in Seq(Handlers) /\ IsInjective(Edited(hooks[stage], edit))
  BY <1>1, <1>2, <1>4, EditedFacts DEF OneEach
<1>6. HookTypes'
  BY <1>1, <1>2, <1>3, <1>5 DEF HookTypes
<1>7. OneEach'
  <2>1. \A name \in HookNames : hooks'[name] = IF name = stage THEN Edited(hooks[stage], edit) ELSE hooks[name]
    BY <1>1, <1>2, <1>3
  <2>2. ASSUME NEW name \in HookNames PROVE IsInjective(hooks'[name])
    BY <1>2, <1>5, <2>1 DEF OneEach
  <2> QED
    BY <2>2 DEF OneEach
<1>8. LiveArray'
  BY <1>1, <1>2, <1>3 DEF LiveArray
<1> QED
  BY <1>6, <1>7, <1>8

LEMMA CallKeepsRan ==
  ASSUME HookInv, NEW edit \in HookEdits, NEW speaks \in BOOLEAN, CallHandler(edit, speaks)
  PROVE  RanPrefix'
<1> SUFFICES ASSUME ~loop'.spliced
             PROVE  /\ Len(loop'.ran) = loop'.at - 1 /\ Len(loop'.ran) <= Len(loop'.array)
                    /\ \A i \in DOMAIN loop'.ran : loop'.ran[i] = loop'.array[i]
  BY DEF RanPrefix
<1> DEFINE s == loop.array
           r == loop'.array
           n == loop.at
           live == loop.attached /\ edit[1] # "clear"
<1>1. /\ s \in Seq(Handlers) /\ loop.ran \in Seq(Handlers) /\ n \in 1 .. Len(s) /\ Len(s) \in Nat
      /\ s[n] \in Handlers /\ Len(loop.ran) \in Nat
      /\ live /\ edit[1] = "remove" => edit[2] \in ToSet(s)
      /\ r = IF live THEN Edited(s, edit) ELSE s
      /\ loop'.at = n + 1 /\ loop'.ran = Append(loop.ran, s[n])
      /\ ~loop.spliced /\ ~Splices(edit) /\ RanPrefix
  BY CallFacts
<1>2. Len(loop.ran) = n - 1 /\ \A i \in DOMAIN loop.ran : loop.ran[i] = s[i]
  BY <1>1 DEF RanPrefix
<1>3. loop.attached /\ edit[1] = "remove" => \A i \in 1 .. n : s[i] # edit[2]
  <2>1. DOMAIN s = 1 .. Len(s)
    BY <1>1
  <2>2. \A i \in 1 .. n : i \in DOMAIN s /\ i <= n
    BY <1>1, <2>1
  <2> QED
    BY <1>1, <2>2 DEF Splices
<1> HIDE DEF s, r, n
<1>4. n <= Len(r) /\ \A i \in 1 .. n : r[i] = s[i]
  <2>1. CASE live
    BY <1>1, <1>3, <2>1, EditedArray
  <2>2. CASE ~live
    BY <1>1, <2>2
  <2> QED
    BY <2>1, <2>2
<1>5. /\ Len(loop'.ran) = Len(loop.ran) + 1 /\ DOMAIN loop'.ran = 1 .. Len(loop.ran) + 1
      /\ DOMAIN loop.ran = 1 .. Len(loop.ran)
      /\ \A i \in 1 .. Len(loop.ran) : loop'.ran[i] = loop.ran[i]
      /\ loop'.ran[Len(loop.ran) + 1] = s[n]
  BY <1>1, AppendFacts
<1>6. Len(loop.ran) + 1 = n /\ n \in Nat \ {0}
  BY <1>1, <1>2
<1>7. Len(loop'.ran) = loop'.at - 1 /\ Len(loop'.ran) <= Len(r)
  BY <1>1, <1>4, <1>5, <1>6
<1>8. \A i \in 1 .. n : loop'.ran[i] = s[i]
  <2> TAKE i \in 1 .. n
  <2>1. CASE i = n
    BY <1>5, <1>6, <2>1
  <2>2. CASE i # n
    <3>1. i \in 1 .. Len(loop.ran)
      BY <1>6, <2>2
    <3> QED
      BY <1>2, <1>5, <3>1
  <2> QED
    BY <2>1, <2>2
<1>9. \A i \in DOMAIN loop'.ran : loop'.ran[i] = r[i]
  BY <1>4, <1>5, <1>6, <1>8
<1> QED
  BY <1>7, <1>9 DEF r

LEMMA CallKeepsThere ==
  ASSUME HookInv, NEW edit \in HookEdits, NEW speaks \in BOOLEAN, CallHandler(edit, speaks)
  PROVE  StillThere'
<1> DEFINE live == loop.attached /\ edit[1] # "clear"
<1>1. /\ loop.array \in Seq(Handlers) /\ loop \in Loops /\ StillThere
      /\ loop.attached /\ edit[1] = "remove" => edit[2] \in ToSet(loop.array)
      /\ loop'.array = IF live THEN Edited(loop.array, edit) ELSE loop.array
      /\ loop'.due = loop.due /\ loop'.dropped = Advanced(edit).dropped
  BY CallFacts
<1>2. CASE ~live
  BY <1>1, <1>2, DroppedFacts, EditKinds DEF StillThere
<1>3. CASE live
  <2>1. /\ \A h \in ToSet(loop.array) :
             h \in ToSet(Edited(loop.array, edit)) \/ (edit[1] = "remove" /\ h = edit[2])
        /\ edit[1] = "register" => edit[2] \in ToSet(Edited(loop.array, edit))
    BY <1>1, <1>3, EditedArray
  <2>2. \/ edit[1] = "none" /\ loop'.dropped = loop.dropped
        \/ edit[1] = "remove" /\ loop'.dropped = loop.dropped \cup {edit[2]}
        \/ edit[1] = "register" /\ loop'.dropped = loop.dropped \ {edit[2]}
    BY <1>1, <1>3, DroppedFacts, EditKinds
  <2>3. loop'.array = Edited(loop.array, edit)
    BY <1>1, <1>3
  <2> QED
    BY <1>1, <2>1, <2>2, <2>3 DEF StillThere
<1> QED
  BY <1>2, <1>3

LEMMA CallKeepsOrder ==
  ASSUME HookInv, NEW edit \in HookEdits, NEW speaks \in BOOLEAN, CallHandler(edit, speaks)
  PROVE  Ordered'
<1> DEFINE s == loop.array
           r == loop'.array
           n == loop.at
           m == Len(loop.ran)
           due == loop.due
<1>1. /\ s \in Seq(Handlers) /\ loop.ran \in Seq(Handlers) /\ n \in 1 .. Len(s) /\ Len(s) \in Nat
      /\ s[n] \in Handlers /\ m \in Nat /\ loop \in Loops /\ loop' \in Loops
      /\ loop.attached /\ edit[1] = "remove" => edit[2] \in ToSet(s)
      /\ r = IF loop.attached /\ edit[1] # "clear" THEN Edited(s, edit) ELSE s
      /\ loop'.at = n + 1 /\ loop'.ran = Append(loop.ran, s[n]) /\ loop'.due = due
      /\ loop'.added = (loop.added \/ edit[1] = "register") /\ Ordered
  BY CallFacts
<1>2. IsInjective(loop'.due)
  BY <1>1 DEF Ordered
<1> SUFFICES ASSUME ~loop'.added
             PROVE  /\ ToSet(loop'.ran) \cup ToSet(r) \subseteq ToSet(due)
                    /\ \A i, j \in DOMAIN loop'.ran : i < j => Before(loop'.ran[i], loop'.ran[j], due)
                    /\ \A i, j \in DOMAIN r : i < j => Before(r[i], r[j], due)
                    /\ \A i \in DOMAIN loop'.ran, j \in DOMAIN r :
                          j >= n + 1 => Before(loop'.ran[i], r[j], due)
  BY <1>1, <1>2 DEF Ordered
<1>3. ~loop.added /\ edit[1] # "register"
  BY <1>1
<1>4. /\ ToSet(loop.ran) \cup ToSet(s) \subseteq ToSet(due)
      /\ \A i, j \in DOMAIN loop.ran : i < j => Before(loop.ran[i], loop.ran[j], due)
      /\ \A i, j \in DOMAIN s : i < j => Before(s[i], s[j], due)
      /\ \A i \in DOMAIN loop.ran, j \in DOMAIN s : j >= n => Before(loop.ran[i], s[j], due)
  BY <1>1, <1>3 DEF Ordered
<1>5. Shifted(s, r) /\ r \in Seq(Handlers)
  <2>1. CASE loop.attached /\ edit[1] # "clear"
    BY <1>1, <1>3, <2>1, EditedArray
  <2>2. CASE ~(loop.attached /\ edit[1] # "clear")
    BY <1>1, <2>2, ShiftedRefl
  <2> QED
    BY <2>1, <2>2
<1>6. /\ DOMAIN loop'.ran = 1 .. m + 1 /\ DOMAIN loop.ran = 1 .. m
      /\ \A i \in 1 .. m : loop'.ran[i] = loop.ran[i]
      /\ loop'.ran[m + 1] = s[n]
      /\ ToSet(loop'.ran) = ToSet(loop.ran) \cup {s[n]}
  BY <1>1, AppendFacts
<1>7. DOMAIN s = 1 .. Len(s) /\ DOMAIN r = 1 .. Len(r) /\ Len(r) \in Nat
  BY <1>1, <1>5
<1> HIDE DEF s, r, n, m, due
<1>8. PICK q \in Nat : \A j \in DOMAIN r :
            LET k == IF j < q THEN j ELSE j + 1
            IN  k \in DOMAIN s /\ r[j] = s[k]
  BY <1>5 DEF Shifted
<1> DEFINE At(j) == IF j < q THEN j ELSE j + 1
<1>9. \A j \in DOMAIN r : At(j) \in DOMAIN s /\ r[j] = s[At(j)]
  BY <1>8
<1>10. \A j \in DOMAIN r : At(j) >= j
  BY <1>7
<1>11. \A i, j \in DOMAIN r : i < j => At(i) < At(j)
  BY <1>7
<1> HIDE DEF At
<1>12. ToSet(loop'.ran) \cup ToSet(r) \subseteq ToSet(due)
  <2>1. ToSet(r) \subseteq ToSet(s)
    BY <1>9 DEF ToSet
  <2>2. s[n] \in ToSet(s)
    BY <1>1, <1>7 DEF ToSet
  <2> QED
    BY <1>4, <1>6, <2>1, <2>2
<1>13. ASSUME NEW i \in DOMAIN loop'.ran, NEW j \in DOMAIN loop'.ran, i < j
       PROVE  Before(loop'.ran[i], loop'.ran[j], due)
  <2>1. i \in 1 .. m /\ (j \in 1 .. m \/ j = m + 1)
    BY <1>1, <1>6, <1>13, SMTT(30)
  <2>2. CASE j \in 1 .. m
    <3>1. loop'.ran[i] = loop.ran[i] /\ loop'.ran[j] = loop.ran[j]
      BY <1>6, <2>1, <2>2
    <3> QED
      BY <1>4, <1>6, <1>13, <2>1, <2>2, <3>1
  <2>3. CASE j = m + 1
    <3>1. loop'.ran[i] = loop.ran[i] /\ loop'.ran[j] = s[n]
      BY <1>6, <2>1, <2>3
    <3>2. n \in DOMAIN s /\ n >= n
      BY <1>1, <1>7
    <3> QED
      BY <1>4, <1>6, <2>1, <3>1, <3>2
  <2> QED
    BY <2>1, <2>2, <2>3
<1>14. ASSUME NEW i \in DOMAIN r, NEW j \in DOMAIN r, i < j
       PROVE  Before(r[i], r[j], due)
  BY <1>4, <1>9, <1>11, <1>14
<1>15. ASSUME NEW i \in DOMAIN loop'.ran, NEW j \in DOMAIN r, j >= n + 1
       PROVE  Before(loop'.ran[i], r[j], due)
  <2>0. i \in 1 .. m \/ i = m + 1
    BY <1>1, <1>6
  <2>1. At(j) \in DOMAIN s /\ r[j] = s[At(j)] /\ At(j) >= j
    BY <1>9, <1>10
  <2>2. n < At(j) /\ At(j) >= n /\ n \in DOMAIN s
    BY <1>1, <1>7, <1>15, <2>1
  <2>3. CASE i \in 1 .. m
    <3>1. loop'.ran[i] = loop.ran[i] /\ i \in DOMAIN loop.ran
      BY <1>6, <2>3
    <3> QED
      BY <1>4, <2>1, <2>2, <3>1
  <2>4. CASE i = m + 1
    <3>1. loop'.ran[i] = s[n]
      BY <1>6, <2>4
    <3> QED
      BY <1>4, <2>1, <2>2, <3>1
  <2> QED
    BY <2>0, <2>3, <2>4
<1> QED
  BY <1>12, <1>13, <1>14, <1>15

LEMMA CallKeepsComposed ==
  ASSUME HookInv, NEW edit \in HookEdits, NEW speaks \in BOOLEAN, CallHandler(edit, speaks)
  PROVE  Composed'
<1> DEFINE adv == Advanced(edit)
           h == loop.array[loop.at]
           begun == Given(stage, marks)
           said == loop.spoke
<1>1. /\ stage \in HookNames /\ stage' = stage /\ marks' = marks /\ loop \in Loops /\ loop' \in Loops
      /\ Composed /\ h \in Handlers
  BY CallFacts
<1>2. loop' = Answers(stage, h, adv, speaks)
  BY DEF CallHandler
<1>3. adv.context = loop.context /\ adv.result = loop.result /\ adv.spoke = said
  BY <1>1, AdvancedFacts
<1>4. adv \in Loops
  BY CallFacts, AdvancedType DEF CallHandler
<1>5. marks \in Seq(Handlers) /\ said \in Seq(Handlers) /\ begun \in Seq(Handlers)
  BY <1>1 DEF HookInv, HookTypes, Loops, Given
<1>6. Given(stage, marks)' = begun
  BY <1>1 DEF Given
<1>7. Chains(stage)' = Chains(stage)
  BY <1>1 DEF Chains
<1>8. /\ loop.context = IF Chains(stage) THEN begun \o said ELSE begun
      /\ loop.result = IF said = <<>> THEN <<>>
                       ELSE IF Chains(stage) THEN <<begun \o said>> ELSE <<Append(begun, said[Len(said)])>>
  BY <1>1 DEF Composed
<1> HIDE DEF adv, h, begun, said
<1>9. CASE ~speaks
  <2>1. loop' = adv
    BY <1>1, <1>2, <1>4, <1>9, AnswersFacts
  <2>2. loop'.context = loop.context /\ loop'.result = loop.result /\ loop'.spoke = loop.spoke
    BY <1>3, <2>1 DEF said
  <2> QED
    BY <1>6, <1>7, <1>8, <2>2 DEF Composed, begun, said
<1>10. CASE speaks
  <2> DEFINE said2 == Append(said, h)
  <2>1. /\ loop'.result = <<Append(loop.context, h)>>
        /\ loop'.context = IF Chains(stage) THEN Append(loop.context, h) ELSE loop.context
        /\ loop'.spoke = said2
    <3>1. /\ loop'.result = <<Append(adv.context, h)>>
          /\ loop'.context = IF Chains(stage) THEN Append(adv.context, h) ELSE adv.context
          /\ loop'.spoke = Append(adv.spoke, h)
      <4> DEFINE new == Answers(stage, h, adv, speaks)
      <4>1. new.result = <<Append(adv.context, h)>>
        BY <1>4, <1>10 DEF Answers, Loops
      <4>2. new.context = IF Chains(stage) THEN Append(adv.context, h) ELSE adv.context
        BY <1>1, <1>4, <1>10, AnswersContext
      <4>3. new.spoke = Append(adv.spoke, h)
        BY <1>4, <1>10 DEF Answers, Loops
      <4> HIDE DEF new
      <4> QED
        BY <1>2, <4>1, <4>2, <4>3 DEF new
    <3> QED
      BY <1>3, <3>1
  <2>2. said2 # <<>> /\ said2[Len(said2)] = h
    BY <1>1, <1>5
  <2>3. Append(begun \o said, h) = begun \o said2
    <3>1. /\ Append(begun \o said, h) = (begun \o said) \o <<h>> /\ said2 = said \o <<h>>
          /\ begun \o said \in Seq(Handlers)
      BY <1>1, <1>5, AppendIsConcat, ConcatProperties
    <3>2. <<h>> \in Seq(Handlers)
      BY <1>1
    <3> QED
      BY <1>5, <3>1, <3>2, ConcatAssociative, SMTT(30)
  <2> HIDE DEF said2
  <2>4. loop'.context = IF Chains(stage) THEN begun \o said2 ELSE begun
    BY <1>8, <2>1, <2>3
  <2>5. loop'.result = IF Chains(stage) THEN <<begun \o said2>> ELSE <<Append(begun, said2[Len(said2)])>>
    BY <1>8, <2>1, <2>2, <2>3
  <2> QED
    BY <1>6, <1>7, <2>1, <2>2, <2>4, <2>5 DEF Composed
<1> QED
  BY <1>9, <1>10

LEMMA CallKeeps ==
  ASSUME HookInv, NEW edit \in HookEdits, NEW speaks \in BOOLEAN, CallHandler(edit, speaks)
  PROVE  HookInv'
BY CallKeepsLists, CallKeepsRan, CallKeepsThere, CallKeepsOrder, CallKeepsComposed DEF HookInv

-----------------------------------------------------------------------------
(* Beginning and ending a loop *)

LEMMA EmptyLoop ==
  NoLoop \in Loops
BY DEF NoLoop, Loops

LEMMA StartKeeps ==
  ASSUME HookInv, NEW CONSTANT name \in HookNames, Starts(name), marks' \in Seq(Handlers)
  PROVE  HookInv'
<1> DEFINE given == Given(name, marks')
           s == hooks[name]
           l == StartLoop(name, given)
<1>1. /\ hooks \in [HookNames -> Seq(Handlers)] /\ OneEach
      /\ hooks' = hooks /\ stage' = name /\ loop' = l
  BY DEF HookInv, HookTypes, Starts
<1>2. s \in Seq(Handlers) /\ given \in Seq(Handlers) /\ IsInjective(s)
  BY <1>1 DEF Given, OneEach
<1>3. l = [array |-> s, at |-> 1, attached |-> TRUE, context |-> given, result |-> <<>>, due |-> s,
           ran |-> <<>>, spoke |-> <<>>, spliced |-> FALSE, added |-> FALSE, dropped |-> {}]
  <2>1. l = [NoLoop EXCEPT !.array = s, !.context = given, !.due = s]
    BY DEF StartLoop
  <2> HIDE DEF s, l, given
  <2> QED
    BY <2>1 DEF NoLoop
<1> HIDE DEF s, l, given
<1>4. l \in Loops
  BY <1>2, <1>3 DEF Loops
<1>5. /\ loop'.array = s /\ loop'.at = 1 /\ loop'.attached /\ loop'.context = given /\ loop'.result = <<>>
      /\ loop'.due = s /\ loop'.ran = <<>> /\ loop'.spoke = <<>> /\ loop'.dropped = {}
  BY <1>1, <1>3
<1>6. HookTypes' /\ OneEach'
  BY <1>1, <1>4 DEF HookTypes, OneEach
<1>7. LiveArray' /\ StillThere'
  BY <1>1, <1>5 DEF LiveArray, StillThere, s
<1>8. RanPrefix'
  BY <1>2, <1>5 DEF RanPrefix
<1>9. Ordered'
  <2>1. ToSet(loop'.ran) = {} /\ DOMAIN loop'.ran = {}
    BY <1>5 DEF ToSet
  <2>2. \A i, j \in DOMAIN s : i < j => Before(s[i], s[j], s)
    BY DEF Before
  <2> QED
    BY <1>2, <1>5, <2>1, <2>2 DEF Ordered
<1>10. Composed'
  <2>1. Given(stage, marks)' = given
    BY <1>1 DEF given, Given
  <2>2. given \o <<>> = given
    BY <1>2, ConcatEmptySeq
  <2> QED
    BY <1>5, <2>1, <2>2 DEF Composed
<1> QED
  BY <1>6, <1>7, <1>8, <1>9, <1>10 DEF HookInv

\* What the last handler of a hook leaves is a query with marks.
LEMMA OutcomeType ==
  ASSUME HookInv, NEW given \in Seq(Handlers)
  PROVE  Outcome(given) \in Seq(Handlers)
<1>1. loop.result \in Seq(Seq(Handlers))
  BY DEF HookInv, HookTypes, Loops
<1>2. loop.result # <<>> => loop.result[1] \in Seq(Handlers)
  BY <1>1
<1> QED
  BY <1>2 DEF Outcome

LEMMA IdleKeeps ==
  ASSUME HookInv, Idle, marks' \in Seq(Handlers)
  PROVE  HookInv'
<1>1. "ready" \notin HookNames
  BY DEF HookNames, BeforeHooks
<1> QED
  BY <1>1, EmptyLoop DEF HookInv, HookTypes, OneEach, Idle

LEMMA RegisterKeeps ==
  ASSUME HookInv, NEW name \in HookNames, NEW h \in Handlers, Register(name, h)
  PROVE  HookInv'
<1> DEFINE s == hooks[name]
           t == Append(s, h)
<1>1. /\ hooks \in [HookNames -> Seq(Handlers)] /\ OneEach /\ HookTypes
      /\ hooks' = [hooks EXCEPT ![name] = t] /\ h \notin ToSet(s)
      /\ stage' = stage /\ loop' = loop /\ marks' = marks /\ stage \notin HookNames
  BY DEF HookInv, HookTypes, Register, Registered
<1>2. s \in Seq(Handlers) /\ IsInjective(s)
  BY <1>1 DEF OneEach
<1>3. t \in Seq(Handlers) /\ IsInjective(t)
  <2> DEFINE edit == <<"register", h>>
  <2>1. edit \in HookEdits /\ edit[1] = "register" /\ edit[2] = h
    BY DEF HookEdits
  <2>2. Edited(s, edit) = t
    BY DEF Edited
  <2> HIDE DEF edit, t, s
  <2> QED
    BY <1>1, <1>2, <2>1, <2>2, EditedFacts DEF s
<1> HIDE DEF t
<1>4. \A other \in HookNames : hooks'[other] = IF other = name THEN t ELSE hooks[other]
  BY <1>1
<1>5. OneEach'
  BY <1>1, <1>3, <1>4 DEF OneEach
<1>6. HookTypes'
  BY <1>1, <1>3 DEF HookTypes
<1> QED
  BY <1>1, <1>5, <1>6 DEF HookInv

-----------------------------------------------------------------------------
(* The hooks of one instance *)

LEMMA HookInitially ==
  HookInit => HookInv
<1>1. "building" \notin HookNames
  BY DEF HookNames, BeforeHooks
<1> QED
  BY <1>1, EmptyLoop DEF HookInit, HookInv, HookTypes, OneEach, IsInjective

LEMMA HookStep ==
  HookInv /\ [HookNext]_hookVars => HookInv'
<1> SUFFICES ASSUME HookInv, [HookNext]_hookVars
             PROVE  HookInv'
  OBVIOUS
<1>1. /\ marks \in Seq(Handlers) /\ <<>> \in Seq(Handlers)
      /\ {"select:before", "query:before", "query:after", "result:transform"} \subseteq HookNames
  BY DEF HookInv, HookTypes, HookNames, BeforeHooks
<1>2. ASSUME NEW name \in HookNames, NEW h \in Handlers, Register(name, h)
      PROVE  HookInv'
  BY <1>2, RegisterKeeps
<1>3. ASSUME NEW edit \in HookEdits, NEW speaks \in BOOLEAN, CallHandler(edit, speaks)
      PROVE  HookInv'
  BY <1>3, CallKeeps
<1>4. CASE FirstHook
  BY <1>1, <1>4, StartKeeps DEF FirstHook
<1>5. CASE HookAfter("select:before", "query:before")
  BY <1>1, <1>5, StartKeeps, OutcomeType DEF HookAfter
<1>6. CASE HookAfter("query:before", "query:after")
  BY <1>1, <1>6, StartKeeps, OutcomeType DEF HookAfter
<1>7. CASE LastHook
  BY <1>1, <1>7, IdleKeeps, OutcomeType DEF LastHook
<1>8. CASE TransformHook
  BY <1>1, <1>8, StartKeeps DEF TransformHook
<1>9. CASE TransformDone
  BY <1>1, <1>9, IdleKeeps DEF TransformDone
<1>10. CASE UNCHANGED hookVars
  BY <1>10 DEF hookVars, HookInv, HookTypes, OneEach, LiveArray, RanPrefix, StillThere, Ordered, Composed,
               Given, Chains
<1> QED
  BY <1>2, <1>3, <1>4, <1>5, <1>6, <1>7, <1>8, <1>9, <1>10 DEF HookNext

\* What the invariant says of a loop that is over.
LEMMA LoopEndedFacts ==
  HookInv => HandlersCompose
<1> SUFFICES ASSUME HookInv, LoopEnded
             PROVE  HandlersCompose
  BY DEF HandlersCompose
<1> DEFINE begun == Given(stage, marks)
           said == loop.spoke
<1>1. /\ stage \in HookNames /\ loop \in Loops /\ marks \in Seq(Handlers) /\ loop.at > Len(loop.array)
      /\ RanPrefix /\ StillThere /\ Ordered /\ Composed
  BY DEF HookInv, HookTypes, LoopEnded
<1>2. /\ loop.array \in Seq(Handlers) /\ loop.ran \in Seq(Handlers) /\ said \in Seq(Handlers)
      /\ loop.at \in Nat \ {0} /\ begun \in Seq(Handlers) /\ loop.due \in Seq(Handlers)
  BY <1>1 DEF Loops, Given
<1>3. ~SkippedBySplice => ToSet(loop.due) \ loop.dropped \subseteq ToSet(loop.ran)
  <2> SUFFICES ASSUME ~loop.spliced
               PROVE  ToSet(loop.array) \subseteq ToSet(loop.ran)
    BY <1>1 DEF SkippedBySplice, StillThere
  <2>1. Len(loop.ran) = loop.at - 1 /\ Len(loop.ran) <= Len(loop.array)
    BY <1>1 DEF RanPrefix
  <2>2. DOMAIN loop.ran = DOMAIN loop.array
    BY <1>1, <1>2, <2>1
  <2>3. \A i \in DOMAIN loop.ran : loop.ran[i] = loop.array[i]
    BY <1>1 DEF RanPrefix
  <2> QED
    BY <2>2, <2>3 DEF ToSet
<1>4. ASSUME ~ExtendedWhileRunning
      PROVE  IsInjective(loop.ran) /\ InOrder(loop.ran, loop.due)
  <2>1. /\ IsInjective(loop.due) /\ ToSet(loop.ran) \subseteq ToSet(loop.due)
        /\ \A i, j \in DOMAIN loop.ran : i < j => Before(loop.ran[i], loop.ran[j], loop.due)
    BY <1>1, <1>4 DEF Ordered, ExtendedWhileRunning
  <2>2. InOrder(loop.ran, loop.due)
    BY <2>1 DEF InOrder, Before
  <2>3. \A i, j \in DOMAIN loop.ran : i < j => loop.ran[i] # loop.ran[j]
    <3> SUFFICES ASSUME NEW i \in DOMAIN loop.ran, NEW j \in DOMAIN loop.ran, i < j
                 PROVE  loop.ran[i] # loop.ran[j]
      OBVIOUS
    <3>1. PICK a, b \in DOMAIN loop.due :
               a < b /\ loop.due[a] = loop.ran[i] /\ loop.due[b] = loop.ran[j]
      BY <2>1 DEF Before
    <3>2. a # b
      BY <1>2, <3>1
    <3> QED
      BY <2>1, <3>1, <3>2 DEF IsInjective
  <2>4. \A i, j \in DOMAIN loop.ran : i # j => i < j \/ j < i
    BY <1>2
  <2>5. IsInjective(loop.ran)
    BY <2>3, <2>4 DEF IsInjective
  <2> QED
    BY <2>2, <2>5
<1>5. Outcome(begun) = begun \o (IF stage \in BeforeHooks \/ said = <<>> THEN said
                                 ELSE <<said[Len(said)]>>)
  <2>1. loop.result = IF said = <<>> THEN <<>>
                      ELSE IF Chains(stage) THEN <<begun \o said>> ELSE <<Append(begun, said[Len(said)])>>
    BY <1>1 DEF Composed
  <2>2. Chains(stage) = (stage \in BeforeHooks)
    BY DEF Chains
  <2>3. begun \o <<>> = begun
    BY <1>2, ConcatEmptySeq
  <2> HIDE DEF begun
  <2>4. CASE said = <<>>
    BY <2>1, <2>3, <2>4 DEF Outcome
  <2>5. CASE said # <<>>
    <3>1. said[Len(said)] \in Handlers
      BY <1>2, <2>5
    <3>2. Append(begun, said[Len(said)]) = begun \o <<said[Len(said)]>>
      BY <1>2, <3>1, AppendIsConcat
    <3>3. CASE Chains(stage)
      <4>1. loop.result = <<begun \o said>>
        BY <2>1, <2>5, <3>3
      <4>2. loop.result # <<>> /\ loop.result[1] = begun \o said
        BY <4>1
      <4>3. Outcome(begun) = begun \o said
        BY <4>2 DEF Outcome
      <4> QED
        BY <2>2, <3>3, <4>3
    <3>4. CASE ~Chains(stage)
      <4>1. loop.result = <<Append(begun, said[Len(said)])>>
        BY <2>1, <2>5, <3>4
      <4>2. loop.result # <<>> /\ loop.result[1] = Append(begun, said[Len(said)])
        BY <4>1
      <4>3. Outcome(begun) = Append(begun, said[Len(said)])
        BY <4>2 DEF Outcome
      <4> QED
        BY <2>2, <2>5, <3>2, <3>4, <4>3
    <3> QED
      BY <3>3, <3>4
  <2> QED
    BY <2>4, <2>5
<1> QED
  BY <1>3, <1>4, <1>5 DEF HandlersCompose

\* HandlersAreComposed: whenever callHook() is done with a hook, each handler
\* registered when it began that nobody took out since has been called, no
\* handler twice and in the order of registration, and the query carries what
\* each of them returned - for any number of handlers that remove one another,
\* register one another or drop the whole hook while the loop runs (the two
\* cases in which handlers are skipped or added are named in the property).
THEOREM HandlersAreComposed ==
  HookSpec => []HandlersCompose
<1>1. HookInv /\ [HookNext]_hookVars => HookInv'
  BY HookStep
<1>2. HookInv => HandlersCompose
  BY LoopEndedFacts
<1> QED
  BY <1>1, <1>2, HookInitially, PTL DEF HookSpec

=============================================================================
