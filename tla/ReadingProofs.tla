---------------------------- MODULE ReadingProofs ----------------------------
(***************************************************************************)
(* Proofs about Reading, for any subjects: the numbers of the byte stream  *)
(* and the reader tasks take of every text what their reference            *)
(* definitions say.                                                        *)
(***************************************************************************)
EXTENDS Reading, Induction, SequenceTheorems

-----------------------------------------------------------------------------
(* streamCollect, one element after the other. *)

Start(at, criteria, task) ==
  [at |-> at, task |-> task, criteria |-> criteria, status |-> "reading"]

(* g[k] is what the call has come to after k elements.                     *)
CollectRun(g, text, at, criteria, task, links, sink) ==
  /\ g[0] = Start(at, criteria, task)
  /\ \A k \in 1..(Len(text) - at + 1) :
        g[k] = CollectNext(g[k - 1], Ahead(text, at)[k], text, links, sink)

(* The elements of a call are those of the text, and the end. *)
LEMMA AheadElements ==
  ASSUME NEW C, NEW text \in Seq(C), NEW at \in 0..Len(text)
  PROVE  /\ Ahead(text, at) \in Seq(C \cup {EndOfText})
         /\ Len(Ahead(text, at)) = Len(text) - at + 1
         /\ \A k \in 1..(Len(text) - at) : Ahead(text, at)[k] = text[at + k]
         /\ Ahead(text, at)[Len(text) - at + 1] = EndOfText
<1>. DEFINE s == SubSeq(text, at + 1, Len(text))
            E == C \cup {EndOfText}
<1>1. text \in Seq(E) /\ EndOfText \in E
  OBVIOUS
<1>. HIDE DEF E
<1>2. s \in Seq(E) /\ Len(s) = Len(text) - at
  BY <1>1
<1>3. \A k \in 1..(Len(text) - at) : s[k] = text[at + k]
  BY <1>1
<1>. HIDE DEF s
<1>4. Ahead(text, at) = Append(s, EndOfText)
  BY DEF Ahead, s
<1>. QED
  BY <1>1, <1>2, <1>3, <1>4 DEF E

(* A call runs through its elements. *)
LEMMA CollectRuns ==
  ASSUME NEW C, NEW text \in Seq(C), NEW at \in 0..Len(text),
         NEW criteria, NEW task, NEW links, NEW sink
  PROVE  \E g : /\ CollectRun(g, text, at, criteria, task, links, sink)
                /\ Collect(text, at, criteria, task, links, sink)
                      = g[Len(text) - at + 1]
<1>. DEFINE n == Len(text) - at + 1
            s == Ahead(text, at)
            b == Start(at, criteria, task)
            S(u, c) == CollectNext(u, c, text, links, sink)
            Body(f, k) == [t \in SUBSET (1..k) |->
                             IF t = {} THEN b ELSE S(f[t \ {Max(t)}], s[Max(t)])]
            T == {k \in Nat : \E it : it = Body(it, k)}
<1>1. n \in Nat /\ DOMAIN s = 1..n
  <2>1. s \in Seq(C \cup {EndOfText}) /\ Len(s) = n
    BY AheadElements
  <2>2. n \in Nat
    OBVIOUS
  <2>. HIDE DEF n, s
  <2>. QED
    BY <2>1, <2>2
<1>2. Collect(text, at, criteria, task, links, sink)
        = (CHOOSE it : it = [t \in SUBSET DOMAIN s |->
                               IF t = {} THEN b ELSE S(it[t \ {Max(t)}], s[Max(t)])])[DOMAIN s]
  BY DEF Collect, FoldLeft, MapThenFoldSet, Start
<1>. HIDE DEF n, s, b, S
<1>3. 0 \in T
  <2>. DEFINE it == [t \in SUBSET (1..0) |-> b]
  <2>1. it = Body(it, 0)
    OBVIOUS
  <2>. QED
    BY <2>1
<1>4. ASSUME NEW k \in T PROVE k + 1 \in T
  <2>1. PICK it : it = Body(it, k)
    OBVIOUS
  <2>. DEFINE more == [t \in SUBSET (1..(k + 1)) |->
                         IF k + 1 \in t THEN S(it[t \ {k + 1}], s[k + 1]) ELSE it[t]]
  <2>2. ASSUME NEW t \in SUBSET (1..(k + 1))
        PROVE  more[t] = IF t = {} THEN b ELSE S(more[t \ {Max(t)}], s[Max(t)])
    <3>1. CASE k + 1 \in t
      <4>1. Max(t) = k + 1
        <5>1. Max(t) \in t /\ \A x \in t : x <= Max(t)
          <6>1. k + 1 \in Nat /\ t # {}
            BY <3>1
          <6>. QED
            BY <6>1, MaxIsIn
        <5>2. Max(t) \in 1..(k + 1) /\ k + 1 <= Max(t)
          BY <3>1, <5>1
        <5>. QED
          BY <5>2
      <4>2. t \ {k + 1} \in SUBSET (1..k) /\ t \ {k + 1} \in SUBSET (1..(k + 1))
            /\ k + 1 \notin t \ {k + 1}
        OBVIOUS
      <4>3. more[t \ {k + 1}] = it[t \ {k + 1}]
        BY <4>2
      <4>4. more[t] = S(it[t \ {k + 1}], s[k + 1])
        BY <3>1
      <4>. HIDE DEF more
      <4>. QED
        BY <3>1, <4>1, <4>3, <4>4
    <3>2. CASE k + 1 \notin t
      <4>1. t \in SUBSET (1..k)
        BY <3>2
      <4>2. more[t] = it[t] /\ it[t] = Body(it, k)[t]
        BY <2>1, <3>2
      <4>3. ASSUME t # {} PROVE more[t \ {Max(t)}] = it[t \ {Max(t)}]
        BY <3>2
      <4>. HIDE DEF more
      <4>. QED
        BY <4>1, <4>2, <4>3
    <3>. QED
      BY <3>1, <3>2
  <2>3. more = Body(more, k + 1)
    <3>1. more = [t \in SUBSET (1..(k + 1)) |-> more[t]]
      OBVIOUS
    <3>. HIDE DEF more
    <3>. QED
      BY <2>2, <3>1
  <2>. HIDE DEF more, Body
  <2>. QED
    BY <2>3
<1>5. n \in T
  <2>1. T \in SUBSET Nat
    OBVIOUS
  <2>. HIDE DEF T
  <2>. QED
    BY <1>1, <1>3, <1>4, <2>1, SetInduction
<1>6. PICK f : /\ f = Body(f, n)
               /\ Collect(text, at, criteria, task, links, sink) = f[1..n]
  <2>1. \E it : it = Body(it, n)
    BY <1>5
  <2>. QED
    BY <1>1, <1>2, <2>1
<1>7. f[1..0] = b
  <2>1. 1..0 = {}
    OBVIOUS
  <2>. QED
    BY <1>6, <2>1
<1>8. ASSUME NEW k \in 1..n PROVE f[1..k] = S(f[1..(k - 1)], s[k])
  <2>1. /\ 1..k \in SUBSET (1..n) /\ 1..k # {}
        /\ Max(1..k) = k /\ (1..k) \ {k} = 1..(k - 1)
    BY <1>1, UptoOneMore
  <2>2. f[1..k] = Body(f, n)[1..k]
    BY <1>6
  <2>. QED
    BY <2>1, <2>2
<1>. DEFINE g == [k \in 0..n |-> f[1..k]]
<1>. HIDE DEF Body
<1>9. g[0] = b /\ Collect(text, at, criteria, task, links, sink) = g[n]
  BY <1>1, <1>6, <1>7
<1>10. \A k \in 1..n : g[k] = S(g[k - 1], s[k])
  BY <1>1, <1>8
<1>. HIDE DEF g
<1>. QED
  BY <1>9, <1>10 DEF n, s, b, S, CollectRun

(* A call that has ended stays as it ended. *)
LEMMA CallIsOver ==
  ASSUME NEW C, NEW text \in Seq(C), NEW at \in 0..Len(text),
         NEW criteria, NEW task, NEW links, NEW sink, NEW g,
         CollectRun(g, text, at, criteria, task, links, sink),
         NEW k \in 0..(Len(text) - at + 1), g[k].status # "reading"
  PROVE  g[Len(text) - at + 1] = g[k]
<1>. DEFINE last == Len(text) - at + 1
            U == {d \in Nat : k + d <= last => g[k + d] = g[k]}
<1>1. last \in Nat /\ k \in 0..last
  OBVIOUS
<1>2. \A j \in 1..last : g[j] = CollectNext(g[j - 1], Ahead(text, at)[j], text, links, sink)
  BY DEF CollectRun
<1>. HIDE DEF last
<1>3. 0 \in U
  BY <1>1
<1>4. ASSUME NEW d \in U PROVE d + 1 \in U
  <2>. SUFFICES ASSUME k + (d + 1) <= last PROVE g[k + (d + 1)] = g[k]
    OBVIOUS
  <2>1. k + (d + 1) \in 1..last /\ (k + (d + 1)) - 1 = k + d /\ k + d <= last
    BY <1>1
  <2>2. g[k + d] = g[k]
    BY <2>1
  <2>3. g[k + (d + 1)] = CollectNext(g[k], Ahead(text, at)[k + (d + 1)], text, links, sink)
    BY <1>2, <2>1, <2>2
  <2>. QED
    BY <2>3 DEF CollectNext, CollectChecked
<1>5. U = Nat
  <2>1. U \in SUBSET Nat
    OBVIOUS
  <2>. HIDE DEF U
  <2>. QED
    BY <1>3, <1>4, <2>1, SetInduction
<1>6. last - k \in Nat /\ k + (last - k) = last
  BY <1>1
<1>7. g[last] = g[k]
  <2>1. last - k \in U
    BY <1>5, <1>6
  <2>2. g[k + (last - k)] = g[k]
    BY <1>1, <1>6, <2>1
  <2>. QED
    BY <1>6, <2>2
<1>. QED
  BY <1>7 DEF last

-----------------------------------------------------------------------------
(* The states of a call. *)

Names == {"until", "size", "digits"}
States == {"good", "at_last", "not_good"}
Statuses == {"reading", "threw", "returned"}

Tasks(C) ==
  [out : Seq(C), failed : BOOLEAN, bailed : BOOLEAN, i : Nat, r_trim : Seq(C),
   l_trimming : BOOLEAN, r_trimming : BOOLEAN, right_of_token : Seq(C),
   read_until : Seq(C)]
Modes(C) ==
  [mode : Names, until : SUBSET C, inclusive : BOOLEAN, left : Int, state : States]
Calls(C) == [at : Int, task : Tasks(C), criteria : Modes(C), status : Statuses]

(* What an element makes of a call s, once the task has taken it.          *)
TakenAs(r, s, text, criteria, task) ==
  /\ r.at = s.at + 1 /\ r.task = task
  /\ r.criteria.mode = criteria.mode /\ r.criteria.until = criteria.until
  /\ r.criteria.inclusive = criteria.inclusive /\ r.criteria.left = criteria.left
  /\ task.bailed => r.criteria.state = "not_good"
  /\ ~task.bailed => r.criteria.state = criteria.state
  /\ task.failed => r.status = "threw"
  /\ ~task.failed /\ s.at + 1 = Len(text) /\ r.criteria.state = "at_last"
        => r.status = "returned"
  /\ ~task.failed /\ r.criteria.state # "at_last" => r.status = "reading"
  /\ ~task.failed /\ s.at + 1 # Len(text) => r.status = "reading"

(* That is what Collected does. *)
LEMMA CollectedIs ==
  ASSUME NEW C, NEW s \in Calls(C), NEW text, NEW criteria \in Modes(C),
         NEW task \in Tasks(C),
         NEW r, r = Collected(s, text, criteria, task)
  PROVE  r \in Calls(C) /\ TakenAs(r, s, text, criteria, task)
<1>. DEFINE state == IF task.bailed THEN "not_good" ELSE criteria.state
            mode == [criteria EXCEPT !.state = state]
            status == IF task.failed THEN "threw"
                      ELSE IF s.at + 1 = Len(text) /\ state = "at_last" THEN "returned"
                      ELSE "reading"
<1>1. state \in States
  <2>1. criteria.state \in States
    BY DEF Modes
  <2>2. "not_good" \in States
    BY DEF States
  <2>. QED
    BY <2>1, <2>2
<1>2. status \in Statuses
  BY DEF Statuses
<1>3. r = [at |-> s.at + 1, task |-> task, criteria |-> mode, status |-> status]
  BY DEF Collected
<1>4. /\ task.bailed => state = "not_good"
      /\ ~task.bailed => state = criteria.state
  OBVIOUS
<1>. HIDE DEF state
<1>5. /\ task.failed => status = "threw"
      /\ ~task.failed /\ s.at + 1 = Len(text) /\ state = "at_last" => status = "returned"
      /\ ~task.failed /\ state # "at_last" => status = "reading"
      /\ ~task.failed /\ s.at + 1 # Len(text) => status = "reading"
  OBVIOUS
<1>. HIDE DEF status
<1>6. /\ mode \in Modes(C) /\ mode.state = state /\ mode.mode = criteria.mode
      /\ mode.until = criteria.until /\ mode.inclusive = criteria.inclusive
      /\ mode.left = criteria.left
  BY <1>1 DEF Modes
<1>. HIDE DEF mode
<1>7. s.at + 1 \in Int
  BY DEF Calls
<1>8. r \in Calls(C)
  BY <1>2, <1>3, <1>6, <1>7 DEF Calls
<1>9. r.status = status /\ r.criteria = mode /\ r.at = s.at + 1 /\ r.task = task
  BY <1>3
<1>. QED
  BY <1>4, <1>5, <1>6, <1>8, <1>9 DEF TakenAs

-----------------------------------------------------------------------------
(* A task without filters. *)

(* Without filters, the sink gets what is read. *)
LEMMA NoFilters ==
  ASSUME NEW task, NEW c, NEW state, NEW sink
  PROVE  perform(task, c, state, <<>>, sink)
           = Filtering(task, [c |-> c, verdict |-> "pass", i |-> task.i], state, sink)
<1>. DEFINE b == [c |-> c, verdict |-> "pass", i |-> task.i]
            Body(f) == [t \in SUBSET DOMAIN <<>> |->
                          IF t = {} THEN b ELSE Pass(<<>>[Max(t)], f[t \ {Max(t)}])]
            fold == FoldLeft(LAMBDA acc, link : Pass(link, acc), b, <<>>)
            it == [t \in SUBSET {} |-> b]
<1>1. fold = (CHOOSE f : f = Body(f))[DOMAIN <<>>]
  BY DEF FoldLeft, MapThenFoldSet
<1>2. DOMAIN <<>> = {}
  OBVIOUS
<1>3. it = Body(it)
  BY <1>2
<1>4. fold = b
  <2>1. PICK f : f = Body(f) /\ fold = f[DOMAIN <<>>]
    BY <1>1, <1>3
  <2>. QED
    BY <1>2, <2>1
<1>. HIDE DEF fold, b
<1>. QED
  BY <1>4 DEF perform, fold, b

(* The collector takes it. *)
LEMMA PlainTakes ==
  ASSUME NEW C, NEW task \in Tasks(C), NEW c \in C, NEW state
  PROVE  /\ perform(task, c, state, <<>>, "collect") \in Tasks(C)
         /\ perform(task, c, state, <<>>, "collect").out = Append(task.out, c)
         /\ perform(task, c, state, <<>>, "collect").failed = task.failed
         /\ ~perform(task, c, state, <<>>, "collect").bailed
<1>. DEFINE t == perform(task, c, state, <<>>, "collect")
            p == [c |-> c, verdict |-> "pass", i |-> task.i]
            u == [task EXCEPT !.i = p.i, !.bailed = p.verdict = "bail"]
            out == Append(task.out, c)
<1>1. p.c = c /\ p.verdict = "pass" /\ p.i = task.i
  OBVIOUS
<1>. HIDE DEF p
<1>2. u \in Tasks(C) /\ u.out = task.out /\ u.failed = task.failed /\ ~u.bailed
  BY <1>1 DEF Tasks
<1>. HIDE DEF u
<1>3. t = Sunk(u, p, state, "collect")
  <2>1. perform(task, c, state, <<>>, "collect") = Filtering(task, p, state, "collect")
    BY NoFilters DEF p
  <2>2. Filtering(task, p, state, "collect") = Sunk(u, p, state, "collect")
    BY DEF u, Filtering
  <2>. QED
    BY <2>1, <2>2
<1>4. t = [u EXCEPT !.out = out]
  <2>1. t = CollectorTakes(u, c)
    BY <1>1, <1>3 DEF Sunk
  <2>. QED
    BY <1>2, <2>1 DEF CollectorTakes, Tasks
<1>5. out \in Seq(C)
  BY DEF Tasks
<1>. HIDE DEF out, t
<1>6. t \in Tasks(C) /\ t.out = out /\ t.failed = task.failed /\ ~t.bailed
  BY <1>2, <1>4, <1>5 DEF Tasks
<1>. QED
  BY <1>6 DEF out, t

(* A new task is a task. *)
LEMMA NewTaskType ==
  ASSUME NEW C
  PROVE  NewTask \in Tasks(C) /\ Initialized(NewTask) = NewTask
         /\ [NewTask EXCEPT !.failed = FALSE] = NewTask
<1>1. NewTask \in Tasks(C)
  <2>1. <<>> \in Seq(C)
    OBVIOUS
  <2>. QED
    BY <2>1 DEF NewTask, Tasks
<1>2. NewTask.r_trim = <<>> /\ NewTask.i = 0 /\ NewTask.failed = FALSE
  BY DEF NewTask
<1>. QED
  BY <1>1, <1>2 DEF Initialized, Tasks

-----------------------------------------------------------------------------
(* The digits of a text. *)

(* The n elements of text from i on are digits, and no more.               *)
DigitRun(text, i, n) ==
  /\ n \in 0..(Len(text) + 1 - i)
  /\ \A k \in i..(i + n - 1) : isDigit(text[k])
  /\ i + n <= Len(text) => ~isDigit(text[i + n])

(* DigitsFrom takes that run. *)
LEMMA DigitsFromRun ==
  ASSUME NEW C, NEW text \in Seq(C), NEW i \in 1..(Len(text) + 1)
  PROVE  \E n \in Nat : /\ DigitRun(text, i, n)
                        /\ DigitsFrom(text, i) = SubSeq(text, i, i + n - 1)
                        /\ Len(DigitsFrom(text, i)) = n
<1>. DEFINE m == Len(text)
            I == {k \in i..m : ~isDigit(text[k])}
            end == SelectInSubSeq(text, i, m, LAMBDA c : ~isDigit(c))
            n == IF I = {} THEN m + 1 - i ELSE Min(I) - i
<1>1. end = IF I # {} THEN Min(I) ELSE 0
  BY DEF SelectInSubSeq
<1>2. ASSUME I # {} PROVE Min(I) \in I /\ \A k \in I : Min(I) <= k
  <2>1. I \in SUBSET (1..m) /\ m \in Nat
    OBVIOUS
  <2>. HIDE DEF I, m
  <2>. QED
    BY <1>2, <2>1, MinIsIn
<1>3. n \in Nat /\ n \in 0..(m + 1 - i) /\ i + n - 1 = IF end = 0 THEN m ELSE end - 1
  <2>. HIDE DEF end
  <2>1. CASE I = {}
    BY <1>1, <2>1
  <2>2. CASE I # {}
    BY <1>1, <1>2, <2>2
  <2>. QED
    BY <2>1, <2>2
<1>4. DigitRun(text, i, n)
  <2>1. CASE I = {}
    BY <2>1 DEF DigitRun
  <2>2. CASE I # {}
    <3>. HIDE DEF end
    <3>1. i + n = Min(I)
      BY <1>2, <2>2
    <3>2. ASSUME NEW k \in i..(i + n - 1) PROVE isDigit(text[k])
      <4>1. k \in i..m /\ k < Min(I)
        BY <1>2, <2>2, <3>1
      <4>. QED
        BY <1>2, <2>2, <4>1
    <3>. QED
      BY <1>2, <1>3, <2>2, <3>1, <3>2 DEF DigitRun
  <2>. QED
    BY <2>1, <2>2
<1>5. DigitsFrom(text, i) = SubSeq(text, i, i + n - 1)
  BY <1>3 DEF DigitsFrom
<1>. HIDE DEF n, end
<1>6. Len(SubSeq(text, i, i + n - 1)) = n
  BY <1>3
<1>. QED
  BY <1>3, <1>4, <1>5, <1>6

(* A character is not the end of the text. *)
LEMMA CharacterIs ==
  \A c \in Character : c # EndOfText /\ c # ""
  BY DEF Character

(* The criteria of a call for digits. *)
LEMMA DigitsType ==
  ASSUME NEW C
  PROVE  Digits \in Modes(C) /\ Digits.mode = "digits" /\ Digits.state = "good"
<1>1. "digits" \in Names /\ "good" \in States
  BY DEF Names, States
<1>. QED
  BY <1>1 DEF Digits, Modes

(* What a call for digits goes through: it takes the digits one by one.    *)
DigitsTaken(s, text, at, k) ==
  /\ s \in Calls(Character) /\ s.status = "reading" /\ s.at = at + k
  /\ s.criteria.mode = "digits" /\ s.criteria.state = "good"
  /\ s.task.out = SubSeq(text, at + 1, at + k) /\ ~s.task.failed

(* The criteria after an element: one less is left. *)
Counted(criteria, state) == [criteria EXCEPT !.left = @ - 1, !.state = state]

(* They are criteria. *)
LEMMA NextIs ==
  ASSUME NEW C, NEW criteria \in Modes(C), NEW state \in States,
         NEW next, next = Counted(criteria, state)
  PROVE  /\ next \in Modes(C) /\ next.state = state /\ next.left = criteria.left - 1
         /\ next.mode = criteria.mode /\ next.until = criteria.until
         /\ next.inclusive = criteria.inclusive
<1>1. /\ criteria.mode \in Names /\ criteria.until \in SUBSET C
      /\ criteria.inclusive \in BOOLEAN /\ criteria.left \in Int
      /\ criteria.left - 1 \in Int
  BY DEF Modes
<1>2. next = [mode |-> criteria.mode, until |-> criteria.until,
              inclusive |-> criteria.inclusive, left |-> criteria.left - 1,
              state |-> state]
  BY <1>1 DEF Counted, Modes
<1>. QED
  BY <1>1, <1>2 DEF Modes

(* The next element is taken or not. *)
LEMMA DigitsNext ==
  ASSUME NEW C, NEW criteria \in Modes(C), criteria.mode = "digits", NEW c,
         NEW next, next = NextCriteria(criteria, c)
  PROVE  /\ next \in Modes(C) /\ next.mode = "digits"
         /\ next.state = IF isDigit(c) THEN "good" ELSE "not_good"
<1>. DEFINE state == IF isDigit(c) THEN "good" ELSE "not_good"
<1>1. state \in States
  BY DEF States
<1>2. next = Counted(criteria, state)
  BY DEF NextCriteria, Counted
<1>. HIDE DEF state
<1>3. next \in Modes(C) /\ next.mode = "digits" /\ next.state = state
  BY <1>1, <1>2, NextIs
<1>. QED
  BY <1>3 DEF state

(* One more character c is collected.                                      *)
MoreBy(r, s, c, next) ==
  /\ r.at = s.at + 1 /\ r.task.out = Append(s.task.out, c) /\ ~r.task.failed
  /\ r.criteria.state = "good" /\ r.criteria.mode = next.mode /\ r.status = "reading"

(* It is, when nothing ends the call. *)
LEMMA OneMore ==
  ASSUME NEW C, NEW s \in Calls(C), NEW text, NEW c \in C, NEW next \in Modes(C),
         ~s.task.failed, next.state = "good",
         NEW t, t = perform(s.task, c, next.state, <<>>, "collect"),
         NEW r, r = Collected(s, text, next, t)
  PROVE  r \in Calls(C) /\ MoreBy(r, s, c, next)
<1>1. s.task \in Tasks(C)
  BY DEF Calls
<1>2. /\ t \in Tasks(C) /\ t.out = Append(s.task.out, c)
      /\ t.failed = s.task.failed /\ ~t.bailed
  BY <1>1, PlainTakes
<1>3. /\ r \in Calls(C) /\ r.at = s.at + 1 /\ r.task = t
      /\ r.criteria.state = "good" /\ r.criteria.mode = next.mode /\ r.status = "reading"
  <2>1. r \in Calls(C) /\ TakenAs(r, s, text, next, t)
    BY <1>2, CollectedIs
  <2>. QED
    BY <1>2, <2>1 DEF TakenAs
<1>. QED
  BY <1>2, <1>3 DEF MoreBy

(* One digit more. *)
LEMMA OneDigitMore ==
  ASSUME NEW text \in Seq(Character), NEW at \in Nat, NEW k \in Nat,
         NEW s, DigitsTaken(s, text, at, k), at + (k + 1) <= Len(text),
         NEW c \in Character, c = text[at + (k + 1)], isDigit(c),
         NEW r, r = CollectNext(s, c, text, <<>>, "collect")
  PROVE  DigitsTaken(r, text, at, k + 1)
<1>1. c # EndOfText
  BY CharacterIs
<1>2. s.criteria \in Modes(Character) /\ s \in Calls(Character) /\ ~s.task.failed
  BY DEF DigitsTaken, Calls
<1>3. PICK next : next = NextCriteria(s.criteria, c)
  OBVIOUS
<1>4. next \in Modes(Character) /\ next.mode = "digits" /\ next.state = "good"
  BY <1>2, <1>3, DigitsNext DEF DigitsTaken
<1>5. PICK t : t = perform(s.task, c, next.state, <<>>, "collect")
  OBVIOUS
<1>6. r = Collected(s, text, next, t)
  BY <1>1, <1>3, <1>4, <1>5 DEF CollectNext, CollectChecked, DigitsTaken
<1>7. /\ r \in Calls(Character) /\ r.at = s.at + 1
      /\ r.task.out = Append(s.task.out, c) /\ ~r.task.failed
      /\ r.criteria.state = "good" /\ r.criteria.mode = "digits" /\ r.status = "reading"
  <2>1. r \in Calls(Character) /\ MoreBy(r, s, c, next)
    BY <1>2, <1>4, <1>5, <1>6, OneMore
  <2>. QED
    BY <1>4, <2>1 DEF MoreBy
<1>8. SubSeq(text, at + 1, at + (k + 1)) = Append(SubSeq(text, at + 1, at + k), c)
  OBVIOUS
<1>9. s.at = at + k /\ s.task.out = SubSeq(text, at + 1, at + k)
  BY DEF DigitsTaken
<1>10. r.at = at + (k + 1)
  BY <1>7, <1>9
<1>. QED
  BY <1>7, <1>8, <1>9, <1>10 DEF DigitsTaken

(* Behind the digits, the call ends. *)
LEMMA DigitsEnd ==
  ASSUME NEW text \in Seq(Character), NEW at \in Nat, NEW k \in Nat,
         NEW s, DigitsTaken(s, text, at, k),
         NEW c, c = EndOfText \/ ~isDigit(c),
         NEW r, r = CollectNext(s, c, text, <<>>, "collect")
  PROVE  /\ r.at = at + k /\ r.task = s.task
         /\ r.status = IF c = EndOfText THEN "threw" ELSE "returned"
<1>1. s.criteria \in Modes(Character) /\ s \in Calls(Character)
  BY DEF DigitsTaken, Calls
<1>2. CASE c = EndOfText
  <2>1. r = [s EXCEPT !.status = "threw"]
    BY <1>2 DEF CollectNext, CollectChecked, DigitsTaken
  <2>. QED
    BY <1>1, <1>2, <2>1 DEF DigitsTaken, Calls
<1>3. CASE c # EndOfText
  <2>1. NextCriteria(s.criteria, c).state = "not_good"
    BY <1>1, <1>3, DigitsNext DEF DigitsTaken
  <2>2. r = [s EXCEPT !.status = "returned"]
    BY <1>3, <2>1 DEF CollectNext, CollectChecked, DigitsTaken
  <2>. QED
    BY <1>1, <1>3, <2>2 DEF DigitsTaken, Calls
<1>. QED
  BY <1>2, <1>3

(* What a call returns. *)
LEMMA FlushedIs ==
  ASSUME NEW call, NEW task, NEW read, read = Flushed(call, task)
  PROVE  /\ read.ok <=> call.status = "returned" /\ ~task.failed
         /\ read.at = call.at /\ read.out = task.out
<1>1. read.at = call.at /\ read.out = task.out
  BY DEF Flushed
<1>2. read.ok <=> call.status = "returned" /\ ~task.failed
  BY DEF Flushed
<1>. QED
  BY <1>1, <1>2

(* A call for digits takes the digits, and throws if nothing is behind.    *)
LEMMA DigitsAreRead ==
  ASSUME NEW text \in Seq(Character), NEW at \in 0..Len(text), NEW n,
         DigitRun(text, at + 1, n),
         NEW read, read = Plain(text, at, Digits)
  PROVE  /\ read.ok <=> at + n < Len(text)
         /\ read.ok => read.at = at + n /\ read.out = SubSeq(text, at + 1, at + n)
<1>. DEFINE m == Len(text)
            last == m - at + 1
            ahead == Ahead(text, at)
<1>0. /\ m \in Nat /\ n \in 0..(m - at) /\ n \in Nat /\ last \in Nat \ {0} /\ at \in Nat
      /\ \A k \in 1..n : isDigit(text[at + k])
      /\ n < m - at => ~isDigit(text[at + (n + 1)])
  <2>1. m \in Nat /\ n \in 0..(m - at) /\ last \in Nat \ {0} /\ at \in Nat /\ n \in Nat
    BY DEF DigitRun
  <2>2. \A k \in 1..n : at + k \in (at + 1)..(at + 1 + n - 1)
    BY <2>1
  <2>3. at + (n + 1) = at + 1 + n
    BY <2>1
  <2>. QED
    BY <2>1, <2>2, <2>3 DEF DigitRun
<1>1. PICK g : /\ CollectRun(g, text, at, Digits, NewTask, <<>>, "collect")
               /\ Collect(text, at, Digits, NewTask, <<>>, "collect") = g[last]
  BY CollectRuns
<1>2. /\ \A k \in 1..(m - at) : ahead[k] = text[at + k]
      /\ ahead[last] = EndOfText
  BY AheadElements
<1>. HIDE DEF ahead, last
<1>3. \A k \in 1..last : g[k] = CollectNext(g[k - 1], ahead[k], text, <<>>, "collect")
  BY <1>1 DEF CollectRun, ahead, last
<1>. DEFINE Taken == {k \in Nat : k <= n => DigitsTaken(g[k], text, at, k)}
<1>4. 0 \in Taken
  <2>1. g[0] = Start(at, Digits, NewTask)
    BY <1>1 DEF CollectRun
  <2>2. SubSeq(text, at + 1, at + 0) = <<>>
    BY <1>0
  <2>3. Digits \in Modes(Character) /\ Digits.mode = "digits" /\ Digits.state = "good"
    BY DigitsType
  <2>4. NewTask \in Tasks(Character) /\ NewTask.out = <<>> /\ ~NewTask.failed
    BY NewTaskType DEF NewTask
  <2>5. DigitsTaken(g[0], text, at, 0)
    <3>1. "reading" \in Statuses /\ at \in Int
      BY <1>0 DEF Statuses
    <3>2. Start(at, Digits, NewTask) \in Calls(Character)
      BY <2>3, <2>4, <3>1 DEF Start, Calls
    <3>3. /\ g[0].status = "reading" /\ g[0].at = at
          /\ g[0].criteria = Digits /\ g[0].task = NewTask
      BY <2>1 DEF Start
    <3>4. at + 0 = at
      BY <1>0
    <3>. QED
      BY <2>1, <2>2, <2>3, <2>4, <3>2, <3>3, <3>4 DEF DigitsTaken
  <2>. QED
    BY <2>5
<1>5. ASSUME NEW k \in Taken PROVE k + 1 \in Taken
  <2>. SUFFICES ASSUME k + 1 <= n PROVE DigitsTaken(g[k + 1], text, at, k + 1)
    OBVIOUS
  <2>1. DigitsTaken(g[k], text, at, k) /\ k \in Nat
    BY <1>0
  <2>2. /\ k + 1 \in 1..(m - at) /\ k + 1 \in 1..n /\ k + 1 \in 1..last /\ k + 1 - 1 = k
        /\ at + (k + 1) <= m
    BY <1>0, <2>1 DEF last
  <2>3. ahead[k + 1] = text[at + (k + 1)] /\ isDigit(ahead[k + 1])
    BY <1>0, <1>2, <2>2
  <2>4. g[k + 1] = CollectNext(g[k], ahead[k + 1], text, <<>>, "collect")
    BY <1>3, <2>2
  <2>. QED
    <3>1. ahead[k + 1] \in Character
      BY <1>0, <2>2, <2>3
    <3>. QED
      BY <1>0, <2>1, <2>2, <2>3, <2>4, <3>1, OneDigitMore
<1>6. DigitsTaken(g[n], text, at, n)
  <2>1. Taken \in SUBSET Nat
    OBVIOUS
  <2>2. Taken = Nat
    <3>. HIDE DEF Taken
    <3>. QED
      BY <1>4, <1>5, <2>1, SetInduction
  <2>. QED
    BY <1>0, <2>2
<1>. HIDE DEF Taken
<1>7. /\ g[n + 1].at = at + n /\ g[n + 1].task = g[n].task
      /\ g[n + 1].status = IF n = m - at THEN "threw" ELSE "returned"
  <2>1. n + 1 \in 1..last /\ (n + 1) - 1 = n
    BY <1>0 DEF last
  <2>2. g[n + 1] = CollectNext(g[n], ahead[n + 1], text, <<>>, "collect")
    BY <1>3, <2>1
  <2>3. CASE n = m - at
    <3>1. ahead[n + 1] = EndOfText
      BY <1>2, <2>3 DEF last
    <3>. QED
      BY <1>0, <1>6, <2>2, <2>3, <3>1, DigitsEnd
  <2>4. CASE n # m - at
    <3>1. n + 1 \in 1..(m - at) /\ at + (n + 1) \in 1..m
      BY <1>0, <2>4
    <3>2. ahead[n + 1] = text[at + (n + 1)] /\ ~isDigit(ahead[n + 1])
      BY <1>0, <1>2, <2>4, <3>1
    <3>3. ahead[n + 1] # EndOfText
      <4>1. text[at + (n + 1)] \in Character
        BY <3>1
      <4>. QED
        BY <3>2, <4>1, CharacterIs
    <3>. QED
      BY <1>0, <1>6, <2>2, <2>4, <3>2, <3>3, DigitsEnd
  <2>. QED
    BY <2>3, <2>4
<1>8. g[last] = g[n + 1]
  <2>1. n + 1 \in 0..(Len(text) - at + 1)
    BY <1>0
  <2>2. g[n + 1].status # "reading"
    BY <1>7
  <2>. QED
    BY <1>1, <2>1, <2>2, CallIsOver DEF last
<1>9. read = Flushed(g[n + 1], g[n + 1].task)
  <2>1. \A t : flush(t, <<>>, "collect") = t
    BY DEF flush
  <2>. QED
    BY <1>1, <1>8, <2>1, NewTaskType DEF Plain, ReadWith, FlushedWith
<1>10. /\ read.ok <=> g[n + 1].status = "returned" /\ ~g[n + 1].task.failed
       /\ read.at = g[n + 1].at /\ read.out = g[n + 1].task.out
  BY <1>9, FlushedIs
<1>11. ~g[n].task.failed /\ g[n].task.out = SubSeq(text, at + 1, at + n)
  BY <1>6 DEF DigitsTaken
<1>12. n = m - at <=> ~(at + n < Len(text))
  BY <1>0
<1>13. read.ok <=> at + n < Len(text)
  BY <1>7, <1>10, <1>11, <1>12
<1>14. read.at = at + n /\ read.out = SubSeq(text, at + 1, at + n)
  BY <1>7, <1>10, <1>11
<1>. QED
  BY <1>13, <1>14

(* A call for digits takes the digits in front of it.                      *)
DigitsTakenBy(read, text, at, digits) ==
  /\ Len(digits) \in Nat /\ at + Len(digits) <= Len(text)
  /\ read.ok <=> at + Len(digits) < Len(text)
  /\ read.ok => read.at = at + Len(digits) /\ read.out = digits

(* That is what it takes. *)
LEMMA PlainDigits ==
  ASSUME NEW text \in Seq(Character), NEW at \in 0..Len(text)
  PROVE  DigitsTakenBy(Plain(text, at, Digits), text, at, DigitsFrom(text, at + 1))
<1>1. at + 1 \in 1..(Len(text) + 1)
  OBVIOUS
<1>2. PICK n \in Nat : /\ DigitRun(text, at + 1, n)
                       /\ DigitsFrom(text, at + 1) = SubSeq(text, at + 1, at + 1 + n - 1)
                       /\ Len(DigitsFrom(text, at + 1)) = n
  BY <1>1, DigitsFromRun
<1>3. PICK read : read = Plain(text, at, Digits)
  OBVIOUS
<1>4. /\ read.ok <=> at + n < Len(text)
      /\ read.ok => read.at = at + n /\ read.out = SubSeq(text, at + 1, at + n)
  BY <1>2, <1>3, DigitsAreRead
<1>5. at + 1 + n - 1 = at + n /\ at + n <= Len(text)
  BY <1>2 DEF DigitRun
<1>6. DigitsFrom(text, at + 1) = SubSeq(text, at + 1, at + n)
  BY <1>2, <1>5
<1>. QED
  BY <1>2, <1>3, <1>4, <1>5, <1>6 DEF DigitsTakenBy

-----------------------------------------------------------------------------
(* The numbers of a text. *)

(* What readNatural returns of a text that starts with digits.             *)
NaturalOf(number, text, digits) ==
  /\ Len(digits) \in Nat /\ Len(digits) <= Len(text)
  /\ number.ok <=> Len(digits) < Len(text) /\ Len(digits) <= NUMBER_MAX_DIGITS
  /\ number.ok => number.value = Number(digits) /\ number.at = Len(digits)

(* It does. *)
LEMMA NaturalIsRead ==
  ASSUME NEW text \in Seq(Character)
  PROVE  NaturalOf(readNatural(text, 0), text, DigitsFrom(text, 1))
<1>1. PICK read, digits, number :
         /\ read = Plain(text, 0, Digits)
         /\ digits = DigitsFrom(text, 1)
         /\ number = readNatural(text, 0)
  OBVIOUS
<1>2. DigitsTakenBy(read, text, 0, digits)
  <2>1. 0 \in 0..Len(text) /\ 0 + 1 = 1
    OBVIOUS
  <2>2. DigitsTakenBy(Plain(text, 0, Digits), text, 0, DigitsFrom(text, 0 + 1))
    BY <2>1, PlainDigits
  <2>. QED
    BY <1>1, <2>1, <2>2
<1>3. /\ Len(digits) \in Nat /\ Len(digits) <= Len(text)
      /\ read.ok <=> Len(digits) < Len(text)
      /\ read.ok => read.at = Len(digits) /\ read.out = digits
  BY <1>2 DEF DigitsTakenBy
<1>4. /\ number.value = Number(read.out) /\ number.at = read.at
      /\ number.ok <=> read.ok /\ Len(read.out) <= NUMBER_MAX_DIGITS
  <2>1. number = AsNumber(read)
    BY <1>1 DEF readNatural
  <2>2. number.value = Number(read.out) /\ number.at = read.at
    BY <2>1 DEF AsNumber
  <2>3. number.ok <=> read.ok /\ Len(read.out) <= NUMBER_MAX_DIGITS
    BY <2>1 DEF AsNumber
  <2>. QED
    BY <2>2, <2>3
<1>5. NaturalOf(number, text, digits)
  BY <1>3, <1>4 DEF NaturalOf
<1>. QED
  BY <1>1, <1>5

(* The digits behind the point of a text that starts with digits.          *)
Pointed(text, digits) ==
  Len(digits) < Len(text) /\ text[Len(digits) + 1] = "."
DecimalsOf(text, digits) ==
  IF Pointed(text, digits) THEN DigitsFrom(text, Len(digits) + 2) ELSE <<>>
DecimalLength(text, digits) ==
  Len(digits) + (IF Pointed(text, digits) THEN 1 + Len(DecimalsOf(text, digits)) ELSE 0)

(* What readDecimal returns of it.                                         *)
DecimalOf(number, text, digits) ==
  /\ number.ok <=> /\ DecimalLength(text, digits) < Len(text)
                   /\ Len(digits) <= NUMBER_MAX_DIGITS
                   /\ Len(DecimalsOf(text, digits)) <= NUMBER_MAX_DIGITS
  /\ number.ok => /\ number.natural = Number(digits)
                  /\ number.decimals = DecimalsOf(text, digits)
                  /\ number.at = DecimalLength(text, digits)

(* The fields of a decimal. *)
LEMMA DecimalFields ==
  ASSUME NEW natural, NEW decimals, NEW at
  PROVE  /\ AsDecimal(natural, decimals, at).ok
               <=> natural.ok /\ Len(decimals) <= NUMBER_MAX_DIGITS
         /\ AsDecimal(natural, decimals, at).at = at
         /\ AsDecimal(natural, decimals, at).natural = natural.value
         /\ AsDecimal(natural, decimals, at).decimals = decimals
<1>1. AsDecimal(natural, decimals, at).ok
         <=> natural.ok /\ Len(decimals) <= NUMBER_MAX_DIGITS
  BY DEF AsDecimal
<1>2. AsDecimal(natural, decimals, at).at = at
  BY DEF AsDecimal
<1>3. /\ AsDecimal(natural, decimals, at).natural = natural.value
      /\ AsDecimal(natural, decimals, at).decimals = decimals
  BY DEF AsDecimal
<1>. QED
  BY <1>1, <1>2, <1>3

(* The fields of a decimal with what is behind the point. *)
LEMMA FractionFields ==
  ASSUME NEW natural, NEW fraction, NEW after,
         NEW number, number = WithFraction(natural, fraction, after)
  PROVE  /\ number.ok <=> /\ natural.ok /\ fraction.ok
                          /\ Len(fraction.out) <= NUMBER_MAX_DIGITS
         /\ number.at = fraction.at + after
         /\ number.natural = natural.value /\ number.decimals = fraction.out
<1>. DEFINE ok == (natural.ok /\ Len(fraction.out) <= NUMBER_MAX_DIGITS) /\ fraction.ok
<1>1. number = [ok |-> ok, at |-> fraction.at + after, natural |-> natural.value,
                digits |-> natural.digits, decimals |-> fraction.out]
  BY DEF WithFraction, AsDecimal
<1>2. number.ok <=> ok
  <2>. HIDE DEF ok
  <2>1. number.ok = ok
    BY <1>1
  <2>. QED
    BY <2>1
<1>3. /\ number.at = fraction.at + after
      /\ number.natural = natural.value /\ number.decimals = fraction.out
  BY <1>1
<1>. QED
  BY <1>2, <1>3

(* A text that starts with a natural that is not one has no decimal. *)
LEMMA DecimalWithoutNatural ==
  ASSUME NEW text \in Seq(Character), NEW natural, NEW digits,
         NaturalOf(natural, text, digits), ~natural.ok,
         NEW number, number = AsDecimal(natural, <<>>, natural.at)
  PROVE  DecimalOf(number, text, digits)
<1>1. ~number.ok
  BY DecimalFields
<1>2. ~(/\ DecimalLength(text, digits) < Len(text)
        /\ Len(digits) <= NUMBER_MAX_DIGITS)
  <2>1. Len(digits) \in Nat /\ Len(digits) <= Len(text)
        /\ ~(Len(digits) < Len(text) /\ Len(digits) <= NUMBER_MAX_DIGITS)
    BY DEF NaturalOf
  <2>2. CASE Len(digits) < Len(text)
    BY <2>1, <2>2
  <2>3. CASE ~(Len(digits) < Len(text))
    <3>1. ~Pointed(text, digits)
      BY <2>3 DEF Pointed
    <3>2. DecimalLength(text, digits) = Len(digits)
      BY <2>1, <3>1 DEF DecimalLength
    <3>. QED
      BY <2>3, <3>2
  <2>. QED
    BY <2>2, <2>3
<1>. QED
  BY <1>1, <1>2 DEF DecimalOf

(* Without a point, it is the natural. *)
LEMMA DecimalWithoutPoint ==
  ASSUME NEW text \in Seq(Character), NEW natural, NEW digits,
         NaturalOf(natural, text, digits), natural.ok, ~Pointed(text, digits),
         NEW number, number = AsDecimal(natural, <<>>, natural.at + 0)
  PROVE  DecimalOf(number, text, digits)
<1>1. /\ Len(digits) \in Nat /\ Len(digits) < Len(text) /\ Len(digits) <= NUMBER_MAX_DIGITS
      /\ natural.value = Number(digits) /\ natural.at = Len(digits)
  BY DEF NaturalOf
<1>2. DecimalLength(text, digits) = Len(digits) /\ DecimalsOf(text, digits) = <<>>
  BY <1>1 DEF DecimalLength, DecimalsOf
<1>3. Len(<<>>) <= NUMBER_MAX_DIGITS
  BY ByteStreamAssumption
<1>4. /\ number.ok /\ number.natural = natural.value /\ number.decimals = <<>>
      /\ number.at = natural.at + 0
  BY <1>3, DecimalFields
<1>5. natural.at + 0 = natural.at
  BY <1>1
<1>. QED
  BY <1>1, <1>2, <1>3, <1>4, <1>5 DEF DecimalOf

(* With one, what is behind it is its decimals. *)
LEMMA DecimalWithPoint ==
  ASSUME NEW text \in Seq(Character), NEW natural, NEW digits,
         NaturalOf(natural, text, digits), natural.ok, Pointed(text, digits),
         NEW fraction, fraction = Plain(text, natural.at + 1, Digits),
         NEW number, number = WithFraction(natural, fraction, 0)
  PROVE  DecimalOf(number, text, digits)
<1>. DEFINE decimals == DecimalsOf(text, digits)
            at == Len(digits) + 1
<1>1. /\ Len(digits) \in Nat /\ Len(digits) < Len(text) /\ Len(digits) <= NUMBER_MAX_DIGITS
      /\ natural.value = Number(digits) /\ natural.at = Len(digits)
  BY DEF NaturalOf
<1>2. at \in 0..Len(text) /\ at + 1 = Len(digits) + 2 /\ natural.at + 1 = at
  BY <1>1
<1>3. decimals = DigitsFrom(text, at + 1)
  BY <1>2 DEF DecimalsOf
<1>. HIDE DEF at
<1>4. DigitsTakenBy(fraction, text, at, decimals)
  <2>1. DigitsTakenBy(Plain(text, at, Digits), text, at, DigitsFrom(text, at + 1))
    BY <1>2, PlainDigits
  <2>. QED
    BY <1>2, <1>3, <2>1
<1>. HIDE DEF decimals
<1>5. /\ Len(decimals) \in Nat /\ fraction.ok <=> at + Len(decimals) < Len(text)
      /\ fraction.ok => fraction.at = at + Len(decimals) /\ fraction.out = decimals
  BY <1>4 DEF DigitsTakenBy
<1>6. DecimalLength(text, digits) = at + Len(decimals)
  <2>1. DecimalLength(text, digits) = Len(digits) + (1 + Len(decimals))
    BY DEF DecimalLength, decimals
  <2>. QED
    BY <1>1, <1>5, <2>1 DEF at
<1>7. /\ number.ok <=> fraction.ok /\ Len(fraction.out) <= NUMBER_MAX_DIGITS
      /\ number.at = fraction.at + 0
      /\ number.natural = natural.value /\ number.decimals = fraction.out
  BY FractionFields
<1>8. fraction.ok => fraction.at + 0 = DecimalLength(text, digits)
  BY <1>2, <1>5, <1>6
<1>. QED
  BY <1>1, <1>5, <1>6, <1>7, <1>8 DEF DecimalOf, decimals

(* readDecimal returns that. *)
LEMMA DecimalIsRead ==
  ASSUME NEW text \in Seq(Character)
  PROVE  DecimalOf(readDecimal(text, 0), text, DigitsFrom(text, 1))
<1>1. PICK natural, digits, number :
         /\ natural = readNatural(text, 0)
         /\ digits = DigitsFrom(text, 1)
         /\ number = readDecimal(text, 0)
  OBVIOUS
<1>2. NaturalOf(natural, text, digits)
  BY <1>1, NaturalIsRead
<1>3. number = DecimalFrom(text, natural, Digits, 0)
  BY <1>1 DEF readDecimal, readDecimalUntil
<1>4. natural.ok => (peekAt(text, natural.at) = "." <=> Pointed(text, digits))
  BY <1>2 DEF NaturalOf, peekAt, Pointed
<1>5. CASE ~natural.ok
  <2>1. number = AsDecimal(natural, <<>>, natural.at)
    BY <1>3, <1>5 DEF DecimalFrom
  <2>. QED
    BY <1>1, <1>2, <1>5, <2>1, DecimalWithoutNatural
<1>6. CASE natural.ok /\ ~Pointed(text, digits)
  <2>1. number = AsDecimal(natural, <<>>, natural.at + 0)
    BY <1>3, <1>4, <1>6 DEF DecimalFrom
  <2>. QED
    BY <1>1, <1>2, <1>6, <2>1, DecimalWithoutPoint
<1>7. CASE natural.ok /\ Pointed(text, digits)
  <2>1. PICK fraction : fraction = Plain(text, natural.at + 1, Digits)
    OBVIOUS
  <2>2. number = WithFraction(natural, fraction, 0)
    BY <1>3, <1>4, <1>7, <2>1 DEF DecimalFrom
  <2>. QED
    BY <1>1, <1>2, <1>7, <2>1, <2>2, DecimalWithPoint
<1>. QED
  BY <1>5, <1>6, <1>7

-----------------------------------------------------------------------------
(* The outcome of a call is what the call returns.                         *)
NumberReturned ==
  /\ subject \in Subjects
  /\ outcome # <<>> /\ subject.kind = "number" => outcome = <<NumberOutcome(subject)>>

(* A number call returns the digits at the front of its text. *)
LEMMA NumberReturnedReads == NumberReturned => NumbersReadDigits
<1>. SUFFICES ASSUME NumberReturned PROVE NumbersReadDigits
  OBVIOUS
<1>. SUFFICES ASSUME Done("number") PROVE NumbersReadDigits
  BY DEF NumbersReadDigits
<1>1. subject.text \in Seq(Character)
  BY ReadingAssumption DEF NumberReturned, Done, NumberSubject
<1>2. Returned = NumberOutcome(subject)
  BY DEF NumberReturned, Done, Returned
<1>. DEFINE digits == DigitsFrom(subject.text, 1)
<1>3. ASSUME subject.call = "natural"
      PROVE  NaturalOf(Returned, subject.text, digits)
  <2>1. Returned = readNatural(subject.text, 0)
    BY <1>2, <1>3 DEF NumberOutcome
  <2>. QED
    BY <1>1, <2>1, NaturalIsRead
<1>4. ASSUME subject.call = "decimal"
      PROVE  DecimalOf(Returned, subject.text, digits)
  <2>1. Returned = readDecimal(subject.text, 0)
    BY <1>2, <1>4 DEF NumberOutcome
  <2>. QED
    BY <1>1, <2>1, DecimalIsRead
<1>5. ASSUME subject.call = "natural"
      PROVE  /\ Returned.ok <=> Len(digits) < Len(subject.text)
                               /\ Len(digits) <= NUMBER_MAX_DIGITS
             /\ Returned.ok => Returned.value = Number(digits) /\ Returned.at = Len(digits)
  BY <1>3, <1>5 DEF NaturalOf
<1>6. ASSUME subject.call = "decimal"
      PROVE  /\ Returned.ok <=> DecimalLength(subject.text, digits) < Len(subject.text)
                               /\ Len(digits) <= NUMBER_MAX_DIGITS
                               /\ Len(DecimalsOf(subject.text, digits)) <= NUMBER_MAX_DIGITS
             /\ Returned.ok => /\ Returned.natural = Number(digits)
                              /\ Returned.decimals = DecimalsOf(subject.text, digits)
                              /\ Returned.at = DecimalLength(subject.text, digits)
  BY <1>4, <1>6 DEF DecimalOf
<1>. QED
  BY <1>5, <1>6 DEF NumbersReadDigits, DecimalsOf, DecimalLength, Pointed

(* readNatural and readDecimal take the digits at the front of any text,   *)
(* up to NUMBER_MAX_DIGITS on either side of the point, and leave what     *)
(* follows; a number at the very end of the text throws.                   *)
THEOREM NumbersReadDigitsAlways == ReadingSpec => []NumbersReadDigits
<1>1. ConversionInit => NumberReturned
  BY DEF ConversionInit, NumberReturned
<1>2. NumberReturned /\ [Read]_conversion_vars => NumberReturned'
  <2>. SUFFICES ASSUME NumberReturned, [Read]_conversion_vars PROVE NumberReturned'
    OBVIOUS
  <2>1. CASE ReadTwice
    BY <2>1 DEF ReadTwice, Subject, NumberReturned
  <2>2. CASE ReadNumber
    BY <2>2 DEF ReadNumber, Subject, NumberReturned, NumberOutcome
  <2>3. CASE UNCHANGED conversion_vars
    BY <2>3 DEF conversion_vars, NumberReturned, NumberOutcome
  <2>. QED
    BY <2>1, <2>2, <2>3 DEF Read
<1>. QED
  BY <1>1, <1>2, NumberReturnedReads, PTL DEF ReadingSpec

-----------------------------------------------------------------------------
(* A call of a task, one character after the other. *)

(* The characters of a text in either case, and what an uninitialized      *)
(* member of a task may hold.                                              *)
Letters ==
  Character \cup {LowerCase(c) : c \in Character} \cup {UpperCase(c) : c \in Character}
            \cup UNION {Range(garbage) : garbage \in Garbage}

(* The character a call ends with, and the one behind the text if there is *)
(* none; how many it takes; and whether a character is that one.           *)
EndOf(text, criteria) ==
  IF Extent(text, criteria) = 0 THEN Len(text) + 1 ELSE Extent(text, criteria)
Reach(text, e) == IF e <= Len(text) THEN e ELSE Len(text)
StateAt(k, e) == IF k = e THEN "at_last" ELSE "good"

(* What a call ends with. *)
EndsAt(text, criteria, e) ==
  /\ e \in Nat \ {0}
  /\ \/ /\ criteria.mode = "until"
        /\ \A k \in 1..Len(text) : k < e => text[k] \notin criteria.until
        /\ e <= Len(text) => text[e] \in criteria.until
     \/ criteria.mode = "size" /\ criteria.left = e

(* The criteria of the calls say where they end. *)
LEMMA EndOfIs ==
  ASSUME NEW text \in Seq(Character), NEW criteria, PartCriteria(criteria)
  PROVE  /\ EndsAt(text, criteria, EndOf(text, criteria))
         /\ criteria \in Modes(Letters) /\ criteria.state = "good" /\ criteria.inclusive
         /\ Extent(text, criteria) \in 1..Len(text) <=> EndOf(text, criteria) <= Len(text)
         /\ Extent(text, criteria) \in 1..Len(text)
              => Extent(text, criteria) = EndOf(text, criteria)
         /\ ~(Extent(text, criteria) \in 1..Len(text))
              => Extent(text, criteria) = 0 \/ Extent(text, criteria) > Len(text)
<1>0. /\ "good" \in States /\ "until" \in Names /\ "size" \in Names
      /\ Character \subseteq Letters
  BY DEF States, Names, Letters
<1>1. CASE criteria.until \subseteq Character /\ criteria = Until(criteria.until, TRUE)
  <2>. DEFINE until == criteria.until
              I == {i \in 1..Len(text) : text[i] \in until}
              x == Extent(text, criteria)
  <2>1. /\ criteria.mode = "until" /\ criteria.state = "good" /\ criteria.inclusive
        /\ criteria = [mode |-> "until", until |-> until, inclusive |-> TRUE,
                       left |-> 0, state |-> "good"]
    BY <1>1 DEF Until
  <2>2. x = IF I # {} THEN Min(I) ELSE 0
    BY <2>1 DEF Extent, SelectInSeq
  <2>3. I # {} => Min(I) \in I /\ \A i \in I : Min(I) <= i
    <3>1. Len(text) \in Nat /\ I \in SUBSET (1..Len(text))
      OBVIOUS
    <3>. HIDE DEF I
    <3>. QED
      BY <3>1, MinIsIn
  <2>4. criteria \in Modes(Letters)
    <3>1. until \in SUBSET Letters
      BY <1>0, <1>1
    <3>. HIDE DEF until
    <3>. QED
      BY <1>0, <2>1, <3>1 DEF Modes
  <2>. HIDE DEF x
  <2>5. CASE I = {}
    <3>1. EndOf(text, criteria) = Len(text) + 1
      BY <2>2, <2>5 DEF EndOf, x
    <3>2. \A k \in 1..Len(text) : text[k] \notin until
      BY <2>5
    <3>. QED
      BY <2>1, <2>2, <2>4, <2>5, <3>1, <3>2 DEF EndsAt, x
  <2>6. CASE I # {}
    <3>1. x \in I /\ x \in 1..Len(text) /\ \A i \in I : x <= i
      BY <2>2, <2>3, <2>6
    <3>2. EndOf(text, criteria) = x
      BY <3>1 DEF EndOf, x
    <3>3. \A k \in 1..Len(text) : k < x => text[k] \notin until
      BY <3>1
    <3>. QED
      BY <2>1, <2>4, <3>1, <3>2, <3>3 DEF EndsAt, x
  <2>. QED
    BY <2>5, <2>6
<1>2. CASE criteria.left \in Nat \ {0} /\ criteria = Size(criteria.left)
  <2>. DEFINE left == criteria.left
  <2>1. /\ criteria.mode = "size" /\ criteria.state = "good" /\ criteria.inclusive
        /\ criteria = [mode |-> "size", until |-> {}, inclusive |-> TRUE,
                       left |-> left, state |-> "good"]
    BY <1>2 DEF Size
  <2>2. Extent(text, criteria) = left
    BY <2>1 DEF Extent
  <2>3. criteria \in Modes(Letters)
    <3>1. left \in Int /\ {} \in SUBSET Letters
      BY <1>2
    <3>. HIDE DEF left
    <3>. QED
      BY <1>0, <2>1, <3>1 DEF Modes
  <2>4. EndOf(text, criteria) = left
    BY <1>2, <2>2 DEF EndOf
  <2>. QED
    BY <1>2, <2>1, <2>2, <2>3, <2>4 DEF EndsAt
<1>. QED
  BY <1>1, <1>2 DEF PartCriteria

(* Where a call is after k characters, if it has not thrown.               *)
Going(c, criteria, e, k) ==
  /\ c \in Modes(Letters)
  /\ c.mode = criteria.mode /\ c.until = criteria.until /\ c.inclusive
  /\ c.left = criteria.left - k /\ c.state = StateAt(k, e)
Onward(s, text, criteria, e, k) ==
  /\ s \in Calls(Letters) /\ s.at = k /\ Going(s.criteria, criteria, e, k)
  /\ s.status = IF k = e /\ k = Len(text) THEN "returned" ELSE "reading"

(* The next character leaves the criteria as it should be. *)
LEMMA GoingOn ==
  ASSUME NEW text \in Seq(Character), NEW criteria \in Modes(Letters), NEW e,
         EndsAt(text, criteria, e),
         NEW k \in Nat, k < e, k < Len(text), NEW c, Going(c, criteria, e, k)
  PROVE  Going(NextCriteria(c, text[k + 1]), criteria, e, k + 1)
<1>. DEFINE x == text[k + 1]
            state == StateAt(k + 1, e)
            next == NextCriteria(c, x)
<1>1. /\ c \in Modes(Letters) /\ c.state = "good" /\ c.inclusive
      /\ c.mode = criteria.mode /\ c.until = criteria.until /\ c.left = criteria.left - k
      /\ c.left \in Int /\ e \in Nat \ {0} /\ criteria.left \in Int
  BY DEF Going, StateAt, EndsAt, Modes
<1>2. state \in States
  BY DEF StateAt, States
<1>3. k + 1 \in 1..Len(text) /\ k + 1 <= e
  BY <1>1
<1>4. next = Counted(c, state)
  <2>1. CASE criteria.mode = "until"
    <3>1. x \in c.until <=> k + 1 = e
      BY <1>1, <1>3, <2>1 DEF EndsAt
    <3>2. untilMatchNext(c.state, x \in c.until, c.inclusive) = state
      BY <1>1, <3>1 DEF untilMatchNext, StateAt
    <3>. HIDE DEF state
    <3>. QED
      BY <1>1, <2>1, <3>2 DEF NextCriteria, Counted
  <2>2. CASE criteria.mode = "size"
    <3>1. c.left = e - k /\ c.left >= 1 /\ (c.left = 1 <=> k + 1 = e)
      BY <1>1, <2>2 DEF EndsAt
    <3>2. untilSizeNext(c.state, c.left) = state
      BY <1>1, <3>1 DEF untilSizeNext, StateAt
    <3>. HIDE DEF state
    <3>. QED
      BY <1>1, <2>2, <3>2 DEF NextCriteria, Counted
  <2>. QED
    BY <2>1, <2>2 DEF EndsAt
<1>. HIDE DEF next
<1>5. /\ next \in Modes(Letters) /\ next.state = state /\ next.left = c.left - 1
      /\ next.mode = c.mode /\ next.until = c.until /\ next.inclusive = c.inclusive
  <2>1. next \in Modes(Letters) /\ next.state = state
    BY <1>1, <1>2, <1>4, NextIs
  <2>2. next.left = c.left - 1
    BY <1>1, <1>2, <1>4, NextIs
  <2>3. next.mode = c.mode /\ next.until = c.until /\ next.inclusive = c.inclusive
    BY <1>1, <1>2, <1>4, NextIs
  <2>. QED
    BY <2>1, <2>2, <2>3
<1>6. next.left = criteria.left - (k + 1)
  BY <1>1, <1>5
<1>. QED
  BY <1>1, <1>5, <1>6 DEF Going, next

(* One character more: the task fails or the call goes on.                 *)
TookOne(r, t, text, criteria, e, k) ==
  /\ r.task = t
  /\ t.failed => r.status = "threw"
  /\ ~t.failed => Onward(r, text, criteria, e, k + 1)

(* That is what streamCollect does. *)
LEMMA OnwardMore ==
  ASSUME NEW text \in Seq(Character), NEW criteria \in Modes(Letters), NEW e,
         EndsAt(text, criteria, e), NEW links, NEW sink,
         NEW k \in Nat, k < e, k < Len(text), NEW s, Onward(s, text, criteria, e, k),
         NEW t \in Tasks(Letters), ~t.bailed,
         t = perform(s.task, text[k + 1], StateAt(k + 1, e), links, sink),
         NEW r, r = CollectNext(s, text[k + 1], text, links, sink)
  PROVE  TookOne(r, t, text, criteria, e, k)
<1>1. PICK c : c = text[k + 1]
  OBVIOUS
<1>2. c # EndOfText
  <2>1. c \in Character
    BY <1>1
  <2>. QED
    BY <2>1, CharacterIs
<1>3. PICK next : next = NextCriteria(s.criteria, c)
  OBVIOUS
<1>4. /\ s \in Calls(Letters) /\ s.at = k /\ Going(s.criteria, criteria, e, k)
      /\ s.status = "reading" /\ e \in Nat
  BY DEF Onward, EndsAt
<1>5. Going(next, criteria, e, k + 1)
  BY <1>1, <1>3, <1>4, GoingOn
<1>6. next \in Modes(Letters) /\ next.state = StateAt(k + 1, e) /\ next.state # "not_good"
  BY <1>5 DEF Going, StateAt
<1>7. r = Collected(s, text, next, t)
  BY <1>1, <1>2, <1>3, <1>4, <1>6 DEF CollectNext, CollectChecked
<1>8. r \in Calls(Letters) /\ TakenAs(r, s, text, next, t)
  BY <1>4, <1>6, <1>7, CollectedIs
<1>9. /\ r.at = k + 1 /\ r.task = t
      /\ r.criteria.mode = next.mode /\ r.criteria.until = next.until
      /\ r.criteria.inclusive = next.inclusive /\ r.criteria.left = next.left
      /\ r.criteria.state = next.state
      /\ t.failed => r.status = "threw"
      /\ ~t.failed /\ k + 1 = Len(text) /\ next.state = "at_last" => r.status = "returned"
      /\ ~t.failed /\ next.state # "at_last" => r.status = "reading"
      /\ ~t.failed /\ k + 1 # Len(text) => r.status = "reading"
  BY <1>4, <1>8 DEF TakenAs
<1>10. Going(r.criteria, criteria, e, k + 1)
  <2>1. r.criteria \in Modes(Letters)
    BY <1>8 DEF Calls
  <2>. QED
    BY <1>5, <1>9, <2>1 DEF Going
<1>11. ASSUME ~t.failed
       PROVE  r.status = IF k + 1 = e /\ k + 1 = Len(text) THEN "returned" ELSE "reading"
  <2>1. next.state = "at_last" <=> k + 1 = e
    BY <1>6 DEF StateAt
  <2>. QED
    BY <1>9, <1>11, <2>1
<1>. QED
  BY <1>8, <1>9, <1>10, <1>11 DEF Onward, TookOne

(* The element behind the last one it takes ends the call.                 *)
TookLast(r, s, text, e) ==
  r.task = s.task /\ r.status = IF e <= Len(text) THEN "returned" ELSE "threw"

(* It does. *)
LEMMA OnwardEnds ==
  ASSUME NEW text \in Seq(Character), NEW criteria \in Modes(Letters), NEW e,
         EndsAt(text, criteria, e), NEW links, NEW sink,
         NEW k, k = Reach(text, e), NEW s, Onward(s, text, criteria, e, k),
         NEW c, c = IF k < Len(text) THEN text[k + 1] ELSE EndOfText,
         NEW r, r = CollectNext(s, c, text, links, sink)
  PROVE  TookLast(r, s, text, e)
<1>1. /\ s \in Calls(Letters) /\ Going(s.criteria, criteria, e, k) /\ e \in Nat
      /\ s.status = IF k = e /\ k = Len(text) THEN "returned" ELSE "reading"
  BY DEF Onward, EndsAt
<1>2. Len(text) \in Nat
  OBVIOUS
<1>3. \A status : [s EXCEPT !.status = status].task = s.task
                  /\ [s EXCEPT !.status = status].status = status
  BY <1>1 DEF Calls
<1>4. CASE k < Len(text)
  <2>1. k = e /\ e <= Len(text)
    BY <1>1, <1>2, <1>4 DEF Reach
  <2>2. c # EndOfText
    <3>1. c \in Character
      BY <1>1, <1>4, <2>1
    <3>. QED
      BY <3>1, CharacterIs
  <2>3. NextCriteria(s.criteria, c).state = "not_good"
    <3>1. /\ s.criteria \in Modes(Letters) /\ s.criteria.state = "at_last"
          /\ s.criteria.mode = criteria.mode /\ s.criteria.left = criteria.left - k
      BY <1>1, <2>1 DEF Going, StateAt
    <3>2. PICK x : x = s.criteria
      OBVIOUS
    <3>3. "not_good" \in States
      BY DEF States
    <3>4. NextCriteria(x, c) = Counted(x, "not_good")
      <4>1. CASE criteria.mode = "until"
        <5>1. untilMatchNext(x.state, c \in x.until, x.inclusive) = "not_good"
          BY <3>1, <3>2 DEF untilMatchNext
        <5>. QED
          BY <3>1, <3>2, <4>1, <5>1 DEF NextCriteria, Counted
      <4>2. CASE criteria.mode = "size"
        <5>1. x.left = 0
          BY <1>1, <2>1, <3>1, <3>2, <4>2 DEF EndsAt
        <5>2. untilSizeNext(x.state, x.left) = "not_good"
          BY <3>1, <3>2, <5>1 DEF untilSizeNext
        <5>. QED
          BY <3>1, <3>2, <4>2, <5>2 DEF NextCriteria, Counted
      <4>. QED
        BY <4>1, <4>2 DEF EndsAt
    <3>. QED
      BY <3>1, <3>2, <3>3, <3>4, NextIs
  <2>4. s.status = "reading"
    BY <1>1, <1>4
  <2>5. r = [s EXCEPT !.status = "returned"]
    BY <2>2, <2>3, <2>4 DEF CollectNext, CollectChecked
  <2>. QED
    BY <1>3, <2>1, <2>5 DEF TookLast
<1>5. CASE ~(k < Len(text))
  <2>1. k = Len(text) /\ c = EndOfText
    BY <1>1, <1>2, <1>5 DEF Reach
  <2>2. CASE k = e
    <3>1. r = s /\ s.status = "returned" /\ e <= Len(text)
      BY <1>1, <1>2, <2>1, <2>2 DEF CollectNext, CollectChecked
    <3>. QED
      BY <3>1 DEF TookLast
  <2>3. CASE k # e
    <3>1. ~(e <= Len(text))
      BY <1>1, <1>2, <2>1, <2>3 DEF Reach
    <3>2. s.status = "reading"
      BY <1>1, <2>3
    <3>3. r = [s EXCEPT !.status = "threw"]
      BY <2>1, <3>2 DEF CollectNext, CollectChecked
    <3>. QED
      BY <1>3, <3>1, <3>3 DEF TookLast
  <2>. QED
    BY <2>2, <2>3
<1>. QED
  BY <1>4, <1>5

(* h[k] is what the task has come to after k characters.                   *)
TaskRun(h, text, e, task, links, sink) ==
  /\ h[0] = task
  /\ \A k \in 1..Reach(text, e) :
        h[k] = perform(h[k - 1], text[k], StateAt(k, e), links, sink)

(* There is such a run. *)
LEMMA TaskRuns ==
  ASSUME NEW text \in Seq(Character), NEW e \in Nat, NEW task, NEW links, NEW sink
  PROVE  \E h : TaskRun(h, text, e, task, links, sink)
<1>. DEFINE S(t, k) == perform(t, text[k], StateAt(k, e), links, sink)
            Upto(f, n) == f[0] = task /\ \A k \in 1..n : f[k] = S(f[k - 1], k)
            T == {n \in Nat : \E f : Upto(f, n)}
<1>. HIDE DEF S
<1>1. 0 \in T
  <2>. DEFINE f == [k \in 0..0 |-> task]
  <2>1. Upto(f, 0)
    OBVIOUS
  <2>. QED
    BY <2>1
<1>2. ASSUME NEW n \in T PROVE n + 1 \in T
  <2>1. PICK f : Upto(f, n)
    OBVIOUS
  <2>. DEFINE more == [k \in 0..(n + 1) |-> IF k = n + 1 THEN S(f[n], n + 1) ELSE f[k]]
  <2>2. more[0] = task
    BY <2>1
  <2>3. ASSUME NEW k \in 1..(n + 1) PROVE more[k] = S(more[k - 1], k)
    <3>1. more[k - 1] = f[k - 1]
      OBVIOUS
    <3>2. CASE k = n + 1
      <4>1. k - 1 = n /\ more[k] = S(f[n], n + 1)
        BY <3>2
      <4>. QED
        BY <3>1, <3>2, <4>1
    <3>3. CASE k # n + 1
      <4>1. k \in 1..n /\ more[k] = f[k]
        BY <3>3
      <4>. QED
        BY <2>1, <3>1, <4>1
    <3>. QED
      BY <3>2, <3>3
  <2>. HIDE DEF more
  <2>4. Upto(more, n + 1)
    BY <2>2, <2>3
  <2>. QED
    BY <2>4
<1>3. Reach(text, e) \in T
  <2>1. T \in SUBSET Nat /\ Reach(text, e) \in Nat
    BY DEF Reach
  <2>. HIDE DEF T
  <2>. QED
    BY <1>1, <1>2, <2>1, SetInduction
<1>4. PICK f : Upto(f, Reach(text, e))
  BY <1>3
<1>5. TaskRun(f, text, e, task, links, sink)
  BY <1>4 DEF TaskRun, S
<1>. QED
  BY <1>5

(* The tasks of a run that never ask for the call to end.                  *)
Unbailed(h, n) == /\ \A k \in 0..n : h[k] \in Tasks(Letters)
                  /\ \A k \in 1..n : ~h[k].bailed

(* How the call ends.                                                      *)
Ends(s, h, text, e) ==
  /\ e <= Len(text) /\ (\A k \in 1..e : ~h[k].failed)
        => s.status = "returned" /\ s.task = h[e]
  /\ ~(e <= Len(text) /\ \A k \in 1..e : ~h[k].failed)
        => s.status = "threw" /\ \E k \in 0..Reach(text, e) : s.task = h[k]

(* A call runs with its task, and ends with it. *)
LEMMA CallEnds ==
  ASSUME NEW text \in Seq(Character), NEW criteria \in Modes(Letters), NEW e,
         EndsAt(text, criteria, e), criteria.state = "good", criteria.inclusive,
         NEW task, NEW links, NEW sink,
         NEW h, TaskRun(h, text, e, task, links, sink), Unbailed(h, Reach(text, e))
  PROVE  Ends(Collect(text, 0, criteria, task, links, sink), h, text, e)
<1>. DEFINE m == Reach(text, e)
            last == Len(text) + 1
            ahead == Ahead(text, 0)
<1>0. /\ e \in Nat \ {0} /\ m \in Nat /\ m <= e /\ m <= Len(text) /\ last \in Nat
      /\ (m < Len(text) => m = e) /\ (e <= Len(text) => m = e)
      /\ (~(e <= Len(text)) => m = Len(text)) /\ Len(text) \in Nat
  BY DEF EndsAt, Reach
<1>1. PICK g : /\ CollectRun(g, text, 0, criteria, task, links, sink)
               /\ Collect(text, 0, criteria, task, links, sink) = g[last]
  <2>1. 0 \in 0..Len(text) /\ Len(text) - 0 + 1 = last
    OBVIOUS
  <2>. QED
    BY <2>1, CollectRuns
<1>2. /\ \A k \in 1..Len(text) : ahead[k] = text[k]
      /\ ahead[last] = EndOfText
  <2>1. 0 \in 0..Len(text) /\ Len(text) - 0 + 1 = last /\ Len(text) - 0 = Len(text)
        /\ \A k \in 1..Len(text) : 0 + k = k
    OBVIOUS
  <2>2. Ahead(text, 0)[Len(text) - 0 + 1] = EndOfText
    BY <2>1, AheadElements
  <2>3. \A k \in 1..(Len(text) - 0) : Ahead(text, 0)[k] = text[0 + k]
    BY <2>1, AheadElements
  <2>. QED
    BY <2>1, <2>2, <2>3
<1>3. \A k \in 1..last : g[k] = CollectNext(g[k - 1], ahead[k], text, links, sink)
  <2>1. Len(text) - 0 + 1 = last
    BY <1>0
  <2>. QED
    BY <1>1, <2>1 DEF CollectRun
<1>. HIDE DEF m, ahead, last
<1>4. g[0] = Start(0, criteria, task) /\ h[0] = task
  BY <1>1 DEF CollectRun, TaskRun
<1>. DEFINE On(k) == /\ Onward(g[k], text, criteria, e, k) /\ g[k].task = h[k]
                     /\ \A j \in 1..k : ~h[j].failed
            Off(k) == \E j \in 1..k : /\ h[j].failed
                                      /\ g[j].status = "threw" /\ g[j].task = h[j]
            T == {k \in Nat : k <= m => On(k) \/ Off(k)}
<1>5. 0 \in T
  <2>1. Onward(g[0], text, criteria, e, 0)
    <3>1. "reading" \in Statuses /\ 0 \in Int
      BY DEF Statuses
    <3>2. task \in Tasks(Letters)
      BY <1>0, <1>4 DEF Unbailed, m
    <3>3. Start(0, criteria, task) \in Calls(Letters)
      BY <3>1, <3>2 DEF Start, Calls
    <3>4. /\ g[0].status = "reading" /\ g[0].at = 0 /\ g[0].criteria = criteria
      BY <1>4 DEF Start
    <3>5. Going(criteria, criteria, e, 0)
      <4>1. criteria.left \in Int
        BY DEF Modes
      <4>2. criteria.left = criteria.left - 0 /\ StateAt(0, e) = "good"
        BY <1>0, <4>1 DEF StateAt
      <4>. QED
        BY <4>2 DEF Going
    <3>. QED
      BY <1>0, <1>4, <3>3, <3>4, <3>5 DEF Onward
  <2>2. g[0].task = h[0]
    BY <1>4 DEF Start
  <2>. QED
    BY <2>1, <2>2
<1>6. ASSUME NEW k \in T PROVE k + 1 \in T
  <2>. SUFFICES ASSUME k + 1 <= m PROVE On(k + 1) \/ Off(k + 1)
    OBVIOUS
  <2>0. k \in Nat /\ k <= m /\ k < e /\ k < Len(text) /\ k + 1 \in 1..m /\ k + 1 \in 1..last
        /\ k + 1 \in 1..Len(text) /\ k + 1 - 1 = k /\ k + 1 \in 0..m
    BY <1>0 DEF last
  <2>1. CASE Off(k)
    BY <2>0, <2>1
  <2>2. CASE On(k)
    <3>1. g[k + 1] = CollectNext(g[k], text[k + 1], text, links, sink)
      BY <1>2, <1>3, <2>0
    <3>2. h[k + 1] = perform(g[k].task, text[k + 1], StateAt(k + 1, e), links, sink)
      BY <2>0, <2>2 DEF TaskRun, m
    <3>3. h[k + 1] \in Tasks(Letters) /\ ~h[k + 1].bailed
      BY <2>0 DEF Unbailed, m
    <3>4. /\ g[k + 1].task = h[k + 1]
          /\ h[k + 1].failed => g[k + 1].status = "threw"
          /\ ~h[k + 1].failed => Onward(g[k + 1], text, criteria, e, k + 1)
      <4>1. TookOne(g[k + 1], h[k + 1], text, criteria, e, k)
        BY <2>0, <2>2, <3>1, <3>2, <3>3, OnwardMore
      <4>. QED
        BY <4>1 DEF TookOne
    <3>5. CASE h[k + 1].failed
      <4>1. k + 1 \in 1..(k + 1)
        BY <2>0
      <4>. QED
        BY <3>4, <3>5, <4>1
    <3>6. CASE ~h[k + 1].failed
      <4>1. \A j \in 1..(k + 1) : j \in 1..k \/ j = k + 1
        BY <2>0
      <4>. QED
        BY <2>2, <3>4, <3>6, <4>1
    <3>. QED
      BY <3>5, <3>6
  <2>3. On(k) \/ Off(k)
    BY <2>0
  <2>. QED
    BY <2>1, <2>2, <2>3
<1>7. On(m) \/ Off(m)
  <2>1. T \in SUBSET Nat
    OBVIOUS
  <2>2. T = Nat
    <3>. HIDE DEF T
    <3>. QED
      BY <1>5, <1>6, <2>1, SetInduction
  <2>. QED
    BY <1>0, <2>2
<1>. HIDE DEF T
<1>8. CASE Off(m)
  <2>1. PICK j \in 1..m : h[j].failed /\ g[j].status = "threw" /\ g[j].task = h[j]
    BY <1>8
  <2>2. j \in 0..(Len(text) - 0 + 1) /\ Len(text) - 0 + 1 = last /\ j \in 0..m
    BY <1>0 DEF last
  <2>3. g[last] = g[j]
    BY <1>1, <2>1, <2>2, CallIsOver
  <2>4. ~(e <= Len(text) /\ \A k \in 1..e : ~h[k].failed)
    BY <1>0, <2>1
  <2>. QED
    BY <1>1, <2>1, <2>2, <2>3, <2>4 DEF Ends, m
<1>9. CASE On(m)
  <2>1. m + 1 \in 1..last /\ m + 1 - 1 = m
    BY <1>0 DEF last
  <2>2. ahead[m + 1] = IF m < Len(text) THEN text[m + 1] ELSE EndOfText
    <3>1. CASE m < Len(text)
      <4>1. m + 1 \in 1..Len(text)
        BY <1>0, <3>1
      <4>. QED
        BY <1>2, <3>1, <4>1
    <3>2. CASE ~(m < Len(text))
      <4>1. m + 1 = last
        BY <1>0, <3>2 DEF last
      <4>. QED
        BY <1>2, <3>2, <4>1
    <3>. QED
      BY <3>1, <3>2
  <2>3. /\ g[m + 1].task = h[m]
        /\ g[m + 1].status = IF e <= Len(text) THEN "returned" ELSE "threw"
    <3>1. g[m + 1] = CollectNext(g[m], ahead[m + 1], text, links, sink)
      BY <1>0, <1>3, <2>1
    <3>2. Onward(g[m], text, criteria, e, m) /\ g[m].task = h[m]
      BY <1>9
    <3>3. PICK c, s, r : c = ahead[m + 1] /\ s = g[m] /\ r = g[m + 1]
      OBVIOUS
    <3>4. TookLast(r, s, text, e)
      BY <2>2, <3>1, <3>2, <3>3, OnwardEnds DEF m
    <3>. QED
      BY <3>2, <3>3, <3>4 DEF TookLast
  <2>4. m + 1 \in 0..(Len(text) - 0 + 1) /\ Len(text) - 0 + 1 = last
    BY <1>0 DEF last
  <2>5. g[last] = g[m + 1]
    BY <1>1, <2>3, <2>4, CallIsOver
  <2>6. m \in 0..m
    BY <1>0
  <2>. QED
    BY <1>0, <1>1, <1>9, <2>3, <2>5, <2>6 DEF Ends, m
<1>. QED
  BY <1>7, <1>8, <1>9

-----------------------------------------------------------------------------
(* The filters in front of a sink, one after the other. *)

(* f[k] is what k links leave of p.                                        *)
LinkRun(f, links, p) ==
  f[0] = p /\ \A k \in 1..Len(links) : f[k] = Pass(links[k], f[k - 1])

(* perform hands a character through the links. *)
LEMMA LinksRun ==
  ASSUME NEW L, NEW links \in Seq(L), NEW p
  PROVE  \E g : /\ LinkRun(g, links, p)
                /\ FoldLeft(LAMBDA acc, link : Pass(link, acc), p, links) = g[Len(links)]
<1>. DEFINE n == Len(links)
            s == links
            b == p
            S(u, c) == Pass(c, u)
            fold == FoldLeft(LAMBDA acc, link : Pass(link, acc), p, links)
            Body(f, k) == [t \in SUBSET (1..k) |->
                             IF t = {} THEN b ELSE S(f[t \ {Max(t)}], s[Max(t)])]
            T == {k \in Nat : \E it : it = Body(it, k)}
<1>1. n \in Nat /\ DOMAIN s = 1..n
  OBVIOUS
<1>2. fold
        = (CHOOSE it : it = [t \in SUBSET DOMAIN s |->
                               IF t = {} THEN b ELSE S(it[t \ {Max(t)}], s[Max(t)])])[DOMAIN s]
  BY DEF FoldLeft, MapThenFoldSet
<1>. HIDE DEF n, s, b, S, fold
<1>3. 0 \in T
  <2>. DEFINE it == [t \in SUBSET (1..0) |-> b]
  <2>1. it = Body(it, 0)
    OBVIOUS
  <2>. QED
    BY <2>1
<1>4. ASSUME NEW k \in T PROVE k + 1 \in T
  <2>1. PICK it : it = Body(it, k)
    OBVIOUS
  <2>. DEFINE more == [t \in SUBSET (1..(k + 1)) |->
                         IF k + 1 \in t THEN S(it[t \ {k + 1}], s[k + 1]) ELSE it[t]]
  <2>2. ASSUME NEW t \in SUBSET (1..(k + 1))
        PROVE  more[t] = IF t = {} THEN b ELSE S(more[t \ {Max(t)}], s[Max(t)])
    <3>1. CASE k + 1 \in t
      <4>1. Max(t) = k + 1
        <5>1. Max(t) \in t /\ \A x \in t : x <= Max(t)
          <6>1. k + 1 \in Nat /\ t # {}
            BY <3>1
          <6>. QED
            BY <6>1, MaxIsIn
        <5>2. Max(t) \in 1..(k + 1) /\ k + 1 <= Max(t)
          BY <3>1, <5>1
        <5>. QED
          BY <5>2
      <4>2. t \ {k + 1} \in SUBSET (1..k) /\ t \ {k + 1} \in SUBSET (1..(k + 1))
            /\ k + 1 \notin t \ {k + 1}
        OBVIOUS
      <4>3. more[t \ {k + 1}] = it[t \ {k + 1}]
        BY <4>2
      <4>4. more[t] = S(it[t \ {k + 1}], s[k + 1])
        BY <3>1
      <4>. HIDE DEF more
      <4>. QED
        BY <3>1, <4>1, <4>3, <4>4
    <3>2. CASE k + 1 \notin t
      <4>1. t \in SUBSET (1..k)
        BY <3>2
      <4>2. more[t] = it[t] /\ it[t] = Body(it, k)[t]
        BY <2>1, <3>2
      <4>3. ASSUME t # {} PROVE more[t \ {Max(t)}] = it[t \ {Max(t)}]
        BY <3>2
      <4>. HIDE DEF more
      <4>. QED
        BY <4>1, <4>2, <4>3
    <3>. QED
      BY <3>1, <3>2
  <2>3. more = Body(more, k + 1)
    <3>1. more = [t \in SUBSET (1..(k + 1)) |-> more[t]]
      OBVIOUS
    <3>. HIDE DEF more
    <3>. QED
      BY <2>2, <3>1
  <2>. HIDE DEF more, Body
  <2>. QED
    BY <2>3
<1>5. n \in T
  <2>1. T \in SUBSET Nat
    OBVIOUS
  <2>. HIDE DEF T
  <2>. QED
    BY <1>1, <1>3, <1>4, <2>1, SetInduction
<1>6. PICK f : /\ f = Body(f, n)
               /\ fold = f[1..n]
  <2>1. \E it : it = Body(it, n)
    BY <1>5
  <2>. QED
    BY <1>1, <1>2, <2>1
<1>7. f[1..0] = b
  <2>1. 1..0 = {}
    OBVIOUS
  <2>. QED
    BY <1>6, <2>1
<1>8. ASSUME NEW k \in 1..n PROVE f[1..k] = S(f[1..(k - 1)], s[k])
  <2>1. /\ 1..k \in SUBSET (1..n) /\ 1..k # {}
        /\ Max(1..k) = k /\ (1..k) \ {k} = 1..(k - 1)
    BY <1>1, UptoOneMore
  <2>2. f[1..k] = Body(f, n)[1..k]
    BY <1>6
  <2>. QED
    BY <2>1, <2>2
<1>. DEFINE g == [k \in 0..n |-> f[1..k]]
<1>. HIDE DEF Body
<1>9. g[0] = b /\ fold = g[n]
  BY <1>1, <1>6, <1>7
<1>10. \A k \in 1..n : g[k] = S(g[k - 1], s[k])
  BY <1>1, <1>8
<1>. HIDE DEF g
<1>. QED
  BY <1>9, <1>10 DEF n, s, b, S, fold, LinkRun

(* The character as the link behind the first k links sees it, and whether *)
(* link i lets it through.                                                 *)
Seen(links, c, k) ==
  IF \E j \in 1..k : links[j].kind = "lc" THEN LowerCase(c)
  ELSE IF \E j \in 1..k : links[j].kind = "uc" THEN UpperCase(c) ELSE c
AdmitsAt(links, c, i) ==
  /\ links[i].kind = "allow" => Seen(links, c, i - 1) \in Range(links[i].chars)
  /\ links[i].kind = "disallow" => Seen(links, c, i - 1) \notin Range(links[i].chars)
Strict(links) == \E i \in DOMAIN links : links[i].strict

(* What the filters leave of a character.                                  *)
Sifted(p, links, c, i) ==
  /\ p.i = i
  /\ Admitted(links, c) => p.verdict = "pass" /\ p.c = Cased(links, c)
  /\ ~Admitted(links, c) => p.verdict = IF Strict(links) THEN "throw" ELSE "drop"

(* What a link of a filter is. *)
LEMMA FilterLinkIs ==
  ASSUME NEW links, FilterLinks(links)
  PROVE  /\ links \in Seq(Links(CaseFilters \cup Refusals))
         /\ DOMAIN links = 1..Len(links) /\ Len(links) \in Nat
         /\ \A i \in 1..Len(links) :
              /\ links[i].kind \in {"lc", "uc", "allow", "disallow"}
              /\ links[i].kind \in {"allow", "disallow"} => (links[i].strict <=> Strict(links))
              /\ \A j \in 1..Len(links) :
                   links[i].kind \in {"lc", "uc"} /\ links[j].kind \in {"lc", "uc"} => i = j
<1>1. links \in Seq(Links(CaseFilters \cup Refusals))
  BY DEF FilterLinks
<1>2. DOMAIN links = 1..Len(links) /\ Len(links) \in Nat
  BY <1>1
<1>3. ASSUME NEW i \in 1..Len(links)
      PROVE  links[i].kind \in CaseFilters \cup Refusals
  <2>1. links[i] \in Links(CaseFilters \cup Refusals)
    BY <1>1
  <2>. QED
    BY <2>1 DEF Links
<1>4. ASSUME NEW i \in 1..Len(links), links[i].kind \in Refusals
      PROVE  links[i].strict <=> Strict(links)
  <2>1. ASSUME Strict(links) PROVE links[i].strict
    <3>1. PICK j \in DOMAIN links : links[j].strict
      BY <2>1 DEF Strict
    <3>. QED
      BY <1>2, <1>4, <3>1 DEF FilterLinks
  <2>2. ASSUME links[i].strict PROVE Strict(links)
    BY <1>2, <2>2 DEF Strict
  <2>. QED
    BY <2>1, <2>2
<1>5. ASSUME NEW i \in 1..Len(links), NEW j \in 1..Len(links),
             links[i].kind \in CaseFilters, links[j].kind \in CaseFilters
      PROVE  i = j
  BY <1>2, <1>5 DEF FilterLinks
<1>. QED
  BY <1>1, <1>2, <1>3, <1>4, <1>5 DEF CaseFilters, Refusals

(* The next link, of a character that all k links before it let through.   *)
PassedOn(q, links, c, i, k) ==
  /\ AdmitsAt(links, c, k + 1) =>
       q = [c |-> Seen(links, c, k + 1), verdict |-> "pass", i |-> i]
  /\ ~AdmitsAt(links, c, k + 1) =>
       q.i = i /\ q.verdict = IF Strict(links) THEN "throw" ELSE "drop"

(* That is what it does. *)
LEMMA LinkPasses ==
  ASSUME NEW links, FilterLinks(links), NEW c, NEW i, NEW k \in Nat, k + 1 <= Len(links),
         NEW p, p = [c |-> Seen(links, c, k), verdict |-> "pass", i |-> i]
  PROVE  PassedOn(Pass(links[k + 1], p), links, c, i, k)
<1>. DEFINE link == links[k + 1]
            seen == Seen(links, c, k)
            refusal == IF Strict(links) THEN "throw" ELSE "drop"
<1>0. k + 1 \in 1..Len(links) /\ k + 1 - 1 = k /\ \A j \in 1..(k + 1) : j \in 1..k \/ j = k + 1
  OBVIOUS
<1>1. /\ link.kind \in {"lc", "uc", "allow", "disallow"}
      /\ link.kind \in {"allow", "disallow"} => (link.strict <=> Strict(links))
  BY <1>0, FilterLinkIs
<1>2. CASE link.kind \in {"lc", "uc"}
  <2>1. \A j \in 1..k : links[j].kind \notin {"lc", "uc"}
    <3>1. \A j \in 1..k : j \in 1..Len(links) /\ j # k + 1
      BY <1>0
    <3>. QED
      BY <1>0, <1>2, <3>1, FilterLinkIs
  <2>2. seen = c
    BY <2>1 DEF Seen
  <2>3. Seen(links, c, k + 1) = IF link.kind = "lc" THEN LowerCase(c) ELSE UpperCase(c)
    BY <1>0, <1>2, <2>1 DEF Seen
  <2>4. AdmitsAt(links, c, k + 1)
    BY <1>2 DEF AdmitsAt
  <2>5. Pass(link, p) = [p EXCEPT !.c = IF link.kind = "lc" THEN LowerCase(@)
                                        ELSE UpperCase(@)]
    BY <1>2 DEF Pass
  <2>. HIDE DEF seen, link
  <2>6. Pass(link, p) = [c |-> Seen(links, c, k + 1), verdict |-> "pass", i |-> i]
    BY <2>2, <2>3, <2>5 DEF seen
  <2>. QED
    BY <2>4, <2>6 DEF link, PassedOn
<1>3. CASE link.kind \in {"allow", "disallow"}
  <2>1. Seen(links, c, k + 1) = seen
    <3>1. (\E j \in 1..(k + 1) : links[j].kind = "lc") <=> \E j \in 1..k : links[j].kind = "lc"
      BY <1>0, <1>3
    <3>2. (\E j \in 1..(k + 1) : links[j].kind = "uc") <=> \E j \in 1..k : links[j].kind = "uc"
      BY <1>0, <1>3
    <3>. QED
      BY <3>1, <3>2 DEF Seen
  <2>2. AdmitsAt(links, c, k + 1) <=> IF link.kind = "allow" THEN seen \in Range(link.chars)
                                      ELSE seen \notin Range(link.chars)
    BY <1>0, <1>3 DEF AdmitsAt
  <2>3. p.c = seen /\ p.verdict = "pass" /\ p.i = i
    OBVIOUS
  <2>. HIDE DEF seen, link
  <2>4. Pass(link, p) = IF AdmitsAt(links, c, k + 1) THEN p
                        ELSE [p EXCEPT !.verdict = IF link.strict THEN "throw" ELSE "drop"]
    BY <1>3, <2>2, <2>3 DEF Pass
  <2>5. [p EXCEPT !.verdict = refusal] = [c |-> seen, i |-> i, verdict |-> refusal]
    <3>. HIDE DEF refusal
    <3>. QED
      BY DEF seen
  <2>6. (IF link.strict THEN "throw" ELSE "drop") = refusal
    BY <1>1, <1>3
  <2>7. ASSUME ~AdmitsAt(links, c, k + 1)
        PROVE  Pass(link, p).i = i /\ Pass(link, p).verdict = refusal
    <3>1. Pass(link, p) = [c |-> seen, i |-> i, verdict |-> refusal]
      BY <2>4, <2>5, <2>6, <2>7
    <3>. HIDE DEF refusal
    <3>. QED
      BY <3>1
  <2>8. ASSUME AdmitsAt(links, c, k + 1) PROVE Pass(link, p) = p
    BY <2>4, <2>8
  <2>. QED
    BY <2>1, <2>3, <2>7, <2>8 DEF seen, link, PassedOn
<1>. QED
  BY <1>1, <1>2, <1>3

(* The filters let through what is admitted. *)
LEMMA FiltersSift ==
  ASSUME NEW links, FilterLinks(links), NEW c, NEW i
  PROVE  Sifted(FoldLeft(LAMBDA acc, link : Pass(link, acc),
                         [c |-> c, verdict |-> "pass", i |-> i], links), links, c, i)
<1>. DEFINE b == [c |-> c, verdict |-> "pass", i |-> i]
            refusal == IF Strict(links) THEN "throw" ELSE "drop"
            n == Len(links)
<1>1. links \in Seq(Links(CaseFilters \cup Refusals)) /\ DOMAIN links = 1..n /\ n \in Nat
  BY FilterLinkIs
<1>2. PICK f : /\ LinkRun(f, links, b)
               /\ FoldLeft(LAMBDA acc, link : Pass(link, acc), b, links) = f[n]
  BY <1>1, LinksRun
<1>3. f[0] = b /\ \A k \in 1..n : f[k] = Pass(links[k], f[k - 1])
  BY <1>2 DEF LinkRun
<1>. DEFINE Open(k) == /\ \A j \in 1..k : AdmitsAt(links, c, j)
                       /\ f[k] = [c |-> Seen(links, c, k), verdict |-> "pass", i |-> i]
            Shut(k) == /\ \E j \in 1..k : ~AdmitsAt(links, c, j)
                       /\ f[k].verdict = refusal /\ f[k].i = i
            T == {k \in Nat : k <= n => Open(k) \/ Shut(k)}
<1>. HIDE DEF n
<1>4. 0 \in T
  <2>1. Seen(links, c, 0) = c
    BY DEF Seen
  <2>. QED
    BY <1>3, <2>1
<1>5. ASSUME NEW k \in T PROVE k + 1 \in T
  <2>. SUFFICES ASSUME k + 1 <= n PROVE Open(k + 1) \/ Shut(k + 1)
    OBVIOUS
  <2>0. /\ k \in Nat /\ k <= n /\ k + 1 \in 1..n /\ k + 1 - 1 = k /\ k + 1 \in 1..(k + 1)
        /\ \A j \in 1..(k + 1) : j \in 1..k \/ j = k + 1
        /\ \A j \in 1..k : j \in 1..(k + 1)
    BY <1>1
  <2>1. f[k + 1] = Pass(links[k + 1], f[k])
    BY <1>3, <2>0
  <2>2. CASE Open(k)
    <3>1. PICK p : p = f[k]
      OBVIOUS
    <3>2. p = [c |-> Seen(links, c, k), verdict |-> "pass", i |-> i]
      BY <2>2, <3>1
    <3>9. PassedOn(f[k + 1], links, c, i, k)
      BY <2>0, <2>1, <3>1, <3>2, LinkPasses DEF n
    <3>3. CASE AdmitsAt(links, c, k + 1)
      <4>1. f[k + 1] = [c |-> Seen(links, c, k + 1), verdict |-> "pass", i |-> i]
        BY <3>3, <3>9 DEF PassedOn
      <4>. QED
        BY <2>0, <2>2, <3>3, <4>1
    <3>4. CASE ~AdmitsAt(links, c, k + 1)
      <4>2. f[k + 1].verdict = refusal /\ f[k + 1].i = i
        BY <3>4, <3>9 DEF PassedOn
      <4>. QED
        BY <2>0, <3>4, <4>2
    <3>. QED
      BY <3>3, <3>4
  <2>3. CASE Shut(k)
    <3>1. f[k].verdict # "pass"
      BY <2>3
    <3>2. f[k + 1] = f[k]
      BY <2>1, <3>1 DEF Pass
    <3>. QED
      BY <2>0, <2>3, <3>2
  <2>. QED
    BY <2>0, <2>2, <2>3
<1>6. Open(n) \/ Shut(n)
  <2>1. T \in SUBSET Nat
    OBVIOUS
  <2>2. T = Nat
    <3>. HIDE DEF T
    <3>. QED
      BY <1>4, <1>5, <2>1, SetInduction
  <2>3. n \in T
    BY <1>1, <2>2
  <2>. QED
    BY <1>1, <2>3
<1>. HIDE DEF T
<1>7. Admitted(links, c) <=> \A j \in 1..n : AdmitsAt(links, c, j)
  BY <1>1 DEF Admitted, AdmitsAt, Seen, n
<1>8. Cased(links, c) = Seen(links, c, n)
  BY <1>1 DEF Cased, Seen, n
<1>9. CASE Open(n)
  <2>1. f[n].verdict = "pass" /\ f[n].c = Cased(links, c) /\ f[n].i = i
    BY <1>8, <1>9
  <2>. QED
    BY <1>2, <1>7, <1>9, <2>1 DEF Sifted, n
<1>10. CASE Shut(n)
  BY <1>2, <1>7, <1>10 DEF Sifted, n
<1>. QED
  BY <1>6, <1>9, <1>10

-----------------------------------------------------------------------------
(* The sinks. *)

(* Everything but the trimmings is as it was.                              *)
SameOtherwise(t, u) ==
  /\ t.failed <=> u.failed
  /\ t.bailed <=> u.bailed
  /\ t.i = u.i

(* The collector takes a character. *)
LEMMA CollectorIs ==
  ASSUME NEW C, NEW u \in Tasks(C), NEW c \in C, NEW t, t = CollectorTakes(u, c)
  PROVE  /\ t \in Tasks(C) /\ t.out = Append(u.out, c) /\ SameOtherwise(t, u)
<1>. DEFINE out == Append(u.out, c)
<1>1. out \in Seq(C)
  BY DEF Tasks
<1>2. t = [u EXCEPT !.out = out]
  BY DEF CollectorTakes
<1>. HIDE DEF out
<1>3. t \in Tasks(C)
  BY <1>1, <1>2 DEF Tasks
<1>4. t.out = out /\ t.failed = u.failed /\ t.bailed = u.bailed /\ t.i = u.i
  BY <1>2 DEF Tasks
<1>. QED
  BY <1>3, <1>4 DEF out, SameOtherwise

(* What the trimmer makes of a character.                                  *)
TrimmedAs(t, u, c) ==
  /\ SameOtherwise(t, u)
  /\ u.l_trimming /\ c \in Whitespace => t = u
  /\ u.l_trimming /\ c \notin Whitespace =>
       /\ t.out = Append(u.out, c) /\ ~t.l_trimming /\ (t.r_trimming <=> u.r_trimming)
       /\ t.r_trim = u.r_trim
  /\ ~u.l_trimming /\ c \in Whitespace =>
       /\ t.out = u.out /\ ~t.l_trimming /\ t.r_trimming /\ t.r_trim = Append(u.r_trim, c)
  /\ ~u.l_trimming /\ c \notin Whitespace =>
       /\ u.r_trimming => t.out = Append(u.out \o u.r_trim, c)
       /\ ~u.r_trimming => t.out = Append(u.out, c)
       /\ ~t.l_trimming /\ ~t.r_trimming /\ t.r_trim = u.r_trim

(* That is what TrimPerform does. *)
LEMMA TrimmerIs ==
  ASSUME NEW C, NEW u \in Tasks(C), NEW c \in C, NEW t, t = TrimPerform(u, c)
  PROVE  t \in Tasks(C) /\ TrimmedAs(t, u, c)
<1>1. CASE u.l_trimming /\ c \in Whitespace
  BY <1>1 DEF TrimPerform, TrimmedAs, SameOtherwise
<1>2. CASE u.l_trimming /\ c \notin Whitespace
  <2>. DEFINE out == Append(u.out, c)
  <2>1. out \in Seq(C)
    BY DEF Tasks
  <2>2. t = [[u EXCEPT !.l_trimming = FALSE] EXCEPT !.out = out]
    <3>1. t = CollectorTakes([u EXCEPT !.l_trimming = FALSE], c)
      BY <1>2 DEF TrimPerform
    <3>2. [u EXCEPT !.l_trimming = FALSE].out = u.out
      BY DEF Tasks
    <3>. QED
      BY <3>1, <3>2 DEF CollectorTakes
  <2>. HIDE DEF out
  <2>3. t \in Tasks(C)
    BY <2>1, <2>2 DEF Tasks
  <2>4. /\ t.out = out /\ t.failed = u.failed /\ t.bailed = u.bailed /\ t.i = u.i
        /\ t.l_trimming = FALSE /\ t.r_trimming = u.r_trimming /\ t.r_trim = u.r_trim
    BY <2>2 DEF Tasks
  <2>. QED
    BY <1>2, <2>3, <2>4 DEF TrimmedAs, SameOtherwise, out
<1>3. CASE ~u.l_trimming /\ c \in Whitespace
  <2>. DEFINE r_trim == Append(u.r_trim, c)
  <2>1. r_trim \in Seq(C)
    BY DEF Tasks
  <2>2. t = [u EXCEPT !.r_trimming = TRUE, !.r_trim = r_trim]
    BY <1>3 DEF TrimPerform
  <2>. HIDE DEF r_trim
  <2>3. t \in Tasks(C)
    BY <2>1, <2>2 DEF Tasks
  <2>4. /\ t.out = u.out /\ t.failed = u.failed /\ t.bailed = u.bailed /\ t.i = u.i
        /\ t.l_trimming = u.l_trimming /\ t.r_trimming = TRUE /\ t.r_trim = r_trim
    BY <2>2 DEF Tasks
  <2>. QED
    BY <1>3, <2>3, <2>4 DEF TrimmedAs, SameOtherwise, r_trim
<1>4. CASE ~u.l_trimming /\ c \notin Whitespace
  <2>. DEFINE flushed == IF u.r_trimming THEN u.out \o u.r_trim ELSE u.out
              out == Append(flushed, c)
              v == [u EXCEPT !.r_trimming = FALSE, !.out = flushed]
  <2>1. flushed \in Seq(C)
    BY DEF Tasks
  <2>2. t = CollectorTakes(v, c)
    BY <1>4 DEF TrimPerform
  <2>3. (u.r_trimming => flushed = u.out \o u.r_trim) /\ (~u.r_trimming => flushed = u.out)
    OBVIOUS
  <2>. HIDE DEF flushed
  <2>4. v \in Tasks(C)
    BY <2>1 DEF Tasks
  <2>5. /\ v.out = flushed /\ v.failed = u.failed /\ v.bailed = u.bailed /\ v.i = u.i
        /\ v.l_trimming = u.l_trimming /\ v.r_trimming = FALSE /\ v.r_trim = u.r_trim
    BY DEF Tasks
  <2>. HIDE DEF v
  <2>6. out \in Seq(C)
    BY <2>1
  <2>7. t = [v EXCEPT !.out = out]
    BY <2>2, <2>5 DEF CollectorTakes
  <2>. HIDE DEF out
  <2>8. t \in Tasks(C)
    BY <2>4, <2>6, <2>7 DEF Tasks
  <2>9. /\ t.out = out /\ t.failed = v.failed /\ t.bailed = v.bailed /\ t.i = v.i
        /\ t.l_trimming = v.l_trimming /\ t.r_trimming = v.r_trimming /\ t.r_trim = v.r_trim
    BY <2>4, <2>7 DEF Tasks
  <2>. QED
    BY <1>4, <2>3, <2>5, <2>8, <2>9 DEF TrimmedAs, SameOtherwise, out
<1>. QED
  BY <1>1, <1>2, <1>3, <1>4

(* What the extractor makes of a character, the last one of the call or    *)
(* not.                                                                    *)
Quote == "\""
ExtractedAs(t, u, c, last) ==
  /\ t.bailed <=> u.bailed
  /\ u.l_trimming /\ c \in Whitespace => t = u
  /\ u.l_trimming /\ c \notin Whitespace /\ c = Quote =>
       /\ t.out = u.out /\ (t.failed <=> u.failed) /\ ~t.l_trimming
       /\ (t.r_trimming <=> u.r_trimming)
       /\ t.read_until = u.read_until /\ t.right_of_token = u.right_of_token
  /\ u.l_trimming /\ c \notin Whitespace /\ c # Quote /\ last =>
       /\ t.out = Append(u.out, c) /\ (t.failed <=> u.failed) /\ t.l_trimming
       /\ (t.r_trimming <=> u.r_trimming)
       /\ t.read_until = u.read_until /\ t.right_of_token = u.right_of_token
  /\ u.l_trimming /\ c \notin Whitespace /\ c # Quote /\ ~last => t.failed
  /\ ~u.l_trimming /\ c = Quote =>
       /\ t.out = u.out /\ (t.failed <=> u.failed) /\ ~t.l_trimming /\ t.r_trimming
       /\ t.read_until = u.read_until /\ t.right_of_token = u.right_of_token
  /\ ~u.l_trimming /\ c # Quote /\ ~u.r_trimming =>
       /\ t.out = Append(u.out, c) /\ (t.failed <=> u.failed) /\ ~t.l_trimming
       /\ ~t.r_trimming
       /\ t.read_until = u.read_until /\ t.right_of_token = u.right_of_token
  /\ ~u.l_trimming /\ c # Quote /\ u.r_trimming /\ last =>
       /\ t.out = u.out /\ (t.failed <=> u.failed) /\ ~t.l_trimming /\ t.r_trimming
       /\ t.read_until = <<c>> /\ t.right_of_token = u.right_of_token
  /\ ~u.l_trimming /\ c # Quote /\ u.r_trimming /\ ~last /\ c \in Whitespace => t = u
  /\ ~u.l_trimming /\ c # Quote /\ u.r_trimming /\ ~last /\ c \notin Whitespace =>
       /\ t.out = u.out /\ (t.failed <=> u.failed) /\ ~t.l_trimming /\ t.r_trimming
       /\ t.read_until = u.read_until /\ t.right_of_token = <<c>>

(* That is what ExtractPerform does. *)
LEMMA ExtractorIs ==
  ASSUME NEW C, NEW u \in Tasks(C), NEW c \in C, NEW state,
         NEW t, t = ExtractPerform(u, c, Quote, Quote, state)
  PROVE  t \in Tasks(C) /\ ExtractedAs(t, u, c, state = "at_last")
<1>0. <<c>> \in Seq(C)
  OBVIOUS
<1>. DEFINE out == Append(u.out, c)
<1>1. out \in Seq(C)
  BY DEF Tasks
<1>2. CASE u.l_trimming /\ c \in Whitespace
  BY <1>2 DEF ExtractPerform, ExtractedAs
<1>3. CASE u.l_trimming /\ c \notin Whitespace /\ c = Quote
  <2>1. t = [u EXCEPT !.l_trimming = FALSE]
    BY <1>3 DEF ExtractPerform
  <2>2. t \in Tasks(C)
    BY <2>1 DEF Tasks
  <2>3. /\ t.out = u.out /\ t.failed = u.failed /\ t.bailed = u.bailed
        /\ t.l_trimming = FALSE /\ t.r_trimming = u.r_trimming
        /\ t.read_until = u.read_until /\ t.right_of_token = u.right_of_token
    BY <2>1 DEF Tasks
  <2>. QED
    BY <1>3, <2>2, <2>3 DEF ExtractedAs
<1>4. CASE \/ u.l_trimming /\ c \notin Whitespace /\ c # Quote /\ state = "at_last"
           \/ ~u.l_trimming /\ c # Quote /\ ~u.r_trimming
  <2>1. t = [u EXCEPT !.out = out]
    <3>1. t = CollectorTakes(u, c)
      BY <1>4 DEF ExtractPerform
    <3>. QED
      BY <3>1 DEF CollectorTakes
  <2>. HIDE DEF out
  <2>2. t \in Tasks(C)
    BY <1>1, <2>1 DEF Tasks
  <2>3. /\ t.out = out /\ t.failed = u.failed /\ t.bailed = u.bailed
        /\ t.l_trimming = u.l_trimming /\ t.r_trimming = u.r_trimming
        /\ t.read_until = u.read_until /\ t.right_of_token = u.right_of_token
    BY <2>1 DEF Tasks
  <2>. QED
    BY <1>4, <2>2, <2>3 DEF ExtractedAs, out
<1>5. CASE u.l_trimming /\ c \notin Whitespace /\ c # Quote /\ ~(state = "at_last")
  <2>1. t = [u EXCEPT !.failed = TRUE]
    BY <1>5 DEF ExtractPerform
  <2>2. t \in Tasks(C) /\ t.failed = TRUE /\ t.bailed = u.bailed
    BY <2>1 DEF Tasks
  <2>. QED
    BY <1>5, <2>2 DEF ExtractedAs
<1>6. CASE ~u.l_trimming /\ c = Quote
  <2>1. t = [u EXCEPT !.r_trimming = TRUE]
    BY <1>6 DEF ExtractPerform
  <2>2. t \in Tasks(C)
    BY <2>1 DEF Tasks
  <2>3. /\ t.out = u.out /\ t.failed = u.failed /\ t.bailed = u.bailed
        /\ t.l_trimming = u.l_trimming /\ t.r_trimming = TRUE
        /\ t.read_until = u.read_until /\ t.right_of_token = u.right_of_token
    BY <2>1 DEF Tasks
  <2>. QED
    BY <1>6, <2>2, <2>3 DEF ExtractedAs
<1>7. CASE ~u.l_trimming /\ c # Quote /\ u.r_trimming /\ state = "at_last"
  <2>1. t = [u EXCEPT !.read_until = <<c>>]
    BY <1>7 DEF ExtractPerform
  <2>2. t \in Tasks(C)
    BY <1>0, <2>1 DEF Tasks
  <2>3. /\ t.out = u.out /\ t.failed = u.failed /\ t.bailed = u.bailed
        /\ t.l_trimming = u.l_trimming /\ t.r_trimming = u.r_trimming
        /\ t.read_until = <<c>> /\ t.right_of_token = u.right_of_token
    BY <2>1 DEF Tasks
  <2>. QED
    BY <1>7, <2>2, <2>3 DEF ExtractedAs
<1>8. CASE ~u.l_trimming /\ c # Quote /\ u.r_trimming /\ ~(state = "at_last")
           /\ c \in Whitespace
  BY <1>8 DEF ExtractPerform, ExtractedAs
<1>9. CASE ~u.l_trimming /\ c # Quote /\ u.r_trimming /\ ~(state = "at_last")
           /\ c \notin Whitespace
  <2>1. t = [u EXCEPT !.right_of_token = <<c>>]
    BY <1>9 DEF ExtractPerform
  <2>2. t \in Tasks(C)
    BY <1>0, <2>1 DEF Tasks
  <2>3. /\ t.out = u.out /\ t.failed = u.failed /\ t.bailed = u.bailed
        /\ t.l_trimming = u.l_trimming /\ t.r_trimming = u.r_trimming
        /\ t.read_until = u.read_until /\ t.right_of_token = <<c>>
    BY <2>1 DEF Tasks
  <2>. QED
    BY <1>9, <2>2, <2>3 DEF ExtractedAs
<1>. HIDE DEF out
<1>. QED
  BY <1>2, <1>3, <1>4, <1>5, <1>6, <1>7, <1>8, <1>9

(* What the filters let through reaches the sink.                          *)
SunkAs(t, u, p, state, sink) ==
  /\ p.verdict = "throw" => t.failed /\ t.i = u.i
  /\ p.verdict = "drop" => t = u
  /\ p.verdict = "pass" /\ sink = "collect" =>
       t.out = Append(u.out, p.c) /\ SameOtherwise(t, u)
  /\ p.verdict = "pass" /\ sink = "trim" => TrimmedAs(t, u, p.c)
  /\ p.verdict = "pass" /\ sink = "extract" => ExtractedAs(t, u, p.c, state = "at_last")
Sinks == {"collect", "trim", "extract"}

(* That is what the sink does. *)
LEMMA SunkIs ==
  ASSUME NEW C, NEW u \in Tasks(C), ~u.bailed, NEW p,
         p.verdict \in {"pass", "drop", "throw"}, p.verdict = "pass" => p.c \in C,
         NEW state, NEW sink \in Sinks, NEW t, t = Sunk(u, p, state, sink)
  PROVE  t \in Tasks(C) /\ ~t.bailed /\ SunkAs(t, u, p, state, sink)
<1>1. CASE p.verdict = "throw"
  <2>1. t = [u EXCEPT !.failed = TRUE]
    BY <1>1 DEF Sunk
  <2>2. t \in Tasks(C) /\ t.failed = TRUE /\ t.bailed = u.bailed /\ t.i = u.i
    BY <2>1 DEF Tasks
  <2>. QED
    BY <1>1, <2>2 DEF SunkAs
<1>2. CASE p.verdict = "drop"
  <2>1. t = u
    BY <1>2 DEF Sunk
  <2>. QED
    BY <1>2, <2>1 DEF SunkAs
<1>3. CASE p.verdict = "pass" /\ sink = "collect"
  <2>1. t = CollectorTakes(u, p.c)
    BY <1>3 DEF Sunk
  <2>2. PICK c \in C : c = p.c
    BY <1>3
  <2>3. t \in Tasks(C) /\ t.out = Append(u.out, p.c) /\ SameOtherwise(t, u)
    BY <2>1, <2>2, CollectorIs
  <2>. QED
    BY <1>3, <2>3 DEF SunkAs, SameOtherwise
<1>4. CASE p.verdict = "pass" /\ sink = "trim"
  <2>1. t = TrimPerform(u, p.c)
    BY <1>4 DEF Sunk
  <2>2. PICK c \in C : c = p.c
    BY <1>4
  <2>3. t \in Tasks(C) /\ TrimmedAs(t, u, p.c)
    BY <2>1, <2>2, TrimmerIs
  <2>4. ~t.bailed
    BY <2>3 DEF TrimmedAs, SameOtherwise
  <2>. QED
    BY <1>4, <2>3, <2>4 DEF SunkAs
<1>5. CASE p.verdict = "pass" /\ sink = "extract"
  <2>1. t = ExtractPerform(u, p.c, Quote, Quote, state)
    BY <1>5 DEF Sunk, Quote
  <2>2. PICK c \in C : c = p.c
    BY <1>5
  <2>3. t \in Tasks(C) /\ ExtractedAs(t, u, p.c, state = "at_last")
    BY <2>1, <2>2, ExtractorIs
  <2>4. ~t.bailed
    BY <2>3 DEF ExtractedAs
  <2>. QED
    BY <1>5, <2>3, <2>4 DEF SunkAs
<1>. QED
  BY <1>1, <1>2, <1>3, <1>4, <1>5 DEF Sinks

(* What a sink makes of a character.                                       *)
Takes(t, u, c, sink, last) ==
  /\ sink = "collect" => t.out = Append(u.out, c) /\ SameOtherwise(t, u)
  /\ sink = "trim" => TrimmedAs(t, u, c)
  /\ sink = "extract" => ExtractedAs(t, u, c, last)

(* What a task behind filters makes of one.                                *)
PerformedAs(t, u, links, c, sink, last) ==
  /\ ~Admitted(links, c) /\ Strict(links) => t.failed
  /\ ~Admitted(links, c) /\ ~Strict(links) => t = u
  /\ Admitted(links, c) => Takes(t, u, Cased(links, c), sink, last)

(* That is what perform does with one character. *)
LEMMA FiltersPerform ==
  ASSUME NEW links, FilterLinks(links), NEW u \in Tasks(Letters), ~u.bailed,
         NEW c \in Character,
         NEW state, NEW sink \in Sinks, NEW t, t = perform(u, c, state, links, sink)
  PROVE  /\ t \in Tasks(Letters) /\ ~t.bailed
         /\ PerformedAs(t, u, links, c, sink, state = "at_last")
<1>1. PICK p : p = FoldLeft(LAMBDA acc, link : Pass(link, acc),
                            [c |-> c, verdict |-> "pass", i |-> u.i], links)
  OBVIOUS
<1>2. Sifted(p, links, c, u.i)
  BY <1>1, FiltersSift
<1>3. t = Filtering(u, p, state, sink)
  BY <1>1 DEF perform
<1>4. p.i = u.i /\ p.verdict \in {"pass", "drop", "throw"}
  BY <1>2 DEF Sifted
<1>5. p.verdict = "pass" => p.c \in Letters
  <2>1. p.verdict = "pass" => p.c = Cased(links, c)
    BY <1>2 DEF Sifted
  <2>2. Cased(links, c) \in Letters
    <3>1. LowerCase(c) \in Letters /\ UpperCase(c) \in Letters /\ c \in Letters
      BY DEF Letters
    <3>. QED
      BY <3>1 DEF Cased
  <2>. QED
    BY <2>1, <2>2
<1>6. [u EXCEPT !.i = p.i, !.bailed = p.verdict = "bail"] = u
  <2>1. (p.verdict = "bail") = FALSE /\ u.bailed = FALSE
    BY <1>4 DEF Tasks
  <2>. QED
    BY <1>4, <2>1 DEF Tasks
<1>7. t = Sunk(u, p, state, sink)
  BY <1>3, <1>6 DEF Filtering
<1>8. t \in Tasks(Letters) /\ ~t.bailed /\ SunkAs(t, u, p, state, sink)
  BY <1>4, <1>5, <1>7, SunkIs
<1>9. ~Admitted(links, c) /\ Strict(links) => t.failed
  BY <1>2, <1>8 DEF Sifted, SunkAs
<1>10. ~Admitted(links, c) /\ ~Strict(links) => t = u
  BY <1>2, <1>8 DEF Sifted, SunkAs
<1>11. Admitted(links, c) => Takes(t, u, Cased(links, c), sink, state = "at_last")
  BY <1>2, <1>8 DEF Sifted, SunkAs, Takes
<1>. QED
  BY <1>8, <1>9, <1>10, <1>11 DEF PerformedAs

-----------------------------------------------------------------------------
(* A read of a task: a call, and the flush of what it left. *)

(* What the call begins with.                                              *)
Beginning(links, task) ==
  [(IF links = <<>> THEN Initialized(task) ELSE [task EXCEPT !.out = <<>>])
      EXCEPT !.failed = FALSE]
AsNew(task) ==
  /\ ~task.bailed /\ task.l_trimming /\ ~task.r_trimming
  /\ task.read_until = <<>> /\ task.right_of_token = <<>>
BegunAs(b, links, task) ==
  /\ b \in Tasks(Letters) /\ b.out = <<>> /\ ~b.failed
  /\ b.r_trim = task.r_trim /\ b.i = task.i
  /\ ~task.bailed => ~b.bailed
  /\ links = <<>> \/ AsNew(task) =>
       /\ ~b.bailed /\ b.l_trimming /\ ~b.r_trimming
       /\ b.read_until = <<>> /\ b.right_of_token = <<>>

(* A task without filters is initialized. *)
LEMMA InitializedIs ==
  ASSUME NEW C, NEW task \in Tasks(C)
  PROVE  \E t : /\ t = Initialized(task)
               /\ t \in Tasks(C) /\ t.out = <<>> /\ t.r_trim = task.r_trim /\ t.i = task.i
               /\ ~t.failed /\ ~t.bailed /\ t.l_trimming /\ ~t.r_trimming
               /\ t.read_until = <<>> /\ t.right_of_token = <<>>
<1>1. PICK n : n = NewTask
  OBVIOUS
<1>2. n \in Tasks(C)
  BY <1>1, NewTaskType
<1>3. n.out = <<>> /\ n.read_until = <<>> /\ n.right_of_token = <<>>
  BY <1>1 DEF NewTask
<1>4. ~n.failed /\ ~n.bailed /\ n.l_trimming /\ ~n.r_trimming
  BY <1>1 DEF NewTask
<1>5. PICK t : t = Initialized(task)
  OBVIOUS
<1>6. t = [n EXCEPT !.r_trim = task.r_trim, !.i = task.i]
  BY <1>1, <1>5 DEF Initialized
<1>7. t \in Tasks(C)
  BY <1>2, <1>6 DEF Tasks
<1>8. t.out = n.out /\ t.r_trim = task.r_trim /\ t.i = task.i
      /\ t.read_until = n.read_until /\ t.right_of_token = n.right_of_token
      /\ t.failed = n.failed /\ t.bailed = n.bailed
      /\ t.l_trimming = n.l_trimming /\ t.r_trimming = n.r_trimming
  BY <1>2, <1>6 DEF Tasks
<1>. QED
  BY <1>3, <1>4, <1>5, <1>7, <1>8

(* A call begins with nothing read. *)
LEMMA BeginningIs ==
  ASSUME NEW links, NEW task \in Tasks(Letters)
  PROVE  BegunAs(Beginning(links, task), links, task)
<1>1. PICK b : b = Beginning(links, task)
  OBVIOUS
<1>2. CASE links = <<>>
  <2>1. \E x : /\ x = Initialized(task)
              /\ x \in Tasks(Letters) /\ x.out = <<>> /\ x.r_trim = task.r_trim
              /\ x.i = task.i /\ ~x.failed /\ ~x.bailed /\ x.l_trimming /\ ~x.r_trimming
              /\ x.read_until = <<>> /\ x.right_of_token = <<>>
    BY InitializedIs
  <2>2. PICK t :
        /\ t = Initialized(task)
        /\ t \in Tasks(Letters) /\ t.out = <<>> /\ t.r_trim = task.r_trim /\ t.i = task.i
        /\ ~t.failed /\ ~t.bailed /\ t.l_trimming /\ ~t.r_trimming
        /\ t.read_until = <<>> /\ t.right_of_token = <<>>
    BY <2>1
  <2>3. b = [t EXCEPT !.failed = FALSE]
    BY <1>1, <1>2, <2>2 DEF Beginning
  <2>4. b = t
    BY <2>2, <2>3 DEF Tasks
  <2>. QED
    BY <1>1, <1>2, <2>2, <2>4 DEF BegunAs
<1>3. CASE links # <<>>
  <2>1. <<>> \in Seq(Letters)
    OBVIOUS
  <2>2. b = [[task EXCEPT !.out = <<>>] EXCEPT !.failed = FALSE]
    BY <1>1, <1>3 DEF Beginning
  <2>3. b \in Tasks(Letters) /\ b.out = <<>> /\ ~b.failed /\ b.r_trim = task.r_trim
        /\ b.i = task.i
    BY <2>1, <2>2 DEF Tasks
  <2>4. /\ b.bailed = task.bailed /\ b.l_trimming = task.l_trimming
        /\ b.r_trimming = task.r_trimming /\ b.read_until = task.read_until
        /\ b.right_of_token = task.right_of_token
    BY <2>1, <2>2 DEF Tasks
  <2>. QED
    BY <1>1, <1>3, <2>3, <2>4 DEF BegunAs, AsNew
<1>. QED
  BY <1>2, <1>3

(* What a read returns, for the run h of its task.                         *)
Complete(h, text, e) == e <= Len(text) /\ \A k \in 1..e : ~h[k].failed
ReadAs(read, h, text, e, links, sink) ==
  /\ Complete(h, text, e) =>
       /\ read.task = flush(h[e], links, sink) /\ read.out = read.task.out
       /\ read.ok <=> ~read.task.failed
  /\ ~Complete(h, text, e) => ~read.ok /\ \E k \in 0..Reach(text, e) : read.task = h[k]

(* That is what ReadWith does. *)
LEMMA ReadIs ==
  ASSUME NEW text \in Seq(Character), NEW criteria \in Modes(Letters), NEW e,
         EndsAt(text, criteria, e), criteria.state = "good", criteria.inclusive,
         NEW task, NEW links, NEW sink,
         NEW h, TaskRun(h, text, e, Beginning(links, task), links, sink),
         Unbailed(h, Reach(text, e))
  PROVE  ReadAs(ReadWith(text, 0, criteria, task, links, sink), h, text, e, links, sink)
<1>1. PICK call : call = Collect(text, 0, criteria, Beginning(links, task), links, sink)
  OBVIOUS
<1>2. Ends(call, h, text, e)
  BY <1>1, CallEnds
<1>3. PICK t : t = flush(call.task, links, sink)
  OBVIOUS
<1>4. PICK read : read = ReadWith(text, 0, criteria, task, links, sink)
  OBVIOUS
<1>5. read = Flushed(call, t)
  BY <1>1, <1>3, <1>4 DEF ReadWith, FlushedWith, Beginning
<1>6. /\ read.ok <=> call.status = "returned" /\ ~t.failed
      /\ read.out = t.out
  BY <1>5, FlushedIs
<1>7. read.task = IF call.status = "returned" THEN t ELSE call.task
  BY <1>5 DEF Flushed
<1>8. CASE Complete(h, text, e)
  <2>1. call.status = "returned" /\ call.task = h[e]
    BY <1>2, <1>8 DEF Ends, Complete
  <2>2. t = flush(h[e], links, sink)
    BY <1>3, <2>1
  <2>. QED
    BY <1>4, <1>6, <1>7, <1>8, <2>1, <2>2 DEF ReadAs
<1>9. CASE ~Complete(h, text, e)
  <2>1. call.status = "threw" /\ \E k \in 0..Reach(text, e) : call.task = h[k]
    BY <1>2, <1>9 DEF Ends, Complete
  <2>2. read.task = call.task
    BY <1>7, <2>1
  <2>. QED
    BY <1>4, <1>6, <1>9, <2>1, <2>2 DEF ReadAs
<1>. QED
  BY <1>8, <1>9

(* What a run of filters takes, one character after the other.             *)
Performs(h, text, e, links, sink) ==
  /\ \A k \in 0..Reach(text, e) : h[k] \in Tasks(Letters) /\ ~h[k].bailed
  /\ \A k \in 1..Reach(text, e) :
        PerformedAs(h[k], h[k - 1], links, text[k], sink, k = e)

(* Filters do not ask for the call to end. *)
LEMMA FilterRuns ==
  ASSUME NEW text \in Seq(Character), NEW e \in Nat, NEW links, FilterLinks(links),
         NEW task \in Tasks(Letters), ~task.bailed, NEW sink \in Sinks,
         NEW h, TaskRun(h, text, e, task, links, sink)
  PROVE  Performs(h, text, e, links, sink)
<1>. DEFINE m == Reach(text, e)
<1>1. m \in Nat /\ m <= Len(text) /\ Len(text) \in Nat
  BY DEF Reach
<1>2. h[0] = task
      /\ \A k \in 1..m : h[k] = perform(h[k - 1], text[k], StateAt(k, e), links, sink)
  BY DEF TaskRun
<1>. HIDE DEF m
<1>3. ASSUME NEW k \in 1..m, h[k - 1] \in Tasks(Letters), ~h[k - 1].bailed
      PROVE  /\ h[k] \in Tasks(Letters) /\ ~h[k].bailed
             /\ PerformedAs(h[k], h[k - 1], links, text[k], sink, k = e)
  <2>1. text[k] \in Character
    BY <1>1
  <2>2. PICK last : last = (StateAt(k, e) = "at_last")
    OBVIOUS
  <2>3. /\ h[k] \in Tasks(Letters) /\ ~h[k].bailed
        /\ PerformedAs(h[k], h[k - 1], links, text[k], sink, last)
    BY <1>2, <1>3, <2>1, <2>2, FiltersPerform
  <2>4. last = (k = e)
    BY <2>2 DEF StateAt
  <2>. QED
    BY <2>3, <2>4
<1>4. \A k \in 0..m : h[k] \in Tasks(Letters) /\ ~h[k].bailed
  <2>. DEFINE T == {k \in Nat : k <= m => h[k] \in Tasks(Letters) /\ ~h[k].bailed}
  <2>1. 0 \in T
    BY <1>2
  <2>2. ASSUME NEW k \in T PROVE k + 1 \in T
    <3>1. CASE k + 1 <= m
      <4>1. k + 1 \in 1..m /\ (k + 1) - 1 = k /\ h[k] \in Tasks(Letters) /\ ~h[k].bailed
        BY <1>1, <3>1
      <4>. QED
        BY <1>3, <4>1
    <3>. QED
      BY <3>1
  <2>3. T = Nat
    <3>1. T \in SUBSET Nat
      OBVIOUS
    <3>. HIDE DEF T
    <3>. QED
      BY <2>1, <2>2, <3>1, SetInduction
  <2>. QED
    BY <1>1, <2>3
<1>5. ASSUME NEW k \in 1..m
      PROVE  PerformedAs(h[k], h[k - 1], links, text[k], sink, k = e)
  <2>1. k - 1 \in 0..m
    BY <1>1
  <2>. QED
    BY <1>3, <1>4, <2>1
<1>. QED
  BY <1>4, <1>5 DEF Performs, m

(* What the flush of an extractor makes of its task.                       *)
FlushedAs(t, u) ==
  /\ u.right_of_token # <<>> \/ (~u.l_trimming /\ ~u.r_trimming) => t.failed
  /\ ~(u.right_of_token # <<>> \/ (~u.l_trimming /\ ~u.r_trimming)) =>
       /\ ~t.failed /\ AsNew(t) /\ t.out = u.out \o u.read_until

(* That is what ExtractFlush does. *)
LEMMA ExtractFlushIs ==
  ASSUME NEW C, NEW u \in Tasks(C), NEW t, t = ExtractFlush(u)
  PROVE  t \in Tasks(C) /\ FlushedAs(t, u) /\ (~u.bailed => ~t.bailed)
<1>1. CASE u.right_of_token # <<>> \/ (~u.l_trimming /\ ~u.r_trimming)
  <2>1. t = [u EXCEPT !.failed = TRUE]
    BY <1>1 DEF ExtractFlush
  <2>2. t \in Tasks(C) /\ t.failed /\ t.bailed = u.bailed
    BY <2>1 DEF Tasks
  <2>. QED
    BY <1>1, <2>2 DEF FlushedAs
<1>2. CASE ~(u.right_of_token # <<>> \/ (~u.l_trimming /\ ~u.r_trimming))
  <2>. DEFINE out == u.out \o u.read_until
  <2>1. PICK v :
        /\ v = Initialized(u)
        /\ v \in Tasks(C) /\ v.out = <<>> /\ v.r_trim = u.r_trim /\ v.i = u.i
        /\ ~v.failed /\ ~v.bailed /\ v.l_trimming /\ ~v.r_trimming
        /\ v.read_until = <<>> /\ v.right_of_token = <<>>
    BY InitializedIs
  <2>2. out \in Seq(C)
    BY DEF Tasks
  <2>3. t = [v EXCEPT !.out = out]
    BY <1>2, <2>1 DEF ExtractFlush
  <2>. HIDE DEF out
  <2>4. t \in Tasks(C)
    BY <2>1, <2>2, <2>3 DEF Tasks
  <2>5. /\ t.out = out /\ t.failed = v.failed /\ t.bailed = v.bailed
        /\ t.l_trimming = v.l_trimming /\ t.r_trimming = v.r_trimming
        /\ t.read_until = v.read_until /\ t.right_of_token = v.right_of_token
    BY <2>1, <2>3 DEF Tasks
  <2>. QED
    BY <1>2, <2>1, <2>4, <2>5 DEF FlushedAs, AsNew, out
<1>. QED
  BY <1>1, <1>2

(* What a flush does behind filters. *)
LEMMA FiltersFlush ==
  ASSUME NEW links, FilterLinks(links), NEW u, NEW sink
  PROVE  flush(u, links, sink) = IF sink = "extract" THEN ExtractFlush(u) ELSE u
<1>1. ~ \E i \in DOMAIN links : links[i].kind = "exact"
  BY FilterLinkIs
<1>. QED
  BY <1>1 DEF flush

(* A read behind filters: the run of its task, and what it returns.        *)
FilteredRead(read, h, text, e, task, links, sink) ==
  /\ h[0] = Beginning(links, task)
  /\ Performs(h, text, e, links, sink)
  /\ ReadAs(read, h, text, e, links, sink)
  /\ read.task \in Tasks(Letters) /\ ~read.task.bailed

(* ReadWith is one. *)
LEMMA FilteredReadIs ==
  ASSUME NEW text \in Seq(Character), NEW criteria, PartCriteria(criteria),
         NEW links, FilterLinks(links), NEW task \in Tasks(Letters), ~task.bailed,
         NEW sink \in Sinks, NEW e, e = EndOf(text, criteria)
  PROVE  \E h : FilteredRead(ReadWith(text, 0, criteria, task, links, sink),
                             h, text, e, task, links, sink)
<1>1. /\ EndsAt(text, criteria, e) /\ criteria \in Modes(Letters)
      /\ criteria.state = "good" /\ criteria.inclusive
  BY EndOfIs
<1>2. e \in Nat \ {0} /\ Len(text) \in Nat
  BY <1>1 DEF EndsAt
<1>3. PICK b : b = Beginning(links, task)
  OBVIOUS
<1>4. b \in Tasks(Letters) /\ ~b.bailed
  BY <1>3, BeginningIs DEF BegunAs
<1>5. PICK h : TaskRun(h, text, e, b, links, sink)
  BY <1>2, TaskRuns
<1>6. Performs(h, text, e, links, sink)
  BY <1>2, <1>4, <1>5, FilterRuns
<1>7. PICK read : read = ReadWith(text, 0, criteria, task, links, sink)
  OBVIOUS
<1>8. TaskRun(h, text, e, Beginning(links, task), links, sink)
  BY <1>3, <1>5
<1>9. ReadAs(read, h, text, e, links, sink)
  <2>1. \A k \in 1..Reach(text, e) : k \in 0..Reach(text, e)
    BY <1>2 DEF Reach
  <2>2. Unbailed(h, Reach(text, e))
    BY <1>6, <2>1 DEF Performs, Unbailed
  <2>. QED
    BY <1>1, <1>7, <1>8, <2>2, ReadIs
<1>10. read.task \in Tasks(Letters) /\ ~read.task.bailed
  <2>1. \A k \in 0..Reach(text, e) : h[k] \in Tasks(Letters) /\ ~h[k].bailed
    BY <1>6 DEF Performs
  <2>2. CASE Complete(h, text, e)
    <3>1. e \in 0..Reach(text, e)
      BY <1>2, <2>2 DEF Complete, Reach
    <3>2. h[e] \in Tasks(Letters) /\ ~h[e].bailed
      BY <2>1, <3>1
    <3>3. read.task = IF sink = "extract" THEN ExtractFlush(h[e]) ELSE h[e]
      BY <1>9, <2>2, FiltersFlush DEF ReadAs
    <3>4. ExtractFlush(h[e]) \in Tasks(Letters) /\ ~ExtractFlush(h[e]).bailed
      BY <3>2, ExtractFlushIs
    <3>. QED
      BY <3>2, <3>3, <3>4
  <2>3. CASE ~Complete(h, text, e)
    BY <1>9, <2>1, <2>3 DEF ReadAs
  <2>. QED
    BY <2>2, <2>3
<1>11. h[0] = Beginning(links, task)
  BY <1>8 DEF TaskRun
<1>. QED
  BY <1>6, <1>7, <1>9, <1>10, <1>11 DEF FilteredRead

(* A call for more than the text has throws. *)
LEMMA ShortTextThrows ==
  ASSUME NEW read, NEW h, NEW text, NEW e, NEW task, NEW links, NEW sink,
         FilteredRead(read, h, text, e, task, links, sink), ~(e <= Len(text))
  PROVE  ~read.ok
  BY DEF FilteredRead, ReadAs, Complete

-----------------------------------------------------------------------------
(* What reaches the sink. *)

(* What the filters let through of a text.  f[k] is what they have let     *)
(* through of k characters.                                                *)
ThroughNext(links, kept, c) ==
  IF Admitted(links, c) THEN Append(kept, Cased(links, c)) ELSE kept
ThroughRun(f, links, text) ==
  f[0] = <<>> /\ \A k \in 1..Len(text) : f[k] = ThroughNext(links, f[k - 1], text[k])

(* They let it through one character after the other. *)
LEMMA ThroughRuns ==
  ASSUME NEW C, NEW text \in Seq(C), NEW links
  PROVE  \E g : ThroughRun(g, links, text) /\ Through(links, text) = g[Len(text)]
<1>. DEFINE n == Len(text)
            s == text
            b == <<>>
            S(u, c) == ThroughNext(links, u, c)
            fold == Through(links, text)
            Body(f, k) == [t \in SUBSET (1..k) |->
                             IF t = {} THEN b ELSE S(f[t \ {Max(t)}], s[Max(t)])]
            T == {k \in Nat : \E it : it = Body(it, k)}
<1>1. n \in Nat /\ DOMAIN s = 1..n
  OBVIOUS
<1>2. fold
        = (CHOOSE it : it = [t \in SUBSET DOMAIN s |->
                               IF t = {} THEN b ELSE S(it[t \ {Max(t)}], s[Max(t)])])[DOMAIN s]
  BY DEF FoldLeft, MapThenFoldSet, Through, ThroughNext
<1>. HIDE DEF n, s, b, S, fold
<1>3. 0 \in T
  <2>. DEFINE it == [t \in SUBSET (1..0) |-> b]
  <2>1. it = Body(it, 0)
    OBVIOUS
  <2>. QED
    BY <2>1
<1>4. ASSUME NEW k \in T PROVE k + 1 \in T
  <2>1. PICK it : it = Body(it, k)
    OBVIOUS
  <2>. DEFINE more == [t \in SUBSET (1..(k + 1)) |->
                         IF k + 1 \in t THEN S(it[t \ {k + 1}], s[k + 1]) ELSE it[t]]
  <2>2. ASSUME NEW t \in SUBSET (1..(k + 1))
        PROVE  more[t] = IF t = {} THEN b ELSE S(more[t \ {Max(t)}], s[Max(t)])
    <3>1. CASE k + 1 \in t
      <4>1. Max(t) = k + 1
        <5>1. Max(t) \in t /\ \A x \in t : x <= Max(t)
          <6>1. k + 1 \in Nat /\ t # {}
            BY <3>1
          <6>. QED
            BY <6>1, MaxIsIn
        <5>2. Max(t) \in 1..(k + 1) /\ k + 1 <= Max(t)
          BY <3>1, <5>1
        <5>. QED
          BY <5>2
      <4>2. t \ {k + 1} \in SUBSET (1..k) /\ t \ {k + 1} \in SUBSET (1..(k + 1))
            /\ k + 1 \notin t \ {k + 1}
        OBVIOUS
      <4>3. more[t \ {k + 1}] = it[t \ {k + 1}]
        BY <4>2
      <4>4. more[t] = S(it[t \ {k + 1}], s[k + 1])
        BY <3>1
      <4>. HIDE DEF more
      <4>. QED
        BY <3>1, <4>1, <4>3, <4>4
    <3>2. CASE k + 1 \notin t
      <4>1. t \in SUBSET (1..k)
        BY <3>2
      <4>2. more[t] = it[t] /\ it[t] = Body(it, k)[t]
        BY <2>1, <3>2
      <4>3. ASSUME t # {} PROVE more[t \ {Max(t)}] = it[t \ {Max(t)}]
        BY <3>2
      <4>. HIDE DEF more
      <4>. QED
        BY <4>1, <4>2, <4>3
    <3>. QED
      BY <3>1, <3>2
  <2>3. more = Body(more, k + 1)
    <3>1. more = [t \in SUBSET (1..(k + 1)) |-> more[t]]
      OBVIOUS
    <3>. HIDE DEF more
    <3>. QED
      BY <2>2, <3>1
  <2>. HIDE DEF more, Body
  <2>. QED
    BY <2>3
<1>5. n \in T
  <2>1. T \in SUBSET Nat
    OBVIOUS
  <2>. HIDE DEF T
  <2>. QED
    BY <1>1, <1>3, <1>4, <2>1, SetInduction
<1>6. PICK f : /\ f = Body(f, n)
               /\ fold = f[1..n]
  <2>1. \E it : it = Body(it, n)
    BY <1>5
  <2>. QED
    BY <1>1, <1>2, <2>1
<1>7. f[1..0] = b
  <2>1. 1..0 = {}
    OBVIOUS
  <2>. QED
    BY <1>6, <2>1
<1>8. ASSUME NEW k \in 1..n PROVE f[1..k] = S(f[1..(k - 1)], s[k])
  <2>1. /\ 1..k \in SUBSET (1..n) /\ 1..k # {}
        /\ Max(1..k) = k /\ (1..k) \ {k} = 1..(k - 1)
    BY <1>1, UptoOneMore
  <2>2. f[1..k] = Body(f, n)[1..k]
    BY <1>6
  <2>. QED
    BY <2>1, <2>2
<1>. DEFINE g == [k \in 0..n |-> f[1..k]]
<1>. HIDE DEF Body
<1>9. g[0] = b /\ fold = g[n]
  BY <1>1, <1>6, <1>7
<1>10. \A k \in 1..n : g[k] = S(g[k - 1], s[k])
  BY <1>1, <1>8
<1>. HIDE DEF g
<1>. QED
  BY <1>9, <1>10 DEF n, s, b, S, fold, ThroughRun

(* What the filters have let through of the first k characters.            *)
Sift(F, text, links, k) ==
  /\ F[0] = <<>>
  /\ \A j \in 1..k : F[j] = ThroughNext(links, F[j - 1], text[j])

(* They let through of a part of the text what they do of the text. *)
LEMMA SiftIs ==
  ASSUME NEW text \in Seq(Character), NEW e \in 0..Len(text), NEW links
  PROVE  \E F : /\ Sift(F, text, links, e)
                /\ Through(links, SubSeq(text, 1, e)) = F[e]
<1>1. PICK part : part = SubSeq(text, 1, e)
  OBVIOUS
<1>2. part \in Seq(Character) /\ Len(part) = e /\ \A j \in 1..e : part[j] = text[j]
  BY <1>1
<1>3. PICK F : ThroughRun(F, links, part) /\ Through(links, part) = F[Len(part)]
  BY <1>2, ThroughRuns
<1>. QED
  BY <1>1, <1>2, <1>3 DEF ThroughRun, Sift

(* What the sink makes of its j-th character, the last one of the call if  *)
(* that is the one at end.                                                 *)
SinkTakes(g, A, j, sink, end) ==
  \E last : (last <=> j = end) /\ Takes(g[j], g[j - 1], A[j], sink, last)

(* The run of a task in which nothing was refused by a strict filter, as   *)
(* one of its sink alone: g[j] is what j characters have made of the sink; *)
(* the call ends with the one at end.                                      *)
Dense(g, h, A, k, sink, end) ==
  /\ A \in Seq(Letters)
  /\ g[0] = h[0] /\ g[Len(A)] = h[k]
  /\ \A j \in 0..Len(A) : g[j] \in Tasks(Letters) /\ \E i \in 0..k : g[j] = h[i]
  /\ \A i \in 0..k : \E j \in 0..Len(A) : h[i] = g[j]
  /\ \A j \in 1..Len(A) : SinkTakes(g, A, j, sink, end)

(* It begins with nothing. *)
LEMMA DenseBegins ==
  ASSUME NEW h, h[0] \in Tasks(Letters), NEW sink
  PROVE  \E g : Dense(g, h, <<>>, 0, sink, Len(<<>>) + 1)
<1>1. PICK g : g = [j \in 0..0 |-> h[0]]
  OBVIOUS
<1>2. <<>> \in Seq(Letters) /\ Len(<<>>) = 0 /\ 0 \in 0..0
  OBVIOUS
<1>3. g[0] = h[0]
  BY <1>1, <1>2
<1>. QED
  BY <1>2, <1>3 DEF Dense

(* What the next character leaves of a sink: one more that reaches it. *)
LEMMA DenseTakes ==
  ASSUME NEW h, NEW k \in Nat, NEW A, NEW c \in Letters, NEW sink \in Sinks,
         NEW g, Dense(g, h, A, k, sink, Len(A) + 1), h[k + 1] \in Tasks(Letters),
         NEW end, end \in {Len(A) + 1, Len(A) + 2},
         NEW last, last <=> Len(A) + 1 = end, Takes(h[k + 1], h[k], c, sink, last)
  PROVE  \E f : Dense(f, h, Append(A, c), k + 1, sink, end)
<1>0. /\ A \in Seq(Letters)
      /\ g[0] = h[0] /\ g[Len(A)] = h[k]
      /\ \A j \in 0..Len(A) : g[j] \in Tasks(Letters) /\ \E i \in 0..k : g[j] = h[i]
      /\ \A i \in 0..k : \E j \in 0..Len(A) : h[i] = g[j]
      /\ \A j \in 1..Len(A) : SinkTakes(g, A, j, sink, Len(A) + 1)
  BY DEF Dense
<1>. DEFINE n == Len(A)
            B == Append(A, c)
<1>1. /\ A \in Seq(Letters) /\ n \in Nat
      /\ g[0] = h[0] /\ g[n] = h[k]
      /\ \A j \in 0..n : g[j] \in Tasks(Letters) /\ \E i \in 0..k : g[j] = h[i]
      /\ \A i \in 0..k : \E j \in 0..n : h[i] = g[j]
      /\ \A j \in 1..n : SinkTakes(g, A, j, sink, n + 1)
  BY <1>0
<1>2. /\ B \in Seq(Letters) /\ Len(B) = n + 1 /\ B[n + 1] = c
      /\ \A j \in 1..n : B[j] = A[j]
  BY <1>0
<1>2a. end \in {n + 1, n + 2} /\ (last <=> n + 1 = end)
  OBVIOUS
<1>. HIDE DEF n, B
<1>3. PICK f : f = [j \in 0..(n + 1) |-> IF j = n + 1 THEN h[k + 1] ELSE g[j]]
  OBVIOUS
<1>4. f[n + 1] = h[k + 1] /\ \A j \in 0..n : f[j] = g[j]
  <2>1. n + 1 \in 0..(n + 1) /\ \A j \in 0..n : j \in 0..(n + 1) /\ j # n + 1
    BY <1>1
  <2>. QED
    BY <1>3, <2>1
<1>5. ASSUME NEW j \in 0..(n + 1)
      PROVE  f[j] \in Tasks(Letters) /\ \E i \in 0..(k + 1) : f[j] = h[i]
  <2>1. CASE j = n + 1
    <3>1. k + 1 \in 0..(k + 1)
      OBVIOUS
    <3>. QED
      BY <1>4, <2>1, <3>1
  <2>2. CASE j \in 0..n
    <3>1. PICK i \in 0..k : g[j] = h[i]
      BY <1>1, <2>2
    <3>2. i \in 0..(k + 1)
      OBVIOUS
    <3>. QED
      BY <1>1, <1>4, <2>2, <3>1, <3>2
  <2>. QED
    BY <1>1, <2>1, <2>2
<1>6. ASSUME NEW i \in 0..(k + 1) PROVE \E j \in 0..(n + 1) : h[i] = f[j]
  <2>1. CASE i = k + 1
    <3>1. n + 1 \in 0..(n + 1)
      BY <1>1
    <3>. QED
      BY <1>4, <2>1, <3>1
  <2>2. CASE i \in 0..k
    <3>1. PICK j \in 0..n : h[i] = g[j]
      BY <1>1, <2>2
    <3>2. j \in 0..(n + 1)
      BY <1>1
    <3>. QED
      BY <1>4, <3>1, <3>2
  <2>. QED
    BY <2>1, <2>2
<1>7. ASSUME NEW j \in 1..(n + 1) PROVE SinkTakes(f, B, j, sink, end)
  <2>1. CASE j = n + 1
    <3>1. j - 1 = n /\ n \in 0..n
      BY <1>1, <2>1
    <3>2. f[j] = h[k + 1] /\ f[j - 1] = h[k] /\ B[j] = c
      BY <1>1, <1>2, <1>4, <2>1, <3>1
    <3>. QED
      BY <1>2a, <2>1, <3>2 DEF SinkTakes
  <2>2. CASE j \in 1..n
    <3>1. j \in 0..n /\ j - 1 \in 0..n /\ j # n + 1 /\ j # end
      BY <1>1, <1>2a, <2>2
    <3>2. f[j] = g[j] /\ f[j - 1] = g[j - 1] /\ B[j] = A[j]
      BY <1>2, <1>4, <2>2, <3>1
    <3>3. PICK x : (x <=> j = n + 1) /\ Takes(g[j], g[j - 1], A[j], sink, x)
      BY <1>1, <2>2 DEF SinkTakes
    <3>. QED
      BY <3>1, <3>2, <3>3 DEF SinkTakes
  <2>. QED
    BY <1>1, <2>1, <2>2
<1>8. f[0] = h[0]
  <2>1. 0 \in 0..n
    BY <1>1
  <2>. QED
    BY <1>1, <1>4, <2>1
<1>9. Dense(f, h, B, k + 1, sink, end)
  BY <1>2, <1>4, <1>5, <1>6, <1>7, <1>8 DEF Dense
<1>. QED
  BY <1>9 DEF B

(* Or one that does not. *)
LEMMA DenseDrops ==
  ASSUME NEW h, NEW k \in Nat, NEW A, NEW sink,
         NEW g, Dense(g, h, A, k, sink, Len(A) + 1), h[k + 1] = h[k]
  PROVE  Dense(g, h, A, k + 1, sink, Len(A) + 1)
<1>1. /\ A \in Seq(Letters)
      /\ g[0] = h[0] /\ g[Len(A)] = h[k]
      /\ \A j \in 0..Len(A) : g[j] \in Tasks(Letters) /\ \E i \in 0..k : g[j] = h[i]
      /\ \A i \in 0..k : \E j \in 0..Len(A) : h[i] = g[j]
      /\ \A j \in 1..Len(A) : SinkTakes(g, A, j, sink, Len(A) + 1)
  BY DEF Dense
<1>2. /\ \A i \in 0..(k + 1) : i \in 0..k \/ i = k + 1
      /\ \A i \in 0..k : i \in 0..(k + 1)
      /\ k \in 0..k
  OBVIOUS
<1>3. ASSUME NEW j \in 0..Len(A) PROVE \E i \in 0..(k + 1) : g[j] = h[i]
  BY <1>1, <1>2
<1>4. ASSUME NEW i \in 0..(k + 1) PROVE \E j \in 0..Len(A) : h[i] = g[j]
  BY <1>1, <1>2
<1>. QED
  BY <1>1, <1>3, <1>4 DEF Dense

(* Nothing was refused by a strict filter in the first n characters.       *)
Unrefused(links, text, n) == Strict(links) => \A k \in 1..n : Admitted(links, text[k])

(* What a sink has taken of a call, and where that ends.                   *)
SinkRead(g, h, A, links, text, e, sink) ==
  Dense(g, h, A, e, sink, IF Admitted(links, text[e]) THEN Len(A) ELSE Len(A) + 1)

(* The sink takes what the filters let through, in its order. *)
LEMMA SinkReads ==
  ASSUME NEW text \in Seq(Character), NEW e \in 1..Len(text), NEW links,
         NEW sink \in Sinks, NEW h, Performs(h, text, e, links, sink),
         Unrefused(links, text, e),
         NEW A, A = Through(links, SubSeq(text, 1, e))
  PROVE  \E g : SinkRead(g, h, A, links, text, e, sink)
<1>0. e \in Nat /\ Reach(text, e) = e /\ e \in 0..Len(text) /\ Len(text) \in Nat
  BY DEF Reach
<1>1. PICK F : Sift(F, text, links, e) /\ A = F[e]
  BY <1>0, SiftIs
<1>2. F[0] = <<>> /\ \A k \in 1..e : F[k] = ThroughNext(links, F[k - 1], text[k])
  BY <1>1 DEF Sift
<1>3. /\ \A k \in 0..e : h[k] \in Tasks(Letters)
      /\ \A k \in 1..e : PerformedAs(h[k], h[k - 1], links, text[k], sink, k = e)
  BY <1>0 DEF Performs
<1>. DEFINE Reached(k) == \E g : Dense(g, h, F[k], k, sink, Len(F[k]) + 1)
<1>4. ASSUME NEW k \in Nat, k + 1 <= e, Reached(k)
      PROVE  \E g : Dense(g, h, F[k + 1], k + 1, sink,
                          IF k + 1 = e /\ Admitted(links, text[k + 1]) THEN Len(F[k + 1])
                          ELSE Len(F[k + 1]) + 1)
  <2>0. k + 1 \in 1..e /\ (k + 1) - 1 = k /\ k + 1 \in 0..e /\ text[k + 1] \in Character
    BY <1>0, <1>4
  <2>1. PICK A0 : A0 = F[k]
    OBVIOUS
  <2>2. PICK g : Dense(g, h, A0, k, sink, Len(A0) + 1)
    BY <1>4, <2>1
  <2>3. A0 \in Seq(Letters) /\ Len(A0) \in Nat
    <3>1. A0 \in Seq(Letters)
      BY <2>2 DEF Dense
    <3>. QED
      BY <3>1
  <2>4. F[k + 1] = ThroughNext(links, A0, text[k + 1])
        /\ PerformedAs(h[k + 1], h[k], links, text[k + 1], sink, k + 1 = e)
    BY <1>2, <1>3, <2>0, <2>1
  <2>5. CASE Admitted(links, text[k + 1])
    <3>1. PICK c : c = Cased(links, text[k + 1])
      OBVIOUS
    <3>2. c \in Letters
      <4>1. PICK d \in Character : d = text[k + 1]
        BY <2>0
      <4>2. LowerCase(d) \in Letters /\ UpperCase(d) \in Letters /\ d \in Letters
        BY DEF Letters
      <4>. QED
        BY <3>1, <4>1, <4>2 DEF Cased
    <3>3. F[k + 1] = Append(A0, c)
      BY <2>4, <2>5, <3>1 DEF ThroughNext
    <3>4. PICK last : /\ last <=> k + 1 = e
                      /\ Takes(h[k + 1], h[k], c, sink, last)
      BY <2>4, <2>5, <3>1 DEF PerformedAs
    <3>5. PICK end : end = IF k + 1 = e THEN Len(A0) + 1 ELSE Len(A0) + 2
      OBVIOUS
    <3>6. end \in {Len(A0) + 1, Len(A0) + 2} /\ (last <=> Len(A0) + 1 = end)
      BY <2>3, <3>4, <3>5
    <3>8. h[k + 1] \in Tasks(Letters)
      BY <1>3, <2>0
    <3>9. \E f : Dense(f, h, Append(A0, c), k + 1, sink, end)
      BY <2>2, <3>2, <3>4, <3>6, <3>8, DenseTakes
    <3>10. Len(Append(A0, c)) = Len(A0) + 1
      BY <2>3, <3>2
    <3>11. end = IF k + 1 = e THEN Len(F[k + 1]) ELSE Len(F[k + 1]) + 1
      BY <2>3, <3>3, <3>5, <3>10
    <3>. QED
      BY <2>5, <3>3, <3>9, <3>11
  <2>6. CASE ~Admitted(links, text[k + 1])
    <3>1. ~Strict(links)
      BY <2>0, <2>6 DEF Unrefused
    <3>2. h[k + 1] = h[k]
      BY <2>4, <2>6, <3>1 DEF PerformedAs
    <3>3. F[k + 1] = A0
      BY <2>4, <2>6 DEF ThroughNext
    <3>4. Dense(g, h, A0, k + 1, sink, Len(A0) + 1)
      BY <2>2, <3>2, DenseDrops
    <3>. QED
      BY <2>6, <3>3, <3>4
  <2>. QED
    BY <2>5, <2>6
<1>5. Reached(e - 1)
  <2>. DEFINE T == {k \in Nat : k <= e - 1 => Reached(k)}
  <2>1. 0 \in T
    <3>1. h[0] \in Tasks(Letters)
      BY <1>0, <1>3
    <3>2. Reached(0)
      BY <1>2, <3>1, DenseBegins
    <3>. QED
      BY <3>2
  <2>2. ASSUME NEW k \in T PROVE k + 1 \in T
    <3>1. CASE k + 1 <= e - 1
      <4>1. k \in Nat /\ k + 1 <= e /\ Reached(k) /\ ~(k + 1 = e)
        BY <1>0, <3>1
      <4>. HIDE DEF T
      <4>2. \E g : Dense(g, h, F[k + 1], k + 1, sink,
                         IF k + 1 = e /\ Admitted(links, text[k + 1]) THEN Len(F[k + 1])
                         ELSE Len(F[k + 1]) + 1)
        BY <1>4, <4>1
      <4>3. Reached(k + 1)
        BY <4>1, <4>2
      <4>. QED
        BY <4>1, <4>3 DEF T
    <3>2. CASE ~(k + 1 <= e - 1)
      BY <3>2
    <3>. QED
      BY <3>1, <3>2
  <2>3. T = Nat
    <3>1. T \in SUBSET Nat
      OBVIOUS
    <3>. HIDE DEF T
    <3>. QED
      BY <2>1, <2>2, <3>1, SetInduction
  <2>4. e - 1 \in Nat
    BY <1>0
  <2>. QED
    BY <2>3, <2>4
<1>6. PICK k \in Nat : k = e - 1 /\ k + 1 = e /\ k + 1 <= e
  BY <1>0
<1>7. \E g : Dense(g, h, F[e], e, sink,
                   IF Admitted(links, text[e]) THEN Len(F[e]) ELSE Len(F[e]) + 1)
  BY <1>4, <1>5, <1>6
<1>. QED
  BY <1>1, <1>7 DEF SinkRead

(* A call that nothing was refused in ends if its sink does not fail. *)
LEMMA SinkCompletes ==
  ASSUME NEW text, NEW e \in 1..Len(text), NEW h, NEW g, NEW A, NEW links, NEW sink,
         Len(text) \in Nat, SinkRead(g, h, A, links, text, e, sink), ~h[0].failed
  PROVE  Complete(h, text, e) <=> \A j \in 0..Len(A) : ~g[j].failed
<1>1. /\ \A j \in 0..Len(A) : \E i \in 0..e : g[j] = h[i]
      /\ \A i \in 0..e : \E j \in 0..Len(A) : h[i] = g[j]
  BY DEF SinkRead, Dense
<1>2. \A i \in 0..e : i = 0 \/ i \in 1..e
  OBVIOUS
<1>3. \A i \in 1..e : i \in 0..e
  OBVIOUS
<1>4. e <= Len(text)
  OBVIOUS
<1>. QED
  BY <1>1, <1>2, <1>3, <1>4 DEF Complete

(* A strict filter throws at what it refuses. *)
LEMMA RefusalThrows ==
  ASSUME NEW text \in Seq(Character), NEW e \in 1..Len(text), NEW links, NEW task,
         NEW sink, NEW read, NEW h, FilteredRead(read, h, text, e, task, links, sink),
         ~Unrefused(links, text, e)
  PROVE  ~read.ok
<1>1. Reach(text, e) = e
  BY DEF Reach
<1>2. PICK k \in 1..e : Strict(links) /\ ~Admitted(links, text[k])
  BY DEF Unrefused
<1>3. PerformedAs(h[k], h[k - 1], links, text[k], sink, k = e)
  BY <1>1, <1>2 DEF FilteredRead, Performs
<1>4. h[k].failed
  BY <1>2, <1>3 DEF PerformedAs
<1>5. ~Complete(h, text, e)
  BY <1>2, <1>4 DEF Complete
<1>. QED
  BY <1>5 DEF FilteredRead, ReadAs

(* The collector takes what the filters let through. *)
LEMMA CollectorFilters ==
  ASSUME NEW text \in Seq(Character), NEW e \in 1..Len(text),
         NEW links, FilterLinks(links), NEW task \in Tasks(Letters),
         NEW read, NEW h, FilteredRead(read, h, text, e, task, links, "collect"),
         Unrefused(links, text, e)
  PROVE  read.ok /\ read.out = Through(links, SubSeq(text, 1, e))
<1>0. "collect" \in Sinks /\ Len(text) \in Nat
  BY DEF Sinks
<1>1. PICK A : A = Through(links, SubSeq(text, 1, e))
  OBVIOUS
<1>2. PICK g : SinkRead(g, h, A, links, text, e, "collect")
  BY <1>0, <1>1, SinkReads DEF FilteredRead
<1>3. /\ A \in Seq(Letters) /\ g[0] = h[0] /\ g[Len(A)] = h[e]
      /\ \A j \in 1..Len(A) : g[j].out = Append(g[j - 1].out, A[j])
                              /\ SameOtherwise(g[j], g[j - 1])
  BY <1>2 DEF SinkRead, Dense, SinkTakes, Takes
<1>4. h[0].out = <<>> /\ ~h[0].failed
  BY BeginningIs DEF FilteredRead, BegunAs
<1>. DEFINE n == Len(A)
            T == {j \in Nat : j <= n => g[j].out = SubSeq(A, 1, j) /\ ~g[j].failed}
<1>5. n \in Nat
  BY <1>3
<1>6. \A j \in 0..n : g[j].out = SubSeq(A, 1, j) /\ ~g[j].failed
  <2>1. 0 \in T
    <3>1. SubSeq(A, 1, 0) = <<>>
      BY <1>3
    <3>. QED
      BY <1>3, <1>4, <3>1
  <2>2. ASSUME NEW j \in T PROVE j + 1 \in T
    <3>1. CASE j + 1 <= n
      <4>1. j \in Nat /\ j + 1 \in 1..n /\ (j + 1) - 1 = j
            /\ g[j].out = SubSeq(A, 1, j) /\ ~g[j].failed
        BY <1>5, <3>1
      <4>2. g[j + 1].out = Append(SubSeq(A, 1, j), A[j + 1])
            /\ SameOtherwise(g[j + 1], g[j])
        BY <1>3, <4>1
      <4>3. Append(SubSeq(A, 1, j), A[j + 1]) = SubSeq(A, 1, j + 1)
        BY <1>3, <4>1
      <4>4. g[j + 1].out = SubSeq(A, 1, j + 1) /\ ~g[j + 1].failed
        BY <4>1, <4>2, <4>3 DEF SameOtherwise
      <4>. QED
        BY <4>1, <4>4
    <3>2. CASE ~(j + 1 <= n)
      BY <3>2
    <3>. QED
      BY <3>1, <3>2
  <2>3. T = Nat
    <3>1. T \in SUBSET Nat
      OBVIOUS
    <3>. HIDE DEF T
    <3>. QED
      BY <2>1, <2>2, <3>1, SetInduction
  <2>. QED
    BY <1>5, <2>3
<1>7. Complete(h, text, e)
  BY <1>0, <1>2, <1>4, <1>6, SinkCompletes
<1>8. n \in 0..n /\ SubSeq(A, 1, n) = A
  BY <1>3, <1>5
<1>9. h[e].out = A /\ ~h[e].failed
  BY <1>3, <1>6, <1>8
<1>10. read.task = h[e] /\ read.out = read.task.out /\ (read.ok <=> ~read.task.failed)
  <2>1. flush(h[e], links, "collect") = h[e]
    BY FiltersFlush
  <2>. QED
    BY <1>7, <2>1 DEF FilteredRead, ReadAs
<1>. QED
  BY <1>1, <1>9, <1>10

-----------------------------------------------------------------------------
(* An exact match. *)

(* What a task behind an exact match makes of a character.                 *)
MatchedAs(t, u, link, c) ==
  /\ t.i = u.i + 1
  /\ u.i < Len(link.chars) /\ link.chars[u.i + 1] = c =>
       t.out = Append(u.out, c) /\ (t.failed <=> u.failed) /\ ~t.bailed
  /\ u.i < Len(link.chars) /\ link.chars[u.i + 1] # c /\ link.strict =>
       t.failed /\ ~t.bailed

(* Its link. *)
LEMMA ExactLinkIs ==
  ASSUME NEW links, NEW criteria, ExactLink(links, criteria)
  PROVE  /\ links \in Seq(Links({"exact"})) /\ Len(links) = 1 /\ DOMAIN links = {1}
         /\ links[1].kind = "exact" /\ links[1].chars \in Seq(Character)
         /\ Len(links[1].chars) \in Nat \ {0} /\ links[1].strict \in BOOLEAN
         /\ criteria = Size(Len(links[1].chars))
         /\ Strict(links) <=> links[1].strict
<1>1. /\ links \in Seq(Links({"exact"})) /\ Len(links) = 1
      /\ links[1].chars # <<>> /\ criteria = Size(Len(links[1].chars))
  BY DEF ExactLink
<1>2. DOMAIN links = {1}
  BY <1>1, SMTT(60)
<1>3. links[1] \in Links({"exact"})
  BY <1>1, SMTT(60)
<1>4. links[1].kind = "exact" /\ links[1].chars \in Seq(Character)
      /\ links[1].strict \in BOOLEAN
  BY <1>3 DEF Links
<1>5. Len(links[1].chars) \in Nat \ {0}
  <2>1. PICK chars \in Seq(Character) : chars = links[1].chars
    BY <1>4
  <2>2. chars # <<>>
    BY <1>1, <2>1
  <2>3. Len(chars) \in Nat \ {0}
    BY <2>2
  <2>. QED
    BY <2>1, <2>3
<1>6. Strict(links) <=> links[1].strict
  BY <1>2 DEF Strict
<1>. QED
  BY <1>1, <1>2, <1>4, <1>5, <1>6

(* What it does with a character. *)
LEMMA ExactPasses ==
  ASSUME NEW link, link.kind = "exact", NEW c, NEW i \in Nat,
         NEW p, p = Pass(link, [c |-> c, verdict |-> "pass", i |-> i])
  PROVE  /\ p.c = c /\ p.i = i + 1 /\ p.verdict \in {"pass", "throw", "bail"}
         /\ i < Len(link.chars) /\ link.chars[i + 1] = c => p.verdict = "pass"
         /\ i < Len(link.chars) /\ link.chars[i + 1] # c /\ link.strict
               => p.verdict = "throw"
<1>. DEFINE verdict == IF i >= Len(link.chars) THEN "throw"
                       ELSE IF link.chars[i + 1] = c THEN "pass"
                       ELSE IF link.strict THEN "throw" ELSE "bail"
<1>1. PICK b : b = [c |-> c, verdict |-> "pass", i |-> i]
  OBVIOUS
<1>2. b.c = c /\ b.verdict = "pass" /\ b.i = i
  BY <1>1
<1>3. p = [b EXCEPT !.i = i + 1, !.verdict = verdict]
  BY <1>1, <1>2 DEF Pass
<1>4. p.c = c /\ p.i = i + 1 /\ p.verdict = verdict
  <2>. HIDE DEF verdict
  <2>. QED
    BY <1>1, <1>3
<1>5. verdict \in {"pass", "throw", "bail"}
  OBVIOUS
<1>6. ASSUME i < Len(link.chars), link.chars[i + 1] = c PROVE verdict = "pass"
  BY <1>6
<1>7. ASSUME i < Len(link.chars), link.chars[i + 1] # c, link.strict
      PROVE  verdict = "throw"
  BY <1>7
<1>. QED
  BY <1>4, <1>5, <1>6, <1>7

(* What perform does with one character, behind an exact match. *)
LEMMA ExactPerforms ==
  ASSUME NEW links, NEW criteria, ExactLink(links, criteria),
         NEW u \in Tasks(Letters), NEW c \in Letters, NEW state,
         NEW t, t = perform(u, c, state, links, "collect")
  PROVE  t \in Tasks(Letters) /\ MatchedAs(t, u, links[1], c)
<1>0. /\ links \in Seq(Links({"exact"})) /\ Len(links) = 1 /\ links[1].kind = "exact"
  BY ExactLinkIs
<1>1. PICK link : link = links[1]
  OBVIOUS
<1>2. u.i \in Nat
  BY DEF Tasks
<1>3. PICK b : b = [c |-> c, verdict |-> "pass", i |-> u.i]
  OBVIOUS
<1>4. PICK p : p = Pass(link, b)
  OBVIOUS
<1>5. FoldLeft(LAMBDA acc, l : Pass(l, acc), b, links) = p
  <2>1. PICK f : /\ LinkRun(f, links, b)
                 /\ FoldLeft(LAMBDA acc, l : Pass(l, acc), b, links) = f[Len(links)]
    BY <1>0, LinksRun
  <2>2. f[0] = b /\ \A k \in 1..1 : f[k] = Pass(links[k], f[k - 1])
    BY <1>0, <2>1 DEF LinkRun
  <2>3. f[1] = Pass(links[1], f[0])
    <3>1. 1 \in 1..1 /\ 1 - 1 = 0
      OBVIOUS
    <3>. QED
      BY <2>2, <3>1
  <2>. QED
    BY <1>0, <1>1, <1>4, <2>1, <2>2, <2>3
<1>6. t = Filtering(u, p, state, "collect")
  BY <1>3, <1>5 DEF perform
<1>7. /\ p.c = c /\ p.i = u.i + 1 /\ p.verdict \in {"pass", "throw", "bail"}
      /\ u.i < Len(link.chars) /\ link.chars[u.i + 1] = c => p.verdict = "pass"
      /\ u.i < Len(link.chars) /\ link.chars[u.i + 1] # c /\ link.strict
            => p.verdict = "throw"
  BY <1>0, <1>1, <1>2, <1>3, <1>4, ExactPasses
<1>8. PICK bailed \in BOOLEAN : bailed <=> p.verdict = "bail"
  OBVIOUS
<1>9. PICK v : v = [u EXCEPT !.i = u.i + 1, !.bailed = bailed]
  OBVIOUS
<1>10. t = Sunk(v, p, state, "collect")
  <2>1. (p.verdict = "bail") = bailed
    BY <1>8
  <2>2. v = [u EXCEPT !.i = p.i, !.bailed = p.verdict = "bail"]
    BY <1>7, <1>9, <2>1
  <2>. QED
    BY <1>6, <2>2 DEF Filtering
<1>11. /\ v \in Tasks(Letters) /\ v.i = u.i + 1 /\ v.bailed = bailed /\ v.out = u.out
       /\ v.failed = u.failed
  <2>1. u.i + 1 \in Nat
    BY <1>2
  <2>2. v \in Tasks(Letters)
    BY <1>9, <2>1 DEF Tasks
  <2>3. v.i = u.i + 1 /\ v.bailed = bailed /\ v.out = u.out /\ v.failed = u.failed
    BY <1>9 DEF Tasks
  <2>. QED
    BY <2>2, <2>3
<1>12. CASE p.verdict = "pass"
  <2>1. t = CollectorTakes(v, c)
    BY <1>7, <1>10, <1>12 DEF Sunk
  <2>2. t \in Tasks(Letters) /\ t.out = Append(v.out, c) /\ SameOtherwise(t, v)
    BY <1>11, <2>1, CollectorIs
  <2>3. ~v.bailed
    BY <1>8, <1>11, <1>12
  <2>4. ~(u.i < Len(link.chars) /\ link.chars[u.i + 1] # c /\ link.strict)
    BY <1>7, <1>12
  <2>. QED
    BY <1>1, <1>11, <2>2, <2>3, <2>4 DEF MatchedAs, SameOtherwise
<1>13. CASE p.verdict = "throw"
  <2>1. t = [v EXCEPT !.failed = TRUE]
    BY <1>10, <1>13 DEF Sunk
  <2>2. t \in Tasks(Letters) /\ t.failed /\ t.i = v.i /\ t.bailed = v.bailed
    BY <1>11, <2>1 DEF Tasks
  <2>3. ~v.bailed
    BY <1>8, <1>11, <1>13
  <2>4. ~(u.i < Len(link.chars) /\ link.chars[u.i + 1] = c)
    BY <1>7, <1>13
  <2>. QED
    BY <1>1, <1>11, <2>2, <2>3, <2>4 DEF MatchedAs
<1>14. CASE p.verdict = "bail"
  <2>1. t = v
    BY <1>10, <1>14 DEF Sunk
  <2>2. /\ ~(u.i < Len(link.chars) /\ link.chars[u.i + 1] = c)
        /\ ~(u.i < Len(link.chars) /\ link.chars[u.i + 1] # c /\ link.strict)
    BY <1>7, <1>14
  <2>. QED
    BY <1>1, <1>11, <2>1, <2>2 DEF MatchedAs
<1>. QED
  BY <1>7, <1>12, <1>13, <1>14

(* A call for left more characters, one more of which is read.             *)
SizedAs(r, s) ==
  /\ r \in Calls(Letters) /\ r.criteria.mode = "size"
  /\ s.status = "threw" => r.status = "threw"
  /\ s.status = "reading" /\ s.criteria.left > 1 /\ s.criteria.state # "at_last" =>
       \/ r.status = "threw"
       \/ /\ r.status = "reading" /\ r.criteria.left = s.criteria.left - 1
          /\ r.criteria.state # "at_last"

(* It does not end before it has them. *)
LEMMA SizedOne ==
  ASSUME NEW links, NEW criteria, ExactLink(links, criteria), NEW text,
         NEW s \in Calls(Letters), s.criteria.mode = "size", NEW c \in Character,
         NEW r, r = CollectNext(s, c, text, links, "collect")
  PROVE  SizedAs(r, s)
<1>1. CASE s.status # "reading"
  BY <1>1 DEF CollectNext, CollectChecked, SizedAs
<1>2. CASE s.status = "reading"
  <2>. DEFINE state == untilSizeNext(s.criteria.state, s.criteria.left)
  <2>0. s.criteria \in Modes(Letters) /\ s.task \in Tasks(Letters) /\ c # EndOfText
    BY CharacterIs DEF Calls
  <2>1. s.criteria.state \in States /\ s.criteria.left \in Int
    BY <2>0 DEF Modes
  <2>2. state \in States
    <3>1. "good" \in States /\ "not_good" \in States /\ "at_last" \in States
      BY DEF States
    <3>. QED
      BY <2>1, <3>1 DEF untilSizeNext
  <2>3. PICK next : next = NextCriteria(s.criteria, c)
    OBVIOUS
  <2>4. next = Counted(s.criteria, state)
    BY <2>3 DEF NextCriteria, Counted
  <2>5. s.criteria.left > 1 /\ s.criteria.state # "at_last" => state = "good"
    <3>1. s.criteria.state \in {"good", "not_good", "at_last"}
      BY <2>1 DEF States
    <3>. QED
      BY <2>1, <3>1 DEF untilSizeNext
  <2>. HIDE DEF state
  <2>6. /\ next \in Modes(Letters) /\ next.state = state /\ next.left = s.criteria.left - 1
        /\ next.mode = "size"
    BY <2>0, <2>2, <2>4, NextIs
  <2>7. CASE state = "not_good"
    <3>1. r = [s EXCEPT !.status = "returned"]
      BY <1>2, <2>0, <2>3, <2>6, <2>7 DEF CollectNext, CollectChecked
    <3>2. "returned" \in Statuses
      BY DEF Statuses
    <3>3. r \in Calls(Letters) /\ r.criteria = s.criteria
      BY <3>1, <3>2 DEF Calls
    <3>. QED
      BY <1>2, <2>5, <2>7, <3>3 DEF SizedAs
  <2>8. CASE state # "not_good"
    <3>1. PICK t : t = perform(s.task, c, next.state, links, "collect")
      OBVIOUS
    <3>2. t \in Tasks(Letters)
      <4>1. c \in Letters
        BY DEF Letters
      <4>. QED
        BY <2>0, <3>1, <4>1, ExactPerforms
    <3>3. r = Collected(s, text, next, t)
      BY <1>2, <2>0, <2>3, <2>6, <2>8, <3>1 DEF CollectNext, CollectChecked
    <3>4. r \in Calls(Letters) /\ TakenAs(r, s, text, next, t)
      BY <2>6, <3>2, <3>3, CollectedIs
    <3>5. r.criteria.mode = "size" /\ r.criteria.left = s.criteria.left - 1
      BY <2>6, <3>4 DEF TakenAs
    <3>6. ASSUME s.criteria.left > 1, s.criteria.state # "at_last"
          PROVE  /\ r.criteria.state # "at_last"
                 /\ r.status = "threw" \/ r.status = "reading"
      <4>1. r.criteria.state # "at_last"
        BY <2>5, <2>6, <3>4, <3>6 DEF TakenAs
      <4>. QED
        BY <3>4, <4>1 DEF TakenAs
    <3>. QED
      BY <1>2, <3>4, <3>5, <3>6 DEF SizedAs
  <2>. QED
    BY <2>7, <2>8
<1>. QED
  BY <1>1, <1>2

(* What an exact match leaves of its task, whatever it meets.              *)
LeftAs(read, text, e) ==
  /\ read.task \in Tasks(Letters)
  /\ read.ok => read.task.i = 0
  /\ ~(e <= Len(text)) => ~read.ok

(* A call for more than the text has throws, even if it was asked to end.  *)
LEMMA ExactLeaves ==
  ASSUME NEW text \in Seq(Character), NEW links, NEW criteria, ExactLink(links, criteria),
         NEW task \in Tasks(Letters), NEW e, e = Len(links[1].chars),
         NEW read, read = ReadWith(text, 0, criteria, task, links, "collect")
  PROVE  LeftAs(read, text, e)
<1>0. /\ e \in Nat \ {0} /\ criteria = Size(e) /\ Len(text) \in Nat
      /\ DOMAIN links = {1} /\ links[1].kind = "exact"
  BY ExactLinkIs
<1>. DEFINE last == Len(text) + 1
            ahead == Ahead(text, 0)
<1>1. PICK b : b = Beginning(links, task)
  OBVIOUS
<1>2. b \in Tasks(Letters)
  <2>1. BegunAs(b, links, task)
    BY <1>1, BeginningIs
  <2>. QED
    BY <2>1 DEF BegunAs
<1>3. PICK g : /\ CollectRun(g, text, 0, criteria, b, links, "collect")
               /\ Collect(text, 0, criteria, b, links, "collect") = g[last]
  <2>1. Len(text) - 0 + 1 = last /\ 0 \in 0..Len(text)
    BY <1>0
  <2>. QED
    BY <2>1, CollectRuns
<1>4. /\ \A k \in 1..Len(text) : ahead[k] = text[k]
      /\ ahead[last] = EndOfText
  <2>1. Len(text) - 0 = Len(text) /\ Len(text) - 0 + 1 = last /\ 0 \in 0..Len(text)
        /\ \A k \in 1..Len(text) : 0 + k = k
    BY <1>0
  <2>2. \A k \in 1..(Len(text) - 0) : ahead[k] = text[0 + k]
    BY <2>1, AheadElements
  <2>3. ahead[Len(text) - 0 + 1] = EndOfText
    BY <2>1, AheadElements
  <2>. QED
    BY <2>1, <2>2, <2>3
<1>5. \A k \in 1..last : g[k] = CollectNext(g[k - 1], ahead[k], text, links, "collect")
  <2>1. Len(text) - 0 + 1 = last
    BY <1>0
  <2>. QED
    BY <1>3, <2>1 DEF CollectRun
<1>6. g[0] = Start(0, criteria, b)
  BY <1>3 DEF CollectRun
<1>. HIDE DEF ahead, last
<1>. DEFINE Waits(s, k) == \/ s.status = "threw"
                           \/ /\ s.status = "reading" /\ s.criteria.left = e - k
                              /\ s.criteria.state # "at_last"
            Is(s, k) == /\ s \in Calls(Letters) /\ s.criteria.mode = "size"
                        /\ e > Len(text) => Waits(s, k)
            T == {k \in Nat : k <= Len(text) => Is(g[k], k)}
<1>7. 0 \in T
  <2>1. criteria \in Modes(Letters) /\ criteria.mode = "size" /\ criteria.state = "good"
        /\ criteria.left = e
    <3>1. "size" \in Names /\ "good" \in States
      BY DEF Names, States
    <3>. QED
      BY <1>0, <3>1 DEF Size, Modes
  <2>2. "reading" \in Statuses
    BY DEF Statuses
  <2>3. g[0] \in Calls(Letters)
    BY <1>2, <1>6, <2>1, <2>2 DEF Start, Calls
  <2>4. g[0].criteria = criteria /\ g[0].status = "reading"
    BY <1>6 DEF Start
  <2>5. e = e - 0
    BY <1>0
  <2>. QED
    BY <2>1, <2>3, <2>4, <2>5
<1>8. ASSUME NEW k \in T PROVE k + 1 \in T
  <2>1. CASE k + 1 <= Len(text)
    <3>1. /\ k \in Nat /\ k + 1 \in 1..Len(text) /\ k + 1 \in 1..last
          /\ k + 1 - 1 = k /\ k <= Len(text)
      BY <1>0, <2>1 DEF last
    <3>2. PICK s : s = g[k]
      OBVIOUS
    <3>3. Is(s, k)
      BY <3>1, <3>2
    <3>4. PICK c \in Character : c = text[k + 1]
      BY <3>1
    <3>5. PICK r : r = g[k + 1]
      OBVIOUS
    <3>6. r = CollectNext(s, c, text, links, "collect")
      BY <1>4, <1>5, <3>1, <3>2, <3>4, <3>5
    <3>7. SizedAs(r, s)
      BY <3>3, <3>6, SizedOne
    <3>8. ASSUME e > Len(text) PROVE Waits(r, k + 1)
      <4>1. e - k > 1 /\ (e - k) - 1 = e - (k + 1)
        BY <1>0, <3>1, <3>8
      <4>2. Waits(s, k)
        BY <3>3, <3>8
      <4>. QED
        BY <3>7, <4>1, <4>2 DEF SizedAs
    <3>9. r \in Calls(Letters) /\ r.criteria.mode = "size"
      BY <3>7 DEF SizedAs
    <3>. QED
      BY <3>5, <3>8, <3>9
  <2>. QED
    BY <2>1
<1>9. Is(g[Len(text)], Len(text))
  <2>1. T = Nat
    <3>1. T \in SUBSET Nat
      OBVIOUS
    <3>. HIDE DEF T
    <3>. QED
      BY <1>7, <1>8, <3>1, SetInduction
  <2>. QED
    BY <1>0, <2>1
<1>10. /\ g[last].task \in Tasks(Letters)
       /\ e > Len(text) => g[last].status # "returned"
  <2>1. last \in 1..last /\ last - 1 = Len(text)
    BY <1>0 DEF last
  <2>2. PICK s : s = g[Len(text)]
    OBVIOUS
  <2>3. Is(s, Len(text))
    BY <1>9, <2>2
  <2>4. g[last] = CollectNext(s, EndOfText, text, links, "collect")
    BY <1>4, <1>5, <2>1, <2>2
  <2>5. CASE s.status # "reading"
    <3>1. g[last] = s
      BY <2>4, <2>5 DEF CollectNext, CollectChecked
    <3>. QED
      BY <2>3, <2>5, <3>1 DEF Calls
  <2>6. CASE s.status = "reading"
    <3>1. g[last] = [s EXCEPT !.status = "threw"]
      BY <2>4, <2>6 DEF CollectNext, CollectChecked
    <3>2. g[last].status = "threw" /\ g[last].task = s.task /\ s.task \in Tasks(Letters)
      BY <2>3, <3>1 DEF Calls
    <3>. QED
      BY <3>2
  <2>. QED
    BY <2>5, <2>6
<1>11. PICK call : call = Collect(text, 0, criteria, b, links, "collect")
  OBVIOUS
<1>12. PICK t : t = flush(call.task, links, "collect")
  OBVIOUS
<1>13. read = Flushed(call, t)
  BY <1>1, <1>11, <1>12 DEF ReadWith, FlushedWith, Beginning
<1>14. /\ call.task \in Tasks(Letters)
       /\ e > Len(text) => call.status # "returned"
  BY <1>3, <1>10, <1>11
<1>15. t = [call.task EXCEPT !.i = 0]
  BY <1>0, <1>12 DEF flush
<1>16. t \in Tasks(Letters) /\ t.i = 0
  BY <1>14, <1>15 DEF Tasks
<1>17. read.ok <=> call.status = "returned" /\ ~t.failed
  BY <1>13, FlushedIs
<1>18. read.task = IF call.status = "returned" THEN t ELSE call.task
  BY <1>13 DEF Flushed
<1>. QED
  BY <1>0, <1>14, <1>16, <1>17, <1>18 DEF LeftAs

(* What an exact match reads.                                              *)
ExactAs(read, text, links, e) ==
  LET part == SubSeq(text, 1, e)
  IN  /\ links[1].strict => (read.ok <=> part = links[1].chars)
      /\ part = links[1].chars => read.ok /\ read.out = part

(* It compares the characters of a text that has enough of them. *)
LEMMA ExactReads ==
  ASSUME NEW text \in Seq(Character), NEW links, NEW criteria, ExactLink(links, criteria),
         NEW task \in Tasks(Letters), task.i = 0, NEW e, e = Len(links[1].chars),
         e <= Len(text),
         NEW read, read = ReadWith(text, 0, criteria, task, links, "collect")
  PROVE  ExactAs(read, text, links, e)
<1>. DEFINE part == SubSeq(text, 1, e)
            chars == links[1].chars
            strict == links[1].strict
            b == Beginning(links, task)
<1>0. /\ e \in Nat \ {0} /\ criteria = Size(e) /\ Len(text) \in Nat
      /\ DOMAIN links = {1} /\ links[1].kind = "exact" /\ chars \in Seq(Character)
      /\ links # <<>> /\ Len(chars) = e /\ Reach(text, e) = e
  <2>1. Reach(text, e) = e
    BY DEF Reach
  <2>2. Len(links) = 1
    BY ExactLinkIs
  <2>3. links # <<>>
    <3>1. links \in Seq(Links({"exact"}))
      BY ExactLinkIs
    <3>2. links = <<>> => Len(links) = 0
      BY <3>1
    <3>. QED
      BY <2>2, <3>2
  <2>. QED
    BY <2>1, <2>3, ExactLinkIs
<1>1. /\ criteria \in Modes(Letters) /\ criteria.state = "good" /\ criteria.inclusive
      /\ EndsAt(text, criteria, e)
  <2>1. "size" \in Names /\ "good" \in States
    BY DEF Names, States
  <2>2. criteria = [mode |-> "size", until |-> {}, inclusive |-> TRUE, left |-> e,
                    state |-> "good"]
    BY <1>0 DEF Size
  <2>3. criteria \in Modes(Letters)
    BY <1>0, <2>1, <2>2 DEF Modes
  <2>4. criteria.mode = "size" /\ criteria.left = e /\ criteria.state = "good"
        /\ criteria.inclusive
    BY <2>2
  <2>. QED
    BY <1>0, <2>3, <2>4 DEF EndsAt
<1>2. b \in Tasks(Letters) /\ b.out = <<>> /\ ~b.failed /\ b.i = 0
  <2>1. BegunAs(b, links, task)
    BY BeginningIs
  <2>. QED
    BY <2>1 DEF BegunAs
<1>3. PICK h : TaskRun(h, text, e, b, links, "collect")
  BY <1>0, TaskRuns
<1>. HIDE DEF b
<1>4. /\ h[0] = b
      /\ \A k \in 1..e :
            h[k] = perform(h[k - 1], text[k], StateAt(k, e), links, "collect")
  BY <1>0, <1>3 DEF TaskRun
<1>5. part = chars <=> \A k \in 1..e : chars[k] = text[k]
  <2>1. part \in Seq(Character) /\ Len(part) = e /\ \A k \in 1..e : part[k] = text[k]
    BY <1>0
  <2>. HIDE DEF part, chars
  <2>2. part = chars => \A k \in 1..e : chars[k] = text[k]
    BY <2>1
  <2>3. ASSUME \A k \in 1..e : chars[k] = text[k] PROVE part = chars
    BY <1>0, <2>1, <2>3
  <2>. QED
    BY <2>2, <2>3
<1>6. ASSUME NEW k \in 1..e, h[k - 1] \in Tasks(Letters)
      PROVE  h[k] \in Tasks(Letters) /\ MatchedAs(h[k], h[k - 1], links[1], text[k])
  <2>1. text[k] \in Letters
    <3>1. text[k] \in Character
      BY <1>0
    <3>. QED
      BY <3>1 DEF Letters
  <2>. QED
    BY <1>4, <1>6, <2>1, ExactPerforms
<1>. HIDE DEF part
<1>7. \A k \in 0..e : h[k] \in Tasks(Letters)
  <2>1. h[0] \in Tasks(Letters)
    BY <1>2, <1>4
  <2>2. \A k \in 1..e : h[k - 1] \in Tasks(Letters) => h[k] \in Tasks(Letters)
    BY <1>6
  <2>. QED
    BY <1>0, <2>1, <2>2, StaysIn
<1>8. \A k \in 0..e : h[k].i = k
  <2>. DEFINE T == {k \in Nat : k <= e => h[k].i = k}
  <2>1. 0 \in T
    BY <1>2, <1>4
  <2>2. ASSUME NEW k \in T PROVE k + 1 \in T
    <3>1. CASE k + 1 <= e
      <4>1. k + 1 \in 1..e /\ k + 1 - 1 = k /\ k \in 0..e /\ h[k].i = k
        BY <1>0, <3>1
      <4>2. MatchedAs(h[k + 1], h[k], links[1], text[k + 1])
        BY <1>6, <1>7, <4>1
      <4>3. h[k + 1].i = k + 1
        BY <4>1, <4>2 DEF MatchedAs
      <4>. QED
        BY <4>3
    <3>. QED
      BY <3>1
  <2>3. T = Nat
    <3>1. T \in SUBSET Nat
      OBVIOUS
    <3>. HIDE DEF T
    <3>. QED
      BY <2>1, <2>2, <3>1, SetInduction
  <2>. QED
    BY <1>0, <2>3
<1>9. ASSUME NEW k \in 1..e
      PROVE  /\ chars[k] = text[k] =>
                  /\ h[k].out = Append(h[k - 1].out, text[k])
                  /\ h[k].failed <=> h[k - 1].failed
                  /\ ~h[k].bailed
             /\ chars[k] # text[k] /\ strict => h[k].failed /\ ~h[k].bailed
  <2>1. k - 1 \in 0..e /\ (k - 1) + 1 = k /\ k - 1 < e
    BY <1>0
  <2>2. h[k - 1].i = k - 1 /\ MatchedAs(h[k], h[k - 1], links[1], text[k])
    BY <1>6, <1>7, <1>8, <2>1
  <2>3. h[k - 1].i < Len(links[1].chars) /\ h[k - 1].i + 1 = k
    BY <1>0, <2>1, <2>2
  <2>. QED
    BY <2>2, <2>3 DEF MatchedAs
<1>10. ASSUME strict \/ part = chars
       PROVE  /\ read.ok <=> part = chars
              /\ part = chars => read.out = part
  <2>1. Unbailed(h, e)
    <3>1. ASSUME NEW k \in 1..e PROVE ~h[k].bailed
      BY <1>5, <1>9, <1>10
    <3>. QED
      BY <1>7, <3>1 DEF Unbailed
  <2>2. ReadAs(read, h, text, e, links, "collect")
    BY <1>0, <1>1, <1>3, <2>1, ReadIs DEF b
  <2>3. ASSUME part # chars PROVE ~read.ok
    <3>1. PICK k \in 1..e : chars[k] # text[k]
      BY <1>5, <2>3
    <3>2. h[k].failed
      BY <1>9, <1>10, <2>3, <3>1
    <3>3. ~Complete(h, text, e)
      BY <3>1, <3>2 DEF Complete
    <3>. QED
      BY <2>2, <3>3 DEF ReadAs
  <2>4. ASSUME part = chars PROVE read.ok /\ read.out = part
    <3>. DEFINE T == {k \in Nat : k <= e => ~h[k].failed /\ h[k].out = SubSeq(text, 1, k)}
    <3>1. 0 \in T
      <4>1. SubSeq(text, 1, 0) = <<>>
        OBVIOUS
      <4>2. h[0].out = SubSeq(text, 1, 0) /\ ~h[0].failed
        BY <1>2, <1>4, <4>1
      <4>. QED
        BY <4>2
    <3>2. ASSUME NEW k \in T PROVE k + 1 \in T
      <4>1. CASE k + 1 <= e
        <5>1. k + 1 \in 1..e /\ k + 1 - 1 = k /\ k + 1 \in 1..Len(text)
          BY <1>0, <4>1
        <5>2. chars[k + 1] = text[k + 1]
          BY <1>5, <2>4, <5>1
        <5>3. h[k + 1].out = Append(h[k].out, text[k + 1]) /\ ~h[k + 1].failed
          BY <1>9, <4>1, <5>1, <5>2
        <5>4. Append(SubSeq(text, 1, k), text[k + 1]) = SubSeq(text, 1, k + 1)
          BY <5>1
        <5>5. h[k].out = SubSeq(text, 1, k) /\ k + 1 \in Nat
          BY <1>0, <4>1
        <5>6. h[k + 1].out = SubSeq(text, 1, k + 1)
          BY <5>3, <5>4, <5>5
        <5>. QED
          BY <5>3, <5>5, <5>6
      <4>. QED
        BY <4>1
    <3>3. T = Nat
      <4>1. T \in SUBSET Nat
        OBVIOUS
      <4>. HIDE DEF T
      <4>. QED
        BY <3>1, <3>2, <4>1, SetInduction
    <3>4. \A k \in 0..e : ~h[k].failed /\ h[k].out = SubSeq(text, 1, k)
      BY <1>0, <3>3
    <3>. HIDE DEF T
    <3>5. Complete(h, text, e)
      BY <1>0, <3>4 DEF Complete
    <3>6. /\ read.task = flush(h[e], links, "collect") /\ read.out = read.task.out
          /\ read.ok <=> ~read.task.failed
      BY <2>2, <3>5 DEF ReadAs
    <3>7. read.task = [h[e] EXCEPT !.i = 0]
      BY <1>0, <3>6 DEF flush
    <3>8. h[e] \in Tasks(Letters) /\ ~h[e].failed /\ h[e].out = part
      BY <1>0, <1>7, <3>4 DEF part
    <3>9. read.task.out = part /\ ~read.task.failed
      BY <3>7, <3>8 DEF Tasks
    <3>. QED
      BY <3>6, <3>9
  <2>. QED
    BY <2>3, <2>4
<1>. QED
  <2>1. strict => (read.ok <=> part = chars)
    BY <1>10
  <2>2. part = chars => read.ok /\ read.out = part
    BY <1>10
  <2>. QED
    BY <2>1, <2>2 DEF ExactAs, part

-----------------------------------------------------------------------------
(* The trimmer. *)

(* Behind no filter nothing is refused. *)
LEMMA PlainTrims ==
  ASSUME NEW text \in Seq(Character), NEW e \in Nat \ {0},
         NEW task \in Tasks(Letters), NEW read, NEW h,
         FilteredRead(read, h, text, e, task, <<>>, "trim")
  PROVE  /\ BegunAs(h[0], <<>>, task)
         /\ \A k \in 1..Reach(text, e) : TrimmedAs(h[k], h[k - 1], text[k])
<1>1. PICK links : links = <<>>
  OBVIOUS
<1>2. DOMAIN links = {}
  BY <1>1
<1>3. \A c : Admitted(links, c) /\ Cased(links, c) = c
  BY <1>2 DEF Admitted, Cased
<1>4. FilteredRead(read, h, text, e, task, links, "trim")
  BY <1>1
<1>5. h[0] = Beginning(links, task)
  BY <1>4 DEF FilteredRead
<1>6. BegunAs(h[0], links, task)
  BY <1>5, BeginningIs
<1>7. ASSUME NEW k \in 1..Reach(text, e) PROVE TrimmedAs(h[k], h[k - 1], text[k])
  <2>1. PICK last : PerformedAs(h[k], h[k - 1], links, text[k], "trim", last)
    BY <1>4 DEF FilteredRead, Performs
  <2>. QED
    BY <1>3, <2>1 DEF PerformedAs, Takes
<1>. QED
  BY <1>1, <1>6, <1>7

(* A gap of the first e characters starts at i.                            *)
White(text, i) == text[i] \in Whitespace
GapAt(text, e, i) ==
  /\ i \in 2..e /\ White(text, i) /\ ~White(text, i - 1)
  /\ \E j \in (i + 1)..e : ~White(text, j)

(* Whitespace between two words starts a gap. *)
LEMMA GapBetween ==
  ASSUME NEW text, NEW e \in Nat, NEW a \in 1..e, NEW b \in 1..e, NEW w \in a..b,
         ~White(text, a), ~White(text, b), White(text, w)
  PROVE  \E i \in a..b : i # a /\ i <= w /\ GapAt(text, e, i)
<1>. DEFINE I == {i \in 1..e : a <= i /\ White(text, i)}
            i == Min(I)
<1>1. I \in SUBSET (1..e) /\ w \in I
  OBVIOUS
<1>2. i \in I /\ \A x \in I : i <= x
  <2>. HIDE DEF I
  <2>. QED
    BY <1>1, MinIsIn
<1>3. i \in a..b /\ i <= w /\ i # a /\ i \in 2..e /\ White(text, i) /\ i # b
  BY <1>1, <1>2
<1>. HIDE DEF i
<1>4. ~White(text, i - 1)
  <2>1. i - 1 \in 1..e /\ a <= i - 1 /\ ~(i <= i - 1)
    BY <1>3
  <2>. QED
    BY <1>2, <2>1
<1>5. b \in (i + 1)..e
  BY <1>3
<1>. QED
  BY <1>3, <1>4, <1>5 DEF GapAt

(* What the trimmer has come to after k of e characters, from b on.        *)
TrimsTo(t, text, b, k, lo, last, e) ==
  /\ lo \in 1..k /\ last \in lo..k
  /\ \A i \in 1..(lo - 1) : White(text, i)
  /\ ~White(text, lo) /\ ~White(text, last)
  /\ \A i \in (last + 1)..k : White(text, i)
  /\ ~t.l_trimming /\ (t.r_trimming <=> last < k)
  /\ t.out = SubSeq(text, lo, last)
  /\ last < k /\ (\E j \in (k + 1)..e : ~White(text, j))
        => t.r_trim = SubSeq(text, last + 1, k)
  /\ (\A i \in lo..k : ~White(text, i)) => t.r_trim = b.r_trim
TrimsNone(t, text, b, k) ==
  /\ \A i \in 1..k : White(text, i)
  /\ t.l_trimming /\ ~t.r_trimming /\ t.out = <<>> /\ t.r_trim = b.r_trim
Trims(t, text, b, k, e) ==
  TrimsNone(t, text, b, k) \/ \E lo, last \in 1..k : TrimsTo(t, text, b, k, lo, last, e)

(* There is no gap, or one and no whitespace that was kept before.         *)
Cleanly(text, b, e) ==
  \/ \A i \in 1..e : ~GapAt(text, e, i)
  \/ /\ b.r_trim = <<>>
     /\ \A i, j \in 1..e : GapAt(text, e, i) /\ GapAt(text, e, j) => i = j

(* The subsequence of one element. *)
LEMMA OneElement ==
  ASSUME NEW C, NEW text \in Seq(C), NEW i \in 1..Len(text)
  PROVE  SubSeq(text, i, i) = Append(<<>>, text[i])
<1>. DEFINE s == SubSeq(text, i, i)
            r == Append(<<>>, text[i])
<1>1. text[i] \in C /\ i \in Int /\ i - i + 1 = 1
  OBVIOUS
<1>2. s \in Seq(C) /\ Len(s) = 1 /\ s[1] = text[i]
  <2>1. \A j \in i..i : text[j] \in C
    BY <1>1
  <2>2. s \in Seq(C) /\ Len(s) = (IF i <= i THEN i - i + 1 ELSE 0)
        /\ \A j \in 1..(i - i + 1) : s[j] = text[i + j - 1]
    BY <1>1, <2>1, SubSeqProperties
  <2>. HIDE DEF s
  <2>3. 1 \in 1..(i - i + 1) /\ i + 1 - 1 = i
    BY <1>1
  <2>. QED
    BY <1>1, <2>2, <2>3
<1>3. r \in Seq(C) /\ Len(r) = 1 /\ r[1] = text[i]
  BY <1>1
<1>. HIDE DEF s, r
<1>4. s = r
  BY <1>2, <1>3
<1>. QED
  BY <1>4 DEF s, r

(* The trimmer, one character further. *)
LEMMA TrimsMore ==
  ASSUME NEW text \in Seq(Letters), NEW e \in 1..Len(text), NEW k \in Nat, k < e,
         NEW b, Cleanly(text, b, e), NEW u \in Tasks(Letters), Trims(u, text, b, k, e),
         NEW t \in Tasks(Letters), TrimmedAs(t, u, text[k + 1])
  PROVE  Trims(t, text, b, k + 1, e)
<1>0. /\ k + 1 \in 1..Len(text) /\ k + 1 \in 1..e /\ k + 1 \in Nat /\ Len(text) \in Nat
      /\ e \in Nat /\ k \in 0..e
  OBVIOUS
<1>1. PICK c \in Letters : c = text[k + 1]
  BY <1>0
<1>2. TrimmedAs(t, u, c) /\ (White(text, k + 1) <=> c \in Whitespace)
  BY <1>1 DEF White
<1>3. CASE TrimsNone(u, text, b, k)
  <2>0. /\ \A i \in 1..k : White(text, i)
        /\ u.l_trimming /\ ~u.r_trimming /\ u.out = <<>> /\ u.r_trim = b.r_trim
    BY <1>3 DEF TrimsNone
  <2>1. CASE White(text, k + 1)
    <3>1. t = u
      BY <1>2, <2>0, <2>1 DEF TrimmedAs
    <3>2. ASSUME NEW i \in 1..(k + 1) PROVE White(text, i)
      <4>1. i \in 1..k \/ i = k + 1
        OBVIOUS
      <4>. QED
        BY <2>0, <2>1, <4>1
    <3>3. TrimsNone(t, text, b, k + 1)
      BY <2>0, <3>1, <3>2 DEF TrimsNone
    <3>. QED
      BY <3>3 DEF Trims
  <2>2. CASE ~White(text, k + 1)
    <3>1. /\ t.out = Append(<<>>, c) /\ ~t.l_trimming /\ ~t.r_trimming
          /\ t.r_trim = b.r_trim
      BY <1>2, <2>0, <2>2 DEF TrimmedAs
    <3>2. SubSeq(text, k + 1, k + 1) = Append(<<>>, c)
      BY <1>0, <1>1, OneElement
    <3>3. /\ k + 1 \in 1..(k + 1) /\ k + 1 \in (k + 1)..(k + 1)
          /\ \A i \in 1..((k + 1) - 1) : i \in 1..k
          /\ ~(k + 1 < k + 1)
          /\ \A i \in ((k + 1) + 1)..(k + 1) : FALSE
      OBVIOUS
    <3>4. TrimsTo(t, text, b, k + 1, k + 1, k + 1, e)
      BY <2>0, <2>2, <3>1, <3>2, <3>3 DEF TrimsTo
    <3>. QED
      BY <3>3, <3>4 DEF Trims
  <2>. QED
    BY <2>1, <2>2
<1>4. ASSUME NEW lo \in 1..k, NEW last \in 1..k, TrimsTo(u, text, b, k, lo, last, e)
      PROVE  \E lo2, last2 \in 1..(k + 1) : TrimsTo(t, text, b, k + 1, lo2, last2, e)
  <2>0. /\ last \in lo..k
        /\ \A i \in 1..(lo - 1) : White(text, i)
        /\ ~White(text, lo) /\ ~White(text, last)
        /\ \A i \in (last + 1)..k : White(text, i)
        /\ ~u.l_trimming /\ (u.r_trimming <=> last < k)
        /\ u.out = SubSeq(text, lo, last)
        /\ last < k /\ (\E j \in (k + 1)..e : ~White(text, j))
              => u.r_trim = SubSeq(text, last + 1, k)
        /\ (\A i \in lo..k : ~White(text, i)) => u.r_trim = b.r_trim
    BY <1>4 DEF TrimsTo
  <2>1. /\ lo \in 1..(k + 1) /\ last \in 1..(k + 1) /\ last \in lo..(k + 1)
        /\ last < k + 1 /\ k + 1 \in lo..(k + 1) /\ k + 1 \in 1..(k + 1)
        /\ last + 1 \in 1..(k + 1) /\ last \in 1..e /\ lo \in 1..e
    BY <1>0, <2>0
  <2>2. CASE White(text, k + 1)
    <3>1. t.out = u.out /\ ~t.l_trimming /\ t.r_trimming /\ t.r_trim = Append(u.r_trim, c)
      BY <1>2, <2>0, <2>2 DEF TrimmedAs
    <3>2. ASSUME NEW i \in (last + 1)..(k + 1) PROVE White(text, i)
      <4>1. i \in (last + 1)..k \/ i = k + 1
        OBVIOUS
      <4>. QED
        BY <2>0, <2>2, <4>1
    <3>3. ~(\A i \in lo..(k + 1) : ~White(text, i))
      BY <2>1, <2>2
    <3>4. ASSUME \E j \in ((k + 1) + 1)..e : ~White(text, j)
          PROVE  t.r_trim = SubSeq(text, last + 1, k + 1)
      <4>0. PICK j \in ((k + 1) + 1)..e : ~White(text, j)
        BY <3>4
      <4>1. CASE last < k
        <5>1. j \in (k + 1)..e
          BY <1>0
        <5>2. u.r_trim = SubSeq(text, last + 1, k)
          BY <2>0, <4>0, <4>1, <5>1
        <5>3. Append(SubSeq(text, last + 1, k), text[k + 1]) = SubSeq(text, last + 1, k + 1)
          BY <1>0, <2>1
        <5>. QED
          BY <1>1, <3>1, <5>2, <5>3
      <4>2. CASE ~(last < k)
        <5>1. last = k /\ k \in 1..e /\ (k + 1) - 1 = k /\ k + 1 \in 2..e
          BY <1>0, <2>0, <4>2
        <5>2. GapAt(text, e, k + 1)
          BY <2>0, <2>2, <4>0, <5>1 DEF GapAt
        <5>3. /\ b.r_trim = <<>>
              /\ \A i \in 1..e : GapAt(text, e, i) => i = k + 1
          BY <1>0, <5>2 DEF Cleanly
        <5>4. ASSUME NEW w \in lo..k PROVE ~White(text, w)
          <6>. SUFFICES ASSUME White(text, w) PROVE FALSE
            OBVIOUS
          <6>1. k \in 1..e /\ ~White(text, k)
            BY <2>0, <5>1
          <6>2. PICK i \in lo..k : GapAt(text, e, i)
            BY <1>0, <2>0, <2>1, <6>1, GapBetween
          <6>3. i \in 1..e /\ i # k + 1
            BY <1>0, <6>2
          <6>. QED
            BY <5>3, <6>2, <6>3
        <5>5. u.r_trim = <<>>
          BY <2>0, <5>3, <5>4
        <5>6. SubSeq(text, k + 1, k + 1) = Append(<<>>, c)
          BY <1>0, <1>1, OneElement
        <5>. QED
          BY <3>1, <5>1, <5>5, <5>6
      <4>. QED
        BY <4>1, <4>2
    <3>5. TrimsTo(t, text, b, k + 1, lo, last, e)
      BY <2>0, <2>1, <3>1, <3>2, <3>3, <3>4 DEF TrimsTo
    <3>. QED
      BY <2>1, <3>5
  <2>3. CASE ~White(text, k + 1)
    <3>1. /\ u.r_trimming => t.out = Append(u.out \o u.r_trim, c)
          /\ ~u.r_trimming => t.out = Append(u.out, c)
          /\ ~t.l_trimming /\ ~t.r_trimming /\ t.r_trim = u.r_trim
      BY <1>2, <2>0, <2>3 DEF TrimmedAs
    <3>2. t.out = SubSeq(text, lo, k + 1)
      <4>1. Append(SubSeq(text, lo, k), c) = SubSeq(text, lo, k + 1)
        BY <1>0, <1>1, <2>1
      <4>2. CASE last < k
        <5>1. k + 1 \in (k + 1)..e
          BY <1>0
        <5>2. u.r_trim = SubSeq(text, last + 1, k)
          BY <2>0, <2>3, <4>2, <5>1
        <5>3. SubSeq(text, lo, last) \o SubSeq(text, last + 1, k) = SubSeq(text, lo, k)
          <6>1. /\ lo \in 1..(Len(text) + 1) /\ last \in (lo - 1)..Len(text)
                /\ k \in last..Len(text)
            BY <1>0, <2>0, <2>1
          <6>. QED
            BY <6>1, ConcatAdjacentSubSeq
        <5>. QED
          BY <2>0, <3>1, <4>1, <4>2, <5>2, <5>3
      <4>3. CASE ~(last < k)
        <5>1. last = k
          BY <2>0, <4>3
        <5>. QED
          BY <2>0, <3>1, <4>1, <4>3, <5>1
      <4>. QED
        BY <4>2, <4>3
    <3>3. ASSUME \A i \in lo..(k + 1) : ~White(text, i) PROVE t.r_trim = b.r_trim
      <4>1. \A i \in lo..k : i \in lo..(k + 1)
        OBVIOUS
      <4>2. \A i \in lo..k : ~White(text, i)
        BY <3>3, <4>1
      <4>. QED
        BY <2>0, <3>1, <4>2
    <3>4. /\ ~(k + 1 < k + 1) /\ \A i \in ((k + 1) + 1)..(k + 1) : FALSE
      OBVIOUS
    <3>5. TrimsTo(t, text, b, k + 1, lo, k + 1, e)
      BY <2>0, <2>1, <2>3, <3>1, <3>2, <3>3, <3>4 DEF TrimsTo
    <3>. QED
      BY <2>1, <3>5
  <2>. QED
    BY <2>2, <2>3
<1>. QED
  BY <1>3, <1>4 DEF Trims

(* The words and gaps of the first e characters.                           *)
PartAs(part, text, e) ==
  /\ part \in Seq(Letters) /\ Len(part) = e /\ DOMAIN part = 1..e
  /\ \A i \in 1..e : part[i] = text[i]
  /\ Words(part) = {i \in 1..e : ~White(text, i)}
  /\ Gaps(part) = {i \in 1..e : GapAt(text, e, i)}

(* They are those of the text. *)
LEMMA PartIs ==
  ASSUME NEW text \in Seq(Letters), NEW e \in 0..Len(text),
         NEW part, part = SubSeq(text, 1, e)
  PROVE  PartAs(part, text, e)
<1>1. /\ part \in Seq(Letters) /\ Len(part) = e /\ DOMAIN part = 1..e
      /\ \A i \in 1..e : part[i] = text[i]
  OBVIOUS
<1>2. Words(part) = {i \in 1..e : ~White(text, i)}
  BY <1>1 DEF Words, White
<1>3. ASSUME NEW i \in 2..e
      PROVE  GapAt(text, e, i) <=> /\ part[i] \in Whitespace /\ part[i - 1] \notin Whitespace
                                   /\ \E j \in Words(part) : j > i
  <2>1. i \in 1..e /\ i - 1 \in 1..e
    OBVIOUS
  <2>2. (White(text, i) <=> part[i] \in Whitespace)
        /\ (White(text, i - 1) <=> part[i - 1] \in Whitespace)
    BY <1>1, <2>1 DEF White
  <2>3. (\E j \in Words(part) : j > i) <=> \E j \in (i + 1)..e : ~White(text, j)
    <3>1. \A j \in 1..e : j > i <=> j \in (i + 1)..e
      BY <2>1
    <3>2. \A j \in (i + 1)..e : j \in 1..e
      BY <2>1
    <3>. QED
      BY <1>2, <3>1, <3>2
  <2>. QED
    BY <2>2, <2>3 DEF GapAt
<1>4. Gaps(part) = {i \in 2..e : GapAt(text, e, i)}
  BY <1>1, <1>3 DEF Gaps
<1>5. \A i \in 1..e : GapAt(text, e, i) => i \in 2..e
  BY DEF GapAt
<1>6. \A i \in 2..e : i \in 1..e
  OBVIOUS
<1>7. Gaps(part) = {i \in 1..e : GapAt(text, e, i)}
  BY <1>4, <1>5, <1>6
<1>. QED
  BY <1>1, <1>2, <1>7 DEF PartAs

(* The trimmer is right for at most clean gaps. *)
LEMMA CleanlyIs ==
  ASSUME NEW text \in Seq(Letters), NEW e \in 0..Len(text), NEW task,
         NEW clean \in 0..1, clean = 1 => task.r_trim = <<>>,
         Cardinality(Gaps(SubSeq(text, 1, e))) <= clean
  PROVE  Cleanly(text, task, e)
<1>. DEFINE G == {i \in 1..e : GapAt(text, e, i)}
<1>1. Gaps(SubSeq(text, 1, e)) = G
  <2>1. PICK part : part = SubSeq(text, 1, e)
    OBVIOUS
  <2>2. PartAs(part, text, e)
    BY <2>1, PartIs
  <2>. QED
    BY <2>1, <2>2 DEF PartAs
<1>2. IsFiniteSet(G) /\ Cardinality(G) \in Nat
  <2>1. G \in SUBSET (1..e) /\ IsFiniteSet(1..e)
    BY FS_Interval
  <2>. HIDE DEF G
  <2>2. IsFiniteSet(G)
    BY <2>1, FS_Subset
  <2>. QED
    BY <2>2, FS_CardinalityType
<1>3. CASE Cardinality(G) = 0
  <2>1. G = {}
    <3>. HIDE DEF G
    <3>. QED
      BY <1>2, <1>3, FS_EmptySet
  <2>. QED
    BY <2>1 DEF Cleanly
<1>4. CASE Cardinality(G) = 1
  <2>1. clean = 1
    <3>1. Cardinality(G) <= clean
      BY <1>1
    <3>. HIDE DEF G
    <3>. QED
      BY <1>4, <3>1
  <2>2. PICK x : G = {x}
    <3>. HIDE DEF G
    <3>. QED
      BY <1>2, <1>4, FS_Singleton
  <2>3. ASSUME NEW i \in 1..e, NEW j \in 1..e, GapAt(text, e, i), GapAt(text, e, j)
        PROVE  i = j
    <3>1. i \in G /\ j \in G
      BY <2>3
    <3>. QED
      BY <2>2, <3>1
  <2>. QED
    BY <2>1, <2>3 DEF Cleanly
<1>. QED
  <2>. HIDE DEF G
  <2>. QED
    BY <1>1, <1>2, <1>3, <1>4

(* What the trimmer has come to at the end is the text without what is     *)
(* around its words.                                                       *)
LEMMA TrimsIsStripped ==
  ASSUME NEW text \in Seq(Letters), NEW e \in 0..Len(text), NEW b,
         NEW t \in Tasks(Letters), Trims(t, text, b, e, e)
  PROVE  t.out = Stripped(SubSeq(text, 1, e))
<1>1. PICK part : part = SubSeq(text, 1, e)
  OBVIOUS
<1>2. /\ part \in Seq(Letters) /\ Len(part) = e
      /\ \A i \in 1..e : part[i] = text[i]
      /\ Words(part) = {i \in 1..e : ~White(text, i)}
  <2>1. PartAs(part, text, e)
    BY <1>1, PartIs
  <2>. QED
    BY <2>1 DEF PartAs
<1>3. CASE TrimsNone(t, text, b, e)
  <2>1. Words(part) = {} /\ t.out = <<>>
    BY <1>2, <1>3 DEF TrimsNone
  <2>. QED
    BY <1>1, <2>1 DEF Stripped
<1>4. ASSUME NEW lo \in 1..e, NEW last \in 1..e, TrimsTo(t, text, b, e, lo, last, e)
      PROVE  t.out = Stripped(part)
  <2>1. /\ last \in lo..e
        /\ \A i \in 1..(lo - 1) : White(text, i)
        /\ ~White(text, lo) /\ ~White(text, last)
        /\ \A i \in (last + 1)..e : White(text, i)
        /\ t.out = SubSeq(text, lo, last)
    BY <1>4 DEF TrimsTo
  <2>2. lo \in Words(part) /\ last \in Words(part) /\ Words(part) \in SUBSET (1..e)
        /\ e \in Nat
    BY <1>2, <2>1
  <2>3. ASSUME NEW i \in Words(part) PROVE lo <= i /\ i <= last
    <3>1. i \in 1..e /\ ~White(text, i)
      BY <1>2, <2>3
    <3>2. ~(i \in 1..(lo - 1)) /\ ~(i \in (last + 1)..e)
      BY <2>1, <3>1
    <3>. QED
      BY <2>1, <3>1, <3>2
  <2>4. Min(Words(part)) \in Words(part) /\ \A i \in Words(part) : Min(Words(part)) <= i
    BY <2>2, MinIsIn
  <2>5. Max(Words(part)) \in Words(part) /\ \A i \in Words(part) : i <= Max(Words(part))
    BY <2>2, MaxIsIn
  <2>6. Min(Words(part)) = lo
    BY <2>2, <2>3, <2>4
  <2>7. Max(Words(part)) = last
    BY <2>2, <2>3, <2>5
  <2>8. SubSeq(part, lo, last) = SubSeq(text, lo, last)
    BY <1>1, <2>1
  <2>. QED
    BY <2>1, <2>2, <2>6, <2>7, <2>8 DEF Stripped
<1>. QED
  BY <1>1, <1>3, <1>4 DEF Trims

(* The task begins as initialize() leaves it.                              *)
StartsNew(links, task) == links = <<>> \/ AsNew(task)

(* What the trimmer reads of a text that reaches it.                       *)
TrimmedRead(read, text, task) ==
  /\ read.ok
  /\ Cleanly(text, task, Len(text)) => read.out = Stripped(text)

(* It takes off the whitespace around the words. *)
LEMMA TrimmerReads ==
  ASSUME NEW text \in Seq(Character), NEW e \in 1..Len(text), NEW links, FilterLinks(links),
         NEW task \in Tasks(Letters), StartsNew(links, task), NEW read, NEW h,
         FilteredRead(read, h, text, e, task, links, "trim"), Unrefused(links, text, e),
         NEW A, A = Through(links, SubSeq(text, 1, e))
  PROVE  TrimmedRead(read, A, task)
<1>1. "trim" \in Sinks /\ Len(text) \in Nat
  BY DEF Sinks
<1>2. PICK g : SinkRead(g, h, A, links, text, e, "trim")
  BY <1>1, SinkReads DEF FilteredRead
<1>3. PICK end : Dense(g, h, A, e, "trim", end)
  BY <1>2 DEF SinkRead
<1>4. /\ A \in Seq(Letters) /\ g[0] = h[0] /\ g[Len(A)] = h[e]
      /\ \A k \in 0..Len(A) : g[k] \in Tasks(Letters)
      /\ \A k \in 1..Len(A) : TrimmedAs(g[k], g[k - 1], A[k])
  BY <1>3 DEF Dense, SinkTakes, Takes
<1>5. /\ g[0].out = <<>> /\ ~g[0].failed /\ g[0].r_trim = task.r_trim
      /\ g[0].l_trimming /\ ~g[0].r_trimming
  <2>1. BegunAs(h[0], links, task)
    BY BeginningIs DEF FilteredRead
  <2>. QED
    BY <1>4, <2>1 DEF BegunAs, StartsNew
<1>. DEFINE n == Len(A)
<1>6. n \in Nat /\ n \in 0..n
  BY <1>4
<1>7. \A k \in 0..n : ~g[k].failed
  <2>. DEFINE T == {k \in Nat : k <= n => ~g[k].failed}
  <2>1. 0 \in T
    BY <1>5
  <2>2. ASSUME NEW k \in T PROVE k + 1 \in T
    <3>1. CASE k + 1 <= n
      <4>1. k + 1 \in 1..n /\ k + 1 - 1 = k /\ ~g[k].failed
        BY <1>6, <3>1
      <4>2. TrimmedAs(g[k + 1], g[k], A[k + 1])
        BY <1>4, <4>1
      <4>. QED
        BY <4>1, <4>2 DEF TrimmedAs, SameOtherwise
    <3>. QED
      BY <3>1
  <2>3. T = Nat
    <3>1. T \in SUBSET Nat
      OBVIOUS
    <3>. HIDE DEF T
    <3>. QED
      BY <2>1, <2>2, <3>1, SetInduction
  <2>. QED
    BY <1>6, <2>3
<1>8. Complete(h, text, e)
  BY <1>1, <1>2, <1>4, <1>5, <1>7, SinkCompletes
<1>9. read.task = h[e] /\ read.out = read.task.out /\ (read.ok <=> ~read.task.failed)
  <2>1. flush(h[e], links, "trim") = h[e]
    BY FiltersFlush
  <2>. QED
    BY <1>8, <2>1 DEF FilteredRead, ReadAs
<1>10. ASSUME Cleanly(A, task, n) PROVE read.out = Stripped(A)
  <2>. DEFINE T == {k \in Nat : k <= n => Trims(g[k], A, task, k, n)}
  <2>1. 0 \in T
    <3>1. \A i \in 1..0 : White(A, i)
      OBVIOUS
    <3>2. TrimsNone(g[0], A, task, 0)
      BY <1>5, <3>1 DEF TrimsNone
    <3>. QED
      BY <3>2 DEF Trims
  <2>2. ASSUME NEW k \in T PROVE k + 1 \in T
    <3>1. CASE k + 1 <= n
      <4>1. k + 1 \in 1..n /\ k + 1 - 1 = k /\ k < n /\ k \in Nat /\ k \in 0..n
            /\ k + 1 \in 0..n /\ n \in 1..Len(A)
        BY <1>6, <3>1
      <4>2. PICK u \in Tasks(Letters) : u = g[k]
        BY <1>4, <4>1
      <4>3. PICK t \in Tasks(Letters) : t = g[k + 1]
        BY <1>4, <4>1
      <4>4. TrimmedAs(t, u, A[k + 1]) /\ Trims(u, A, task, k, n)
        BY <1>4, <3>1, <4>1, <4>2, <4>3
      <4>5. Trims(t, A, task, k + 1, n)
        BY <1>4, <1>10, <4>1, <4>4, TrimsMore
      <4>. QED
        BY <4>3, <4>5
    <3>. QED
      BY <3>1
  <2>3. T = Nat
    <3>1. T \in SUBSET Nat
      OBVIOUS
    <3>. HIDE DEF T
    <3>. QED
      BY <2>1, <2>2, <3>1, SetInduction
  <2>4. Trims(g[n], A, task, n, n) /\ g[n] \in Tasks(Letters) /\ n \in 0..Len(A)
    BY <1>4, <1>6, <2>3
  <2>. HIDE DEF n
  <2>5. g[n].out = Stripped(SubSeq(A, 1, n))
    BY <1>4, <2>4, TrimsIsStripped
  <2>6. SubSeq(A, 1, n) = A
    BY <1>4 DEF n
  <2>. QED
    BY <1>4, <1>9, <2>5, <2>6 DEF n
<1>. QED
  BY <1>4, <1>6, <1>7, <1>9, <1>10 DEF TrimmedRead

(* The first n characters have no whitespace behind a word.                *)
Unused(text, n) == \A i, j \in 1..n : i < j /\ ~White(text, i) => ~White(text, j)

(* A text without gaps that ends with a word has none. *)
LEMMA UnusedIs ==
  ASSUME NEW text \in Seq(Letters), NEW n \in 0..Len(text),
         NEW first, first = SubSeq(text, 1, n),
         Gaps(first) = {}, Words(first) = {} \/ EndsTrimmed(first)
  PROVE  Unused(text, n)
<1>1. PartAs(first, text, n)
  BY PartIs
<1>2. /\ Len(first) = n /\ first \in Seq(Letters)
      /\ \A i \in 1..n : first[i] = text[i]
      /\ \A i \in 1..n : ~White(text, i) => i \in Words(first)
      /\ \A i \in 1..n : ~GapAt(text, n, i)
  BY <1>1 DEF PartAs
<1>. SUFFICES ASSUME NEW i \in 1..n, NEW j \in 1..n, i < j, ~White(text, i), White(text, j)
              PROVE  FALSE
  BY DEF Unused
<1>3. EndsTrimmed(first)
  BY <1>2
<1>4. first[n] \notin Whitespace
  BY <1>2, <1>3 DEF EndsTrimmed, Last
<1>5. n \in 1..n /\ n \in Nat /\ ~White(text, n)
  <2>1. n \in 1..n /\ n \in Nat
    OBVIOUS
  <2>. QED
    BY <1>2, <1>4, <2>1 DEF White
<1>6. j \in i..n
  OBVIOUS
<1>7. PICK g \in i..n : GapAt(text, n, g)
  BY <1>5, <1>6, GapBetween
<1>8. g \in 1..n
  OBVIOUS
<1>. QED
  BY <1>2, <1>7, <1>8

(* The trimmer keeps no whitespace of such a text. *)
LEMMA TrimmerLeaves ==
  ASSUME NEW text \in Seq(Character), NEW e \in Nat \ {0},
         NEW task \in Tasks(Letters), task.r_trim = <<>>, NEW read, NEW h,
         FilteredRead(read, h, text, e, task, <<>>, "trim"), Unused(text, Reach(text, e))
  PROVE  read.task.r_trim = <<>>
<1>. DEFINE m == Reach(text, e)
<1>1. /\ m \in Nat /\ m <= Len(text) /\ (e <= Len(text) => m = e) /\ "trim" \in Sinks
      /\ FilterLinks(<<>>)
  BY DEF Reach, Sinks, FilterLinks
<1>2. /\ BegunAs(h[0], <<>>, task)
      /\ \A k \in 1..m : TrimmedAs(h[k], h[k - 1], text[k])
  BY <1>1, PlainTrims
<1>3. h[0].r_trim = <<>> /\ h[0].l_trimming
  BY <1>2 DEF BegunAs
<1>4. \A i, j \in 1..m : i < j /\ ~White(text, i) => ~White(text, j)
  BY DEF Unused
<1>. HIDE DEF m
<1>5. \A k \in 0..m : h[k].r_trim = <<>>
  <2>. DEFINE Unkept(k) == /\ h[k].r_trim = <<>>
                           /\ ~h[k].l_trimming => \E i \in 1..k : ~White(text, i)
              T == {k \in Nat : k <= m => Unkept(k)}
  <2>1. 0 \in T
    BY <1>3
  <2>2. ASSUME NEW k \in T PROVE k + 1 \in T
    <3>1. CASE k + 1 <= m
      <4>1. k + 1 \in 1..m /\ k + 1 - 1 = k /\ \A i \in 1..k : i \in 1..m /\ i < k + 1
        BY <1>1, <3>1
      <4>2. Unkept(k) /\ TrimmedAs(h[k + 1], h[k], text[k + 1])
        BY <1>1, <1>2, <3>1, <4>1
      <4>3. CASE h[k].l_trimming /\ White(text, k + 1)
        <5>1. h[k + 1] = h[k]
          BY <4>2, <4>3 DEF TrimmedAs, White
        <5>. QED
          BY <4>2, <4>3, <5>1
      <4>4. CASE h[k].l_trimming /\ ~White(text, k + 1)
        <5>1. h[k + 1].r_trim = h[k].r_trim
          BY <4>2, <4>4 DEF TrimmedAs, White
        <5>2. k + 1 \in 1..(k + 1)
          OBVIOUS
        <5>. QED
          BY <4>2, <4>4, <5>1, <5>2
      <4>5. CASE ~h[k].l_trimming
        <5>1. PICK i \in 1..k : ~White(text, i)
          BY <4>2, <4>5
        <5>2. ~White(text, k + 1)
          BY <1>4, <4>1, <5>1
        <5>3. h[k + 1].r_trim = h[k].r_trim
          BY <4>2, <4>5, <5>2 DEF TrimmedAs, White
        <5>4. i \in 1..(k + 1)
          OBVIOUS
        <5>. QED
          BY <4>2, <5>1, <5>3, <5>4
      <4>. QED
        BY <4>3, <4>4, <4>5
    <3>. QED
      BY <3>1
  <2>3. T = Nat
    <3>1. T \in SUBSET Nat
      OBVIOUS
    <3>. HIDE DEF T
    <3>. QED
      BY <2>1, <2>2, <3>1, SetInduction
  <2>. QED
    BY <1>1, <2>3
<1>6. ReadAs(read, h, text, e, <<>>, "trim")
  BY DEF FilteredRead
<1>7. CASE Complete(h, text, e)
  <2>1. flush(h[e], <<>>, "trim") = h[e]
    BY <1>1, FiltersFlush
  <2>2. read.task = h[e]
    BY <1>6, <1>7, <2>1 DEF ReadAs
  <2>3. e \in 0..m
    BY <1>1, <1>7 DEF Complete
  <2>. QED
    BY <1>5, <2>2, <2>3
<1>8. CASE ~Complete(h, text, e)
  BY <1>5, <1>6, <1>8 DEF ReadAs, m
<1>. QED
  BY <1>7, <1>8

-----------------------------------------------------------------------------
(* The extractor. *)

(* What it has come to after k of e characters: only whitespace yet, a     *)
(* single character at the end, an open quote at f, one closed at q.       *)
Blank(text, k) == \A i \in 1..k : White(text, i)
Begins(text, f) == Blank(text, f - 1) /\ ~White(text, f)
ExtractsNone(t, text, k) ==
  /\ Blank(text, k)
  /\ t.l_trimming /\ ~t.r_trimming /\ t.out = <<>>
  /\ t.read_until = <<>> /\ t.right_of_token = <<>>
ExtractsLone(t, text, k, e) ==
  /\ k = e /\ e > 0 /\ Begins(text, e) /\ text[e] # Quote
  /\ t.l_trimming /\ ~t.r_trimming /\ t.out = SubSeq(text, e, e)
  /\ t.read_until = <<>> /\ t.right_of_token = <<>>
ExtractsOpen(t, text, k, f) ==
  /\ Begins(text, f) /\ text[f] = Quote /\ \A i \in (f + 1)..k : text[i] # Quote
  /\ ~t.l_trimming /\ ~t.r_trimming /\ t.out = SubSeq(text, f + 1, k)
  /\ t.read_until = <<>> /\ t.right_of_token = <<>>
Astray(text, q, n) == \E i \in (q + 1)..n : ~White(text, i) /\ text[i] # Quote
ExtractsShut(t, text, k, f, q, e) ==
  /\ Begins(text, f) /\ text[f] = Quote /\ f < q /\ text[q] = Quote
  /\ \A i \in (f + 1)..(q - 1) : text[i] # Quote
  /\ ~t.l_trimming /\ t.r_trimming /\ t.out = SubSeq(text, f + 1, q - 1)
  /\ k < e => t.read_until = <<>> /\ (t.right_of_token # <<>> <=> Astray(text, q, k))
  /\ k = e => /\ t.read_until = IF text[e] = Quote THEN <<>> ELSE <<text[e]>>
              /\ t.right_of_token # <<>> <=> Astray(text, q, e - 1)
Extracts(t, text, k, e) ==
  /\ ~t.failed
  /\ \/ ExtractsNone(t, text, k)
     \/ ExtractsLone(t, text, k, e)
     \/ \E f \in 1..k : \/ ExtractsOpen(t, text, k, f)
                        \/ \E q \in 1..k : ExtractsShut(t, text, k, f, q, e)

(* It fails at a word that is no quote, unless that is the end.            *)
Misplaced(text, e) == \E f \in 1..(e - 1) : Begins(text, f) /\ text[f] # Quote

(* From the whitespace in front. *)
LEMMA NoneExtracts ==
  ASSUME NEW text \in Seq(Letters), NEW e \in Nat, NEW k \in Nat, k < e, k < Len(text),
         NEW u \in Tasks(Letters), ~u.failed, ExtractsNone(u, text, k),
         NEW t \in Tasks(Letters),
         NEW last, last <=> k + 1 = e, ExtractedAs(t, u, text[k + 1], last)
  PROVE  Extracts(t, text, k + 1, e) \/ (t.failed /\ Misplaced(text, e))
<1>0. /\ k + 1 \in 1..Len(text) /\ k + 1 \in 1..e /\ (k + 1) - 1 = k /\ k + 1 \in 1..(k + 1)
      /\ e \in Nat /\ Len(text) \in Nat
  OBVIOUS
<1>1. PICK c \in Letters : c = text[k + 1]
  BY <1>0
<1>2. last <=> k + 1 = e
  OBVIOUS
<1>3. ExtractedAs(t, u, c, last) /\ (White(text, k + 1) <=> c \in Whitespace)
  BY <1>1, <1>2 DEF White
<1>4. /\ Blank(text, k) /\ u.l_trimming /\ ~u.r_trimming /\ u.out = <<>>
      /\ u.read_until = <<>> /\ u.right_of_token = <<>>
  BY DEF ExtractsNone
<1>5. CASE White(text, k + 1)
  <2>1. t = u
    BY <1>3, <1>4, <1>5 DEF ExtractedAs
  <2>2. Blank(text, k + 1)
    <3>. SUFFICES ASSUME NEW i \in 1..(k + 1) PROVE White(text, i)
      BY DEF Blank
    <3>1. i \in 1..k \/ i = k + 1
      OBVIOUS
    <3>. QED
      BY <1>4, <1>5, <3>1 DEF Blank
  <2>3. ExtractsNone(t, text, k + 1)
    BY <1>4, <2>1, <2>2 DEF ExtractsNone
  <2>. QED
    BY <2>1, <2>3 DEF Extracts
<1>6. CASE ~White(text, k + 1) /\ c = Quote
  <2>1. /\ t.out = u.out /\ (t.failed <=> u.failed) /\ ~t.l_trimming
        /\ (t.r_trimming <=> u.r_trimming)
        /\ t.read_until = u.read_until /\ t.right_of_token = u.right_of_token
    BY <1>3, <1>4, <1>6 DEF ExtractedAs
  <2>2. SubSeq(text, (k + 1) + 1, k + 1) = <<>> /\ \A i \in ((k + 1) + 1)..(k + 1) : FALSE
    BY <1>0
  <2>3. Begins(text, k + 1)
    BY <1>0, <1>4, <1>6 DEF Begins
  <2>4. ExtractsOpen(t, text, k + 1, k + 1)
    BY <1>1, <1>4, <1>6, <2>1, <2>2, <2>3 DEF ExtractsOpen
  <2>. QED
    BY <1>0, <2>1, <2>4 DEF Extracts
<1>7. CASE ~White(text, k + 1) /\ c # Quote /\ last
  <2>1. /\ t.out = Append(u.out, c) /\ (t.failed <=> u.failed) /\ t.l_trimming
        /\ (t.r_trimming <=> u.r_trimming)
        /\ t.read_until = u.read_until /\ t.right_of_token = u.right_of_token
    BY <1>3, <1>4, <1>7 DEF ExtractedAs
  <2>2. k + 1 = e
    BY <1>2, <1>7
  <2>3. SubSeq(text, e, e) = Append(<<>>, c)
    BY <1>0, <1>1, <2>2, OneElement
  <2>4. Begins(text, e) /\ e > 0
    BY <1>0, <1>4, <1>7, <2>2 DEF Begins
  <2>5. ExtractsLone(t, text, k + 1, e)
    BY <1>1, <1>4, <1>7, <2>1, <2>2, <2>3, <2>4 DEF ExtractsLone
  <2>. QED
    BY <2>1, <2>5 DEF Extracts
<1>8. CASE ~White(text, k + 1) /\ c # Quote /\ ~last
  <2>1. t.failed
    BY <1>3, <1>4, <1>8 DEF ExtractedAs
  <2>2. k + 1 \in 1..(e - 1)
    <3>1. k + 1 # e
      BY <1>2, <1>8, Zenon
    <3>. QED
      BY <1>0, <3>1
  <2>3. Begins(text, k + 1)
    BY <1>0, <1>4, <1>8 DEF Begins
  <2>. QED
    BY <1>1, <1>8, <2>1, <2>2, <2>3 DEF Misplaced
<1>. QED
  BY <1>5, <1>6, <1>7, <1>8

(* From an open quote. *)
LEMMA OpenExtracts ==
  ASSUME NEW text \in Seq(Letters), NEW e \in Nat, NEW k \in Nat, k < e, k < Len(text),
         NEW u \in Tasks(Letters), ~u.failed, NEW f \in 1..k, ExtractsOpen(u, text, k, f),
         NEW t \in Tasks(Letters),
         NEW last, last <=> k + 1 = e, ExtractedAs(t, u, text[k + 1], last)
  PROVE  Extracts(t, text, k + 1, e)
<1>0. /\ k + 1 \in 1..Len(text) /\ k + 1 \in 1..e /\ (k + 1) - 1 = k /\ k + 1 \in 1..(k + 1)
      /\ e \in Nat /\ Len(text) \in Nat /\ f \in 1..(k + 1) /\ f < k + 1 /\ f + 1 \in 1..(k + 1)
  OBVIOUS
<1>1. PICK c \in Letters : c = text[k + 1]
  BY <1>0
<1>2. last <=> k + 1 = e
  OBVIOUS
<1>3. ExtractedAs(t, u, c, last)
  BY <1>1, <1>2
<1>4. /\ Begins(text, f) /\ text[f] = Quote /\ \A i \in (f + 1)..k : text[i] # Quote
      /\ ~u.l_trimming /\ ~u.r_trimming /\ u.out = SubSeq(text, f + 1, k)
      /\ u.read_until = <<>> /\ u.right_of_token = <<>>
  BY DEF ExtractsOpen
<1>5. CASE c = Quote
  <2>1. /\ t.out = u.out /\ (t.failed <=> u.failed) /\ ~t.l_trimming /\ t.r_trimming
        /\ t.read_until = u.read_until /\ t.right_of_token = u.right_of_token
    BY <1>3, <1>4, <1>5 DEF ExtractedAs
  <2>2. ~Astray(text, k + 1, k + 1) /\ ~Astray(text, k + 1, k)
    BY <1>0 DEF Astray
  <2>3. (k + 1 = e) => e - 1 = k
    BY <1>0
  <2>4. ExtractsShut(t, text, k + 1, f, k + 1, e)
    BY <1>0, <1>1, <1>4, <1>5, <2>1, <2>2, <2>3 DEF ExtractsShut
  <2>. QED
    BY <1>0, <2>1, <2>4 DEF Extracts
<1>6. CASE c # Quote
  <2>1. /\ t.out = Append(u.out, c) /\ (t.failed <=> u.failed) /\ ~t.l_trimming
        /\ ~t.r_trimming
        /\ t.read_until = u.read_until /\ t.right_of_token = u.right_of_token
    BY <1>3, <1>4, <1>6 DEF ExtractedAs
  <2>2. Append(SubSeq(text, f + 1, k), c) = SubSeq(text, f + 1, k + 1)
    BY <1>0, <1>1
  <2>3. ASSUME NEW i \in (f + 1)..(k + 1) PROVE text[i] # Quote
    <3>1. i \in (f + 1)..k \/ i = k + 1
      BY <1>0
    <3>. QED
      BY <1>1, <1>4, <1>6, <3>1
  <2>4. ExtractsOpen(t, text, k + 1, f)
    BY <1>4, <2>1, <2>2, <2>3 DEF ExtractsOpen
  <2>. QED
    BY <1>0, <2>1, <2>4 DEF Extracts
<1>. QED
  BY <1>5, <1>6

(* Behind a closed quote. *)
LEMMA ShutExtracts ==
  ASSUME NEW text \in Seq(Letters), NEW e \in Nat, NEW k \in Nat, k < e, k < Len(text),
         NEW u \in Tasks(Letters), ~u.failed, NEW f \in 1..k, NEW q \in 1..k,
         ExtractsShut(u, text, k, f, q, e),
         NEW t \in Tasks(Letters),
         NEW last, last <=> k + 1 = e, ExtractedAs(t, u, text[k + 1], last)
  PROVE  Extracts(t, text, k + 1, e)
<1>0. /\ k + 1 \in 1..Len(text) /\ k + 1 \in 1..e /\ (k + 1) - 1 = k /\ k + 1 \in 1..(k + 1)
      /\ e \in Nat /\ Len(text) \in Nat /\ f \in 1..(k + 1) /\ q \in 1..(k + 1)
      /\ k + 1 \in (q + 1)..(k + 1) /\ ~(k = e)
  OBVIOUS
<1>1. PICK c \in Letters : c = text[k + 1]
  BY <1>0
<1>2. last <=> k + 1 = e
  OBVIOUS
<1>3. ExtractedAs(t, u, c, last) /\ (White(text, k + 1) <=> c \in Whitespace)
  BY <1>1, <1>2 DEF White
<1>4. /\ Begins(text, f) /\ text[f] = Quote /\ f < q /\ text[q] = Quote
      /\ \A i \in (f + 1)..(q - 1) : text[i] # Quote
      /\ ~u.l_trimming /\ u.r_trimming /\ u.out = SubSeq(text, f + 1, q - 1)
      /\ u.read_until = <<>> /\ (u.right_of_token # <<>> <=> Astray(text, q, k))
  BY DEF ExtractsShut
<1>5. White(text, k + 1) \/ text[k + 1] = Quote => (Astray(text, q, k + 1) <=> Astray(text, q, k))
  <2>1. \A i \in (q + 1)..(k + 1) : i \in (q + 1)..k \/ i = k + 1
    BY <1>0
  <2>2. \A i \in (q + 1)..k : i \in (q + 1)..(k + 1)
    BY <1>0
  <2>. QED
    BY <2>1, <2>2 DEF Astray
<1>6. CASE c = Quote
  <2>1. /\ t.out = u.out /\ (t.failed <=> u.failed) /\ ~t.l_trimming /\ t.r_trimming
        /\ t.read_until = u.read_until /\ t.right_of_token = u.right_of_token
    BY <1>3, <1>4, <1>6 DEF ExtractedAs
  <2>2. (k + 1 = e) => e - 1 = k
    BY <1>0
  <2>3. ExtractsShut(t, text, k + 1, f, q, e)
    BY <1>1, <1>4, <1>5, <1>6, <2>1, <2>2 DEF ExtractsShut
  <2>. QED
    BY <1>0, <2>1, <2>3 DEF Extracts
<1>7. CASE c # Quote /\ last
  <2>1. /\ t.out = u.out /\ (t.failed <=> u.failed) /\ ~t.l_trimming /\ t.r_trimming
        /\ t.read_until = <<c>> /\ t.right_of_token = u.right_of_token
    BY <1>3, <1>4, <1>7 DEF ExtractedAs
  <2>2. k + 1 = e
    BY <1>2, <1>7, Zenon
  <2>3. e - 1 = k /\ ~(k + 1 < e)
    BY <1>0, <2>2
  <2>4. ExtractsShut(t, text, k + 1, f, q, e)
    BY <1>1, <1>4, <1>7, <2>1, <2>2, <2>3 DEF ExtractsShut
  <2>. QED
    BY <1>0, <2>1, <2>4 DEF Extracts
<1>8. ASSUME c # Quote, ~last PROVE k + 1 # e
  BY <1>2, <1>8, Zenon
<1>9. CASE c # Quote /\ ~last /\ White(text, k + 1)
  <2>1. t = u
    BY <1>3, <1>4, <1>9 DEF ExtractedAs
  <2>2. k + 1 # e
    BY <1>8, <1>9
  <2>3. ExtractsShut(t, text, k + 1, f, q, e)
    BY <1>4, <1>5, <1>9, <2>1, <2>2 DEF ExtractsShut
  <2>. QED
    BY <1>0, <2>1, <2>3 DEF Extracts
<1>10. CASE c # Quote /\ ~last /\ ~White(text, k + 1)
  <2>1. /\ t.out = u.out /\ (t.failed <=> u.failed) /\ ~t.l_trimming /\ t.r_trimming
        /\ t.read_until = u.read_until /\ t.right_of_token = <<c>>
    BY <1>3, <1>4, <1>10 DEF ExtractedAs
  <2>2. k + 1 # e
    BY <1>8, <1>10
  <2>3. Astray(text, q, k + 1)
    BY <1>0, <1>1, <1>10 DEF Astray
  <2>4. <<c>> # <<>>
    OBVIOUS
  <2>5. ExtractsShut(t, text, k + 1, f, q, e)
    BY <1>4, <2>1, <2>2, <2>3, <2>4 DEF ExtractsShut
  <2>. QED
    BY <1>0, <2>1, <2>5 DEF Extracts
<1>. QED
  BY <1>6, <1>7, <1>9, <1>10

(* The extractor, one character further. *)
LEMMA ExtractsMore ==
  ASSUME NEW text \in Seq(Letters), NEW e \in Nat, NEW k \in Nat, k < e, k < Len(text),
         NEW u \in Tasks(Letters), Extracts(u, text, k, e),
         NEW t \in Tasks(Letters),
         NEW last, last <=> k + 1 = e, ExtractedAs(t, u, text[k + 1], last)
  PROVE  Extracts(t, text, k + 1, e) \/ (t.failed /\ Misplaced(text, e))
<1>1. ~u.failed
  BY DEF Extracts
<1>2. CASE ExtractsNone(u, text, k)
  BY <1>1, <1>2, NoneExtracts
<1>3. CASE ExtractsLone(u, text, k, e)
  <2>1. k # e
    OBVIOUS
  <2>. QED
    BY <1>3, <2>1 DEF ExtractsLone
<1>4. ASSUME NEW f \in 1..k, ExtractsOpen(u, text, k, f)
      PROVE  Extracts(t, text, k + 1, e)
  BY <1>1, <1>4, OpenExtracts
<1>5. ASSUME NEW f \in 1..k, NEW q \in 1..k, ExtractsShut(u, text, k, f, q, e)
      PROVE  Extracts(t, text, k + 1, e)
  BY <1>1, <1>5, ShutExtracts
<1>. QED
  BY <1>2, <1>3, <1>4, <1>5 DEF Extracts

(* The token of a text that begins with a word at f, in a call that ends   *)
(* with the character at e.                                                *)
CallEnd(text, ended, e) == e = IF ended THEN Len(text) ELSE Len(text) + 1
Quotes(text, f) == {i \in (f + 1)..Len(text) : text[i] = Quote}
Kept(text, e) == IF e = Len(text) /\ text[e] # Quote THEN <<text[e]>> ELSE <<>>
TokenFrom(text, f, e) ==
  LET right == Min(Quotes(text, f))
  IN  IF f = e /\ text[f] # Quote THEN [ok |-> TRUE, out |-> <<text[f]>>]
      ELSE IF text[f] # Quote \/ Quotes(text, f) = {} \/ Astray(text, right, e - 1)
      THEN [ok |-> FALSE]
      ELSE [ok |-> TRUE, out |-> SubSeq(text, f + 1, right - 1) \o Kept(text, e)]

(* The first word of a text that has one. *)
LEMMA FirstWord ==
  ASSUME NEW text \in Seq(Letters), NEW f \in 1..Len(text), Begins(text, f)
  PROVE  Min(Words(text) \cup {Len(text) + 1}) = f
<1>1. PICK e \in Nat : e = Len(text)
  OBVIOUS
<1>2. Words(text) = {i \in 1..e : ~White(text, i)}
  BY <1>1 DEF Words, White
<1>3. PICK W : W = Words(text) \cup {Len(text) + 1}
  OBVIOUS
<1>4. W \in SUBSET (1..(e + 1)) /\ e + 1 \in Nat /\ f \in W
  BY <1>1, <1>2, <1>3 DEF Begins
<1>5. ASSUME NEW i \in W PROVE f <= i
  <2>1. i \in 1..(e + 1) /\ (i = e + 1 \/ ~White(text, i))
    BY <1>1, <1>2, <1>3
  <2>2. ASSUME i \in 1..(f - 1) PROVE White(text, i)
    BY <2>2 DEF Begins, Blank
  <2>. QED
    BY <1>1, <2>1, <2>2
<1>6. Min(W) \in W /\ \A i \in W : Min(W) <= i
  BY <1>4, MinIsIn
<1>7. PICK m : m = Min(W)
  OBVIOUS
<1>8. m \in W /\ m <= f
  BY <1>4, <1>6, <1>7
<1>9. m \in 1..(e + 1) /\ f <= m
  BY <1>4, <1>5, <1>8
<1>10. m = f
  BY <1>8, <1>9
<1>. QED
  BY <1>3, <1>7, <1>10

(* That is its token. *)
LEMMA TokenIs ==
  ASSUME NEW text \in Seq(Letters), NEW ended, NEW e, CallEnd(text, ended, e),
         NEW f \in 1..Len(text), Begins(text, f)
  PROVE  Token(text, ended) = TokenFrom(text, f, e)
<1>1. PICK n \in Nat : n = Len(text)
  OBVIOUS
<1>2. e = (IF ended THEN n ELSE n + 1) /\ (ended <=> e = Len(text)) /\ ~(f > Len(text))
      /\ f \in Nat
  BY <1>1 DEF CallEnd
<1>3. Min(Words(text) \cup {Len(text) + 1}) = f
  BY FirstWord
<1>. DEFINE quotes == {i \in (f + 1)..Len(text) : text[i] = "\""}
            right == Min(quotes)
            astray == \E i \in (right + 1)..(e - 1) : text[i] \notin Whitespace \cup {"\""}
            rest == IF ended /\ Last(text) # "\"" THEN <<Last(text)>> ELSE <<>>
<1>4. quotes = Quotes(text, f)
  BY DEF Quotes, Quote
<1>5. (astray <=> Astray(text, right, e - 1)) /\ rest = Kept(text, e)
  <2>1. astray <=> Astray(text, right, e - 1)
    BY DEF Astray, White, Quote
  <2>2. rest = Kept(text, e)
    BY <1>2 DEF Kept, Quote, Last
  <2>. QED
    BY <2>1, <2>2
<1>6. Token(text, ended) =
        IF f > Len(text) THEN [ok |-> TRUE, out |-> <<>>]
        ELSE IF f = e /\ text[f] # "\"" THEN [ok |-> TRUE, out |-> <<text[f]>>]
        ELSE IF text[f] # "\"" \/ quotes = {} \/ astray
        THEN [ok |-> FALSE]
        ELSE [ok |-> TRUE, out |-> SubSeq(text, f + 1, right - 1) \o rest]
  BY <1>1, <1>2, <1>3 DEF Token
<1>7. right = Min(Quotes(text, f))
  BY <1>4
<1>. HIDE DEF right, quotes, astray, rest
<1>. QED
  BY <1>2, <1>4, <1>5, <1>6, <1>7 DEF TokenFrom, Quote

(* The token of whitespace is empty. *)
LEMMA BlankToken ==
  ASSUME NEW text \in Seq(Letters), Blank(text, Len(text)), NEW ended
  PROVE  Token(text, ended) = [ok |-> TRUE, out |-> <<>>]
<1>1. PICK n \in Nat : n = Len(text)
  OBVIOUS
<1>2. Words(text) = {}
  <2>1. \A i \in DOMAIN text : i \in 1..n
    BY <1>1
  <2>. QED
    BY <1>1, <2>1 DEF Words, Blank, White
<1>3. Min(Words(text) \cup {Len(text) + 1}) = n + 1
  <2>1. {n + 1} \in SUBSET (1..(n + 1)) /\ n + 1 \in Nat /\ {n + 1} # {}
    OBVIOUS
  <2>2. Min({n + 1}) \in {n + 1}
    BY <2>1, MinIsIn
  <2>3. Words(text) \cup {Len(text) + 1} = {n + 1}
    BY <1>1, <1>2
  <2>. QED
    BY <2>2, <2>3
<1>4. n + 1 > Len(text)
  BY <1>1
<1>. QED
  BY <1>3, <1>4 DEF Token

(* The field of a token that is not there. *)
LEMMA TokenFails ==
  ASSUME NEW r, r = [ok |-> FALSE]
  PROVE  r.ok \in BOOLEAN /\ ~r.ok
<1>1. r.ok = FALSE
  OBVIOUS
<1>. QED
  BY <1>1

(* The fields of one that is there. *)
LEMMA TokenGives ==
  ASSUME NEW out, NEW r, r = [ok |-> TRUE, out |-> out]
  PROVE  r.ok \in BOOLEAN /\ r.ok /\ r.out = out
<1>1. r.ok = TRUE
  OBVIOUS
<1>2. r.out = out
  OBVIOUS
<1>. QED
  BY <1>1, <1>2

(* What the extractor has come to, flushed, is the token.                  *)
TokenOf(v, token) ==
  /\ ~v.failed <=> token.ok
  /\ token.ok \in BOOLEAN
  /\ ~v.failed => v.out = token.out

(* With nothing, one character or an open quote. *)
LEMMA OpenToken ==
  ASSUME NEW text \in Seq(Letters), NEW ended, NEW e, CallEnd(text, ended, e),
         NEW t, t.out \in Seq(Letters), NEW v, FlushedAs(v, t),
         NEW token, token = Token(text, ended), NEW n, n = Len(text),
         ExtractsNone(t, text, n) \/ ExtractsLone(t, text, n, e)
           \/ \E f \in 1..n : ExtractsOpen(t, text, n, f)
  PROVE  TokenOf(v, token)
<1>1. CASE ExtractsNone(t, text, n)
  <2>1. token = [ok |-> TRUE, out |-> <<>>]
    BY <1>1, BlankToken DEF ExtractsNone
  <2>2. token.ok /\ token.ok \in BOOLEAN /\ token.out = <<>>
    BY <2>1, TokenGives
  <2>3. t.out = <<>> /\ t.read_until = <<>> /\ t.right_of_token = <<>> /\ t.l_trimming
    BY <1>1 DEF ExtractsNone
  <2>4. ~v.failed /\ v.out = <<>> \o <<>>
    BY <2>3 DEF FlushedAs
  <2>. QED
    BY <2>2, <2>4 DEF TokenOf
<1>2. CASE ExtractsLone(t, text, n, e)
  <2>0. Begins(text, e) /\ text[e] # Quote /\ t.out = SubSeq(text, e, e) /\ n = e
        /\ t.l_trimming /\ t.read_until = <<>> /\ t.right_of_token = <<>>
    BY <1>2 DEF ExtractsLone
  <2>1. e \in 1..Len(text)
    <3>1. e > 0 /\ e = Len(text)
      BY <1>2, <2>0 DEF ExtractsLone
    <3>2. Len(text) \in Nat
      OBVIOUS
    <3>. QED
      BY <3>1, <3>2
  <2>2. token = TokenFrom(text, e, e)
    BY <2>0, <2>1, TokenIs
  <2>3. token = [ok |-> TRUE, out |-> <<text[e]>>]
    BY <2>0, <2>2 DEF TokenFrom
  <2>4. token.ok /\ token.ok \in BOOLEAN /\ token.out = <<text[e]>>
    BY <2>3, TokenGives
  <2>5. SubSeq(text, e, e) = Append(<<>>, text[e]) /\ Append(<<>>, text[e]) = <<text[e]>>
    BY <2>1, OneElement
  <2>6. ~v.failed /\ v.out = <<text[e]>> \o <<>>
    BY <2>0, <2>5 DEF FlushedAs
  <2>7. <<text[e]>> \o <<>> = <<text[e]>>
    BY <2>1
  <2>. QED
    BY <2>4, <2>6, <2>7 DEF TokenOf
<1>3. ASSUME NEW f \in 1..n, ExtractsOpen(t, text, n, f) PROVE TokenOf(v, token)
  <2>0. Begins(text, f) /\ text[f] = Quote /\ (\A i \in (f + 1)..n : text[i] # Quote)
        /\ ~t.l_trimming /\ ~t.r_trimming
    BY <1>3 DEF ExtractsOpen
  <2>1. token = TokenFrom(text, f, e)
    BY <2>0, TokenIs
  <2>2. Quotes(text, f) = {}
    BY <2>0 DEF Quotes
  <2>3. token = [ok |-> FALSE]
    BY <2>0, <2>1, <2>2 DEF TokenFrom
  <2>4. ~token.ok /\ token.ok \in BOOLEAN
    BY <2>3, TokenFails
  <2>5. v.failed
    BY <2>0 DEF FlushedAs
  <2>. QED
    BY <2>4, <2>5 DEF TokenOf
<1>. QED
  BY <1>1, <1>2, <1>3

(* With a closed quote. *)
LEMMA ShutToken ==
  ASSUME NEW text \in Seq(Letters), NEW ended, NEW e, CallEnd(text, ended, e),
         NEW t, NEW v, FlushedAs(v, t),
         NEW token, token = Token(text, ended), NEW n, n = Len(text),
         NEW f \in 1..n, NEW q \in 1..n, ExtractsShut(t, text, n, f, q, e)
  PROVE  TokenOf(v, token)
<1>0. /\ Begins(text, f) /\ text[f] = Quote /\ f < q /\ text[q] = Quote
      /\ \A i \in (f + 1)..(q - 1) : text[i] # Quote
      /\ ~t.l_trimming /\ t.r_trimming /\ t.out = SubSeq(text, f + 1, q - 1)
  BY DEF ExtractsShut
<1>1. t.read_until = Kept(text, e) /\ (t.right_of_token # <<>> <=> Astray(text, q, e - 1))
  <2>1. n \in Nat /\ e = IF ended THEN n ELSE n + 1
    BY DEF CallEnd
  <2>2. CASE e = n
    BY <2>2 DEF ExtractsShut, Kept
  <2>3. CASE e = n + 1
    <3>1. n < e /\ e - 1 = n /\ e # Len(text)
      BY <2>1, <2>3
    <3>. QED
      BY <3>1 DEF ExtractsShut, Kept
  <2>. QED
    BY <2>1, <2>2, <2>3
<1>2. token = TokenFrom(text, f, e)
  BY <1>0, TokenIs
<1>3. Min(Quotes(text, f)) = q /\ Quotes(text, f) # {}
  <2>1. PICK Q : Q = Quotes(text, f)
    OBVIOUS
  <2>2. Q \in SUBSET (1..n) /\ n \in Nat /\ q \in Q
    <3>0. f < q
      BY <1>0
    <3>1. (\A i \in (f + 1)..n : i \in 1..n) /\ n \in Nat /\ q \in (f + 1)..n
      BY <3>0
    <3>. QED
      BY <1>0, <2>1, <3>1 DEF Quotes
  <2>3. Min(Q) \in Q /\ \A i \in Q : Min(Q) <= i
    BY <2>2, MinIsIn
  <2>4. PICK m : m = Min(Q)
    OBVIOUS
  <2>5. m \in (f + 1)..n /\ text[m] = Quote /\ m <= q
    BY <2>1, <2>2, <2>3, <2>4 DEF Quotes
  <2>6. ~(m \in (f + 1)..(q - 1))
    BY <1>0, <2>5
  <2>7. m = q
    BY <2>5, <2>6
  <2>. QED
    BY <2>1, <2>2, <2>4, <2>7
<1>4. token = IF Astray(text, q, e - 1) THEN [ok |-> FALSE]
              ELSE [ok |-> TRUE, out |-> SubSeq(text, f + 1, q - 1) \o Kept(text, e)]
  BY <1>0, <1>2, <1>3 DEF TokenFrom
<1>5. CASE Astray(text, q, e - 1)
  <2>1. token = [ok |-> FALSE]
    BY <1>4, <1>5
  <2>2. ~token.ok /\ token.ok \in BOOLEAN
    BY <2>1, TokenFails
  <2>3. v.failed
    BY <1>1, <1>5 DEF FlushedAs
  <2>. QED
    BY <2>2, <2>3 DEF TokenOf
<1>6. CASE ~Astray(text, q, e - 1)
  <2>1. PICK out : out = SubSeq(text, f + 1, q - 1) \o Kept(text, e)
    OBVIOUS
  <2>2. token = [ok |-> TRUE, out |-> out]
    BY <1>4, <1>6, <2>1
  <2>3. token.ok /\ token.ok \in BOOLEAN /\ token.out = out
    BY <2>2, TokenGives
  <2>4. ~v.failed /\ v.out = out
    BY <1>0, <1>1, <1>6, <2>1 DEF FlushedAs
  <2>. QED
    BY <2>3, <2>4 DEF TokenOf
<1>. QED
  BY <1>5, <1>6

(* What the extractor reads.                                               *)
ExtractedRead(read, token) ==
  /\ read.ok <=> token.ok
  /\ token.ok \in BOOLEAN
  /\ read.ok => read.out = token.out

(* It reads the token of what reaches it. *)
LEMMA ExtractorReads ==
  ASSUME NEW text \in Seq(Character), NEW e \in 1..Len(text), NEW links, FilterLinks(links),
         NEW task \in Tasks(Letters), StartsNew(links, task), NEW read, NEW h,
         FilteredRead(read, h, text, e, task, links, "extract"), Unrefused(links, text, e),
         NEW A, A = Through(links, SubSeq(text, 1, e)),
         NEW ended, ended <=> Admitted(links, text[e])
  PROVE  ExtractedRead(read, Token(A, ended))
<1>1. "extract" \in Sinks /\ Len(text) \in Nat
  BY DEF Sinks
<1>2. PICK g : SinkRead(g, h, A, links, text, e, "extract")
  BY <1>1, SinkReads DEF FilteredRead
<1>3. PICK end : end = IF ended THEN Len(A) ELSE Len(A) + 1
  OBVIOUS
<1>4. Dense(g, h, A, e, "extract", end)
  BY <1>2, <1>3 DEF SinkRead
<1>5. /\ A \in Seq(Letters) /\ g[0] = h[0] /\ g[Len(A)] = h[e]
      /\ \A k \in 0..Len(A) : g[k] \in Tasks(Letters)
      /\ \A k \in 1..Len(A) : SinkTakes(g, A, k, "extract", end)
  BY <1>4 DEF Dense
<1>. DEFINE n == Len(A)
<1>6. n \in Nat /\ end \in Nat /\ n <= end /\ CallEnd(A, ended, end)
  BY <1>3, <1>5 DEF CallEnd
<1>7. /\ g[0].out = <<>> /\ ~g[0].failed /\ g[0].l_trimming /\ ~g[0].r_trimming
      /\ g[0].read_until = <<>> /\ g[0].right_of_token = <<>>
  <2>1. BegunAs(h[0], links, task)
    BY BeginningIs DEF FilteredRead
  <2>. QED
    BY <1>5, <2>1 DEF BegunAs, StartsNew
<1>8. Extracts(g[0], A, 0, end)
  <2>1. Blank(A, 0)
    BY DEF Blank
  <2>2. ExtractsNone(g[0], A, 0)
    BY <1>7, <2>1 DEF ExtractsNone
  <2>. QED
    BY <1>7, <2>2 DEF Extracts
<1>9. ReadAs(read, h, text, e, links, "extract")
  BY DEF FilteredRead
<1>10. Complete(h, text, e) <=> \A j \in 0..n : ~g[j].failed
  BY <1>1, <1>2, <1>5, <1>7, SinkCompletes
<1>. DEFINE Off(k) == (\E j \in 1..k : g[j].failed) /\ Misplaced(A, end)
            On(k) == Extracts(g[k], A, k, end) /\ \A j \in 0..k : ~g[j].failed
            T == {k \in Nat : k <= n => On(k) \/ Off(k)}
<1>11. 0 \in T
  <2>1. ~g[0].failed
    BY <1>7
  <2>. QED
    BY <1>8, <2>1
<1>12. ASSUME NEW k \in T PROVE k + 1 \in T
  <2>. SUFFICES ASSUME k + 1 <= n PROVE On(k + 1) \/ Off(k + 1)
    OBVIOUS
  <2>1. /\ k \in Nat /\ k + 1 \in 1..n /\ k + 1 - 1 = k /\ k < end /\ k < Len(A) /\ k \in 0..n
        /\ k + 1 \in 0..n /\ k + 1 \in 1..(k + 1)
        /\ \A j \in 0..(k + 1) : j \in 0..k \/ j = k + 1
        /\ \A j \in 1..k : j \in 1..(k + 1)
    BY <1>6
  <2>2. CASE On(k)
    <3>1. PICK u \in Tasks(Letters) : u = g[k]
      BY <1>5, <2>1
    <3>2. PICK t \in Tasks(Letters) : t = g[k + 1]
      BY <1>5, <2>1
    <3>3. PICK last : (last <=> k + 1 = end) /\ ExtractedAs(t, u, A[k + 1], last)
      <4>1. SinkTakes(g, A, k + 1, "extract", end)
        BY <1>5, <2>1
      <4>. QED
        BY <2>1, <3>1, <3>2, <4>1 DEF SinkTakes, Takes
    <3>4. Extracts(u, A, k, end)
      BY <2>2, <3>1
    <3>5. Extracts(t, A, k + 1, end) \/ (t.failed /\ Misplaced(A, end))
      BY <1>5, <1>6, <2>1, <3>3, <3>4, ExtractsMore
    <3>6. CASE Extracts(t, A, k + 1, end)
      <4>1. ~t.failed
        BY <3>6 DEF Extracts
      <4>. QED
        BY <2>1, <2>2, <3>2, <3>6, <4>1
    <3>7. CASE t.failed /\ Misplaced(A, end)
      BY <2>1, <3>2, <3>7
    <3>. QED
      BY <3>5, <3>6, <3>7
  <2>3. CASE Off(k)
    BY <2>1, <2>3
  <2>4. On(k) \/ Off(k)
    BY <2>1
  <2>. QED
    BY <2>2, <2>3, <2>4
<1>13. On(n) \/ Off(n)
  <2>1. T = Nat
    <3>1. T \in SUBSET Nat
      OBVIOUS
    <3>. HIDE DEF T
    <3>. QED
      BY <1>11, <1>12, <3>1, SetInduction
  <2>. QED
    BY <1>6, <2>1
<1>. HIDE DEF T
<1>14. PICK token : token = Token(A, ended)
  OBVIOUS
<1>15. CASE Off(n)
  <2>1. ~read.ok
    <3>1. \A j \in 1..n : j \in 0..n
      OBVIOUS
    <3>2. ~Complete(h, text, e)
      BY <1>10, <1>15, <3>1
    <3>. QED
      BY <1>9, <3>2 DEF ReadAs
  <2>2. PICK f \in 1..(end - 1) : Begins(A, f) /\ A[f] # Quote
    BY <1>15 DEF Misplaced
  <2>3. f \in 1..Len(A) /\ f # end
    BY <1>3, <1>6
  <2>4. token = TokenFrom(A, f, end)
    BY <1>5, <1>6, <1>14, <2>2, <2>3, TokenIs
  <2>5. token = [ok |-> FALSE]
    BY <2>2, <2>3, <2>4 DEF TokenFrom
  <2>6. token.ok \in BOOLEAN /\ ~token.ok
    BY <2>5, TokenFails
  <2>. QED
    BY <1>14, <2>1, <2>6 DEF ExtractedRead
<1>16. CASE On(n)
  <2>1. Complete(h, text, e)
    BY <1>10, <1>16
  <2>2. n \in 0..n
    BY <1>6
  <2>3. PICK u \in Tasks(Letters) : u = g[n]
    BY <1>5, <2>2
  <2>4. PICK v : v = ExtractFlush(u)
    OBVIOUS
  <2>5. FlushedAs(v, u) /\ u.out \in Seq(Letters)
    BY <2>4, ExtractFlushIs DEF Tasks
  <2>6. flush(h[e], links, "extract") = v
    BY <1>5, <2>3, <2>4, FiltersFlush
  <2>7. read.task = v /\ read.out = v.out /\ (read.ok <=> ~v.failed)
    BY <1>9, <2>1, <2>6 DEF ReadAs
  <2>8. Extracts(u, A, n, end)
    BY <1>16, <2>3
  <2>9. TokenOf(v, token)
    <3>1. \/ ExtractsNone(u, A, n) \/ ExtractsLone(u, A, n, end)
          \/ \E f \in 1..n : ExtractsOpen(u, A, n, f)
          \/ \E f, q \in 1..n : ExtractsShut(u, A, n, f, q, end)
      BY <2>8 DEF Extracts
    <3>2. ASSUME NEW f \in 1..n, NEW q \in 1..n, ExtractsShut(u, A, n, f, q, end)
          PROVE  TokenOf(v, token)
      BY <1>5, <1>6, <1>14, <2>5, <3>2, ShutToken
    <3>3. CASE \/ ExtractsNone(u, A, n) \/ ExtractsLone(u, A, n, end)
               \/ \E f \in 1..n : ExtractsOpen(u, A, n, f)
      BY <1>5, <1>6, <1>14, <2>5, <3>3, OpenToken
    <3>. QED
      BY <3>1, <3>2, <3>3
  <2>. QED
    BY <1>14, <2>7, <2>9 DEF TokenOf, ExtractedRead
<1>. QED
  BY <1>13, <1>15, <1>16

(* A call that returns leaves it as new, whatever it began with. *)
LEMMA ExtractorLeaves ==
  ASSUME NEW text, NEW e, NEW links, FilterLinks(links), NEW task, NEW read, NEW h,
         FilteredRead(read, h, text, e, task, links, "extract"), read.ok,
         Complete(h, text, e) => h[e] \in Tasks(Letters)
  PROVE  AsNew(read.task)
<1>1. ReadAs(read, h, text, e, links, "extract")
  BY DEF FilteredRead
<1>2. Complete(h, text, e)
  BY <1>1 DEF ReadAs
<1>3. flush(h[e], links, "extract") = ExtractFlush(h[e])
  BY FiltersFlush
<1>4. read.task = ExtractFlush(h[e]) /\ ~read.task.failed
  BY <1>1, <1>2, <1>3 DEF ReadAs
<1>5. PICK u \in Tasks(Letters) : u = h[e]
  BY <1>2
<1>6. FlushedAs(read.task, u)
  BY <1>4, <1>5, ExtractFlushIs
<1>. QED
  BY <1>4, <1>6 DEF FlushedAs

-----------------------------------------------------------------------------
(* A read of a task, and the second one. *)

(* ok is true or false. *)
LEMMA OkIsBoolean ==
  ASSUME NEW text, NEW criteria, NEW task, NEW links, NEW sink,
         NEW read, read = ReadWith(text, 0, criteria, task, links, sink)
  PROVE  read.ok \in BOOLEAN
<1>1. PICK call : call = Collect(text, 0, criteria, Beginning(links, task), links, sink)
  OBVIOUS
<1>2. PICK t : t = flush(call.task, links, sink)
  OBVIOUS
<1>3. read = Flushed(call, t)
  BY <1>1, <1>2 DEF ReadWith, FlushedWith, Beginning
<1>4. read.ok = (call.status = "returned" /\ ~t.failed)
  BY <1>3 DEF Flushed
<1>. QED
  BY <1>4

(* What is known of a read behind filters.                                 *)
Read1(s, text, clean, as_new, read, r) ==
  /\ TaskRead(s, text, clean, as_new, r)
  /\ read.task \in Tasks(Letters) /\ ~read.task.bailed
  /\ s.sink = "extract" /\ read.ok => AsNew(read.task)

(* Characters are letters. *)
LEMMA CharactersAreLetters ==
  ASSUME NEW text \in Seq(Character)
  PROVE  text \in Seq(Letters)
<1>1. Len(text) \in Nat /\ DOMAIN text = 1..Len(text)
      /\ text = [i \in DOMAIN text |-> text[i]]
  OBVIOUS
<1>2. \A i \in 1..Len(text) : text[i] \in Letters
  <2>1. \A i \in 1..Len(text) : text[i] \in Character
    OBVIOUS
  <2>. QED
    BY <2>1 DEF Letters
<1>. QED
  BY <1>1, <1>2

(* The trimmer is right about what reaches it, for at most clean gaps. *)
LEMMA TrimsCleanly ==
  ASSUME NEW read, NEW A \in Seq(Letters), NEW task, TrimmedRead(read, A, task),
         NEW clean \in 0..1, clean = 1 => task.r_trim = <<>>,
         Cardinality(Gaps(A)) <= clean
  PROVE  read.out = Stripped(A)
<1>1. SubSeq(A, 1, Len(A)) = A /\ Len(A) \in 0..Len(A)
  OBVIOUS
<1>2. PICK n \in 0..Len(A) : n = Len(A)
  BY <1>1
<1>3. Cardinality(Gaps(SubSeq(A, 1, n))) <= clean
  BY <1>1, <1>2
<1>4. Cleanly(A, task, n)
  BY <1>3, CleanlyIs
<1>. QED
  BY <1>2, <1>4 DEF TrimmedRead

(* A read behind filters is as it should be. *)
LEMMA FilteredTask ==
  ASSUME NEW s, PartCriteria(s.criteria), FilterLinks(s.links), s.sink \in Sinks,
         NEW text \in Seq(Character), NEW task \in Tasks(Letters), ~task.bailed,
         NEW clean \in 0..1, NEW as_new, as_new => StartsNew(s.links, task),
         s.sink = "trim" /\ as_new /\ clean = 1 => task.r_trim = <<>>,
         NEW read, read = ReadWith(text, 0, s.criteria, task, s.links, s.sink),
         NEW r, r.ok = read.ok, r.out = read.out
  PROVE  Read1(s, text, clean, as_new, read, r)
<1>1. PICK links : links = s.links
  OBVIOUS
<1>2. PICK sink \in Sinks : sink = s.sink
  OBVIOUS
<1>3. PICK criteria : criteria = s.criteria
  OBVIOUS
<1>4. PartCriteria(criteria) /\ FilterLinks(links)
  BY <1>1, <1>3
<1>5. PICK e : e = EndOf(text, criteria)
  OBVIOUS
<1>6. PICK extent : extent = Extent(text, criteria)
  OBVIOUS
<1>7. /\ EndsAt(text, criteria, e)
      /\ extent \in 1..Len(text) <=> e <= Len(text)
      /\ extent \in 1..Len(text) => extent = e
      /\ ~(extent \in 1..Len(text)) => extent = 0 \/ extent > Len(text)
  BY <1>4, <1>5, <1>6, EndOfIs
<1>8. e \in Nat \ {0}
  BY <1>7 DEF EndsAt
<1>9. PICK h : FilteredRead(read, h, text, e, task, links, sink)
  BY <1>1, <1>2, <1>3, <1>4, <1>5, FilteredReadIs
<1>10. /\ read.task \in Tasks(Letters) /\ ~read.task.bailed
       /\ sink = "extract" /\ read.ok => AsNew(read.task)
  <2>1. read.task \in Tasks(Letters) /\ ~read.task.bailed
    BY <1>9 DEF FilteredRead
  <2>2. Complete(h, text, e) => h[e] \in Tasks(Letters)
    <3>1. e <= Len(text) => Reach(text, e) = e /\ e \in 0..e
      BY <1>8 DEF Reach
    <3>. QED
      BY <1>9, <3>1 DEF FilteredRead, Performs, Complete
  <2>3. ASSUME sink = "extract", read.ok PROVE AsNew(read.task)
    BY <1>4, <1>9, <2>2, <2>3, ExtractorLeaves
  <2>. QED
    BY <2>1, <2>3
<1>11. SUFFICES TaskRead(s, text, clean, as_new, r)
  BY <1>2, <1>10 DEF Read1
<1>12. CASE ~(e <= Len(text))
  <2>1. ~r.ok
    BY <1>9, <1>12, ShortTextThrows
  <2>2. extent = 0 \/ extent > Len(text)
    BY <1>7, <1>12
  <2>. QED
    BY <1>3, <1>6, <2>1, <2>2 DEF TaskRead
<1>13. CASE e <= Len(text)
  <2>0. e \in 1..Len(text) /\ extent = e /\ ~(extent = 0 \/ extent > Len(text))
        /\ e \in 0..Len(text)
    BY <1>7, <1>8, <1>13
  <2>1. PICK part : part = SubSeq(text, 1, e)
    OBVIOUS
  <2>2. ~ \E i \in DOMAIN links : links[i].kind = "exact"
    BY <1>4, FilterLinkIs
  <2>3. DOMAIN part = 1..e /\ (\A i \in 1..e : part[i] = text[i]) /\ Last(part) = text[e]
    <3>1. Len(part) = e /\ DOMAIN part = 1..e /\ \A i \in 1..e : part[i] = text[i]
      BY <2>0, <2>1
    <3>. QED
      BY <2>0, <3>1 DEF Last
  <2>4. PICK A : A = Through(links, part)
    OBVIOUS
  <2>5. PICK ended : ended <=> Admitted(links, Last(part))
    OBVIOUS
  <2>6. PICK token : token = Token(A, Admitted(links, Last(part)))
    OBVIOUS
  <2>7. PICK refuses : refuses <=> /\ \E i \in DOMAIN links : links[i].strict
                                   /\ \E i \in DOMAIN part : ~Admitted(links, part[i])
    OBVIOUS
  <2>8. refuses <=> ~Unrefused(links, text, e)
    BY <2>3, <2>7 DEF Unrefused, Strict
  <2>9. TaskRead(s, text, clean, as_new, r) <=>
          IF refuses THEN ~r.ok
          ELSE /\ sink = "collect" => r.ok /\ r.out = A
               /\ sink = "trim" /\ as_new =>
                     r.ok /\ (Cardinality(Gaps(A)) <= clean => r.out = Stripped(A))
               /\ sink = "extract" /\ as_new =>
                     \/ criteria.mode = "until" /\ Unclosed(A)
                     \/ r.ok = token.ok /\ (r.ok => r.out = token.out)
    BY <1>1, <1>2, <1>3, <1>6, <2>0, <2>1, <2>2, <2>4, <2>6, <2>7 DEF TaskRead
  <2>10. CASE refuses
    <3>1. ~read.ok
      BY <1>9, <2>0, <2>8, <2>10, RefusalThrows
    <3>. QED
      BY <2>9, <2>10, <3>1
  <2>11. CASE ~refuses
    <3>0. Unrefused(links, text, e)
      BY <2>8, <2>11
    <3>1. ASSUME sink = "collect" PROVE r.ok /\ r.out = A
      BY <1>4, <1>9, <2>0, <2>1, <2>4, <3>0, <3>1, CollectorFilters
    <3>2. ASSUME sink = "trim", as_new
          PROVE  r.ok /\ (Cardinality(Gaps(A)) <= clean => r.out = Stripped(A))
      <4>1. StartsNew(links, task)
        BY <1>1, <3>2
      <4>2. TrimmedRead(read, A, task)
        BY <1>4, <1>9, <2>0, <2>1, <2>4, <3>0, <3>2, <4>1, TrimmerReads
      <4>3. A \in Seq(Letters)
        <5>1. "trim" \in Sinks
          BY DEF Sinks
        <5>2. PICK g : SinkRead(g, h, A, links, text, e, "trim")
          BY <1>9, <2>0, <2>1, <2>4, <3>0, <3>2, <5>1, SinkReads DEF FilteredRead
        <5>. QED
          BY <5>2 DEF SinkRead, Dense
      <4>4. clean = 1 => task.r_trim = <<>>
        BY <1>2, <3>2
      <4>5. ASSUME Cardinality(Gaps(A)) <= clean PROVE r.out = Stripped(A)
        BY <4>2, <4>3, <4>4, <4>5, TrimsCleanly
      <4>. QED
        BY <4>2, <4>5 DEF TrimmedRead
    <3>3. ASSUME sink = "extract", as_new
          PROVE  r.ok = token.ok /\ (r.ok => r.out = token.out)
      <4>1. StartsNew(links, task)
        BY <1>1, <3>3
      <4>2. ended <=> Admitted(links, text[e])
        BY <2>3, <2>5
      <4>3. ExtractedRead(read, Token(A, ended))
        BY <1>4, <1>9, <2>0, <2>1, <2>4, <3>0, <3>3, <4>1, <4>2, ExtractorReads
      <4>4. Token(A, ended) = token
        BY <2>5, <2>6 DEF Token
      <4>5. read.ok \in BOOLEAN
        BY OkIsBoolean
      <4>. QED
        BY <4>3, <4>4, <4>5 DEF ExtractedRead
    <3>. QED
      BY <2>9, <2>11, <3>1, <3>2, <3>3
  <2>. QED
    BY <2>10, <2>11
<1>. QED
  BY <1>12, <1>13

(* An exact match is as it should be, from a count of zero. *)
LEMMA ExactTask ==
  ASSUME NEW s, ExactLink(s.links, s.criteria), s.sink = "collect",
         NEW text \in Seq(Character), NEW task \in Tasks(Letters), task.i = 0,
         NEW clean, NEW as_new,
         NEW read, read = ReadWith(text, 0, s.criteria, task, s.links, s.sink),
         NEW r, r.ok = read.ok, r.out = read.out
  PROVE  /\ TaskRead(s, text, clean, as_new, r)
         /\ read.task \in Tasks(Letters) /\ (read.ok => read.task.i = 0)
<1>1. PICK links : links = s.links
  OBVIOUS
<1>2. PICK criteria : criteria = s.criteria
  OBVIOUS
<1>3. ExactLink(links, criteria) /\ read = ReadWith(text, 0, criteria, task, links, "collect")
  BY <1>1, <1>2
<1>4. /\ DOMAIN links = {1} /\ links[1].kind = "exact"
      /\ Len(links[1].chars) \in Nat \ {0} /\ criteria = Size(Len(links[1].chars))
      /\ Strict(links) <=> links[1].strict
  BY <1>3, ExactLinkIs
<1>5. PICK e \in Nat \ {0} : e = Len(links[1].chars)
  BY <1>4
<1>6. LeftAs(read, text, e)
  BY <1>3, <1>5, ExactLeaves
<1>7. read.task \in Tasks(Letters) /\ (read.ok => read.task.i = 0)
      /\ (~(e <= Len(text)) => ~read.ok)
  BY <1>6 DEF LeftAs
<1>8. Extent(text, criteria) = e
  <2>1. criteria.mode = "size" /\ criteria.left = e
    BY <1>4, <1>5 DEF Size
  <2>. QED
    BY <2>1 DEF Extent
<1>9. CASE ~(e <= Len(text))
  <2>1. e > Len(text) /\ ~r.ok
    BY <1>7, <1>9
  <2>2. TaskRead(s, text, clean, as_new, r)
    BY <1>2, <1>8, <2>1 DEF TaskRead
  <2>. QED
    BY <1>7, <2>2
<1>10. CASE e <= Len(text)
  <2>0. ~(e = 0 \/ e > Len(text))
    BY <1>10
  <2>1. PICK part : part = SubSeq(text, 1, e)
    OBVIOUS
  <2>2. ExactAs(read, text, links, e)
    BY <1>3, <1>5, <1>10, ExactReads
  <2>3. /\ links[1].strict => (r.ok <=> part = links[1].chars)
        /\ part = links[1].chars => r.ok /\ r.out = part
    BY <2>1, <2>2 DEF ExactAs
  <2>4. \E i \in DOMAIN links : links[i].kind = "exact"
    BY <1>4
  <2>5. (\E i \in DOMAIN links : links[i].strict) <=> links[1].strict
    BY <1>4 DEF Strict
  <2>6. TaskRead(s, text, clean, as_new, r)
    BY <1>1, <1>2, <1>8, <2>0, <2>1, <2>3, <2>4, <2>5 DEF TaskRead
  <2>. QED
    BY <1>7, <2>6
<1>. QED
  BY <1>7, <1>9, <1>10

(* The part of a text that a read sees, and whether it leaves a trimmer    *)
(* that has flushed no whitespace.                                         *)
FirstPart(text, criteria) ==
  IF Extent(text, criteria) \in 1..Len(text)
  THEN SubSeq(text, 1, Extent(text, criteria)) ELSE text
StillUnused(part) == Gaps(part) = {} /\ (Words(part) = {} \/ EndsTrimmed(part))

(* A trimmer that has met no whitespace behind a word keeps none. *)
LEMMA TrimTaskLeaves ==
  ASSUME NEW criteria, PartCriteria(criteria), NEW text \in Seq(Character),
         NEW task \in Tasks(Letters), ~task.bailed, task.r_trim = <<>>,
         NEW read, read = ReadWith(text, 0, criteria, task, <<>>, "trim"),
         StillUnused(FirstPart(text, criteria))
  PROVE  read.task.r_trim = <<>>
<1>0. PICK first : first = FirstPart(text, criteria)
  OBVIOUS
<1>1. PICK e : e = EndOf(text, criteria)
  OBVIOUS
<1>2. PICK extent : extent = Extent(text, criteria)
  OBVIOUS
<1>3. /\ EndsAt(text, criteria, e)
      /\ extent \in 1..Len(text) <=> e <= Len(text)
      /\ extent \in 1..Len(text) => extent = e
  BY <1>1, <1>2, EndOfIs
<1>4. e \in Nat \ {0} /\ "trim" \in Sinks /\ FilterLinks(<<>>)
  BY <1>3 DEF EndsAt, Sinks, FilterLinks
<1>5. PICK h : FilteredRead(read, h, text, e, task, <<>>, "trim")
  BY <1>1, <1>4, FilteredReadIs
<1>6. Reach(text, e) \in 0..Len(text) /\ first = SubSeq(text, 1, Reach(text, e))
  <2>1. CASE e <= Len(text)
    BY <1>0, <1>2, <1>3, <1>4, <2>1 DEF Reach, FirstPart
  <2>2. CASE ~(e <= Len(text))
    <3>1. first = text /\ Reach(text, e) = Len(text)
      BY <1>0, <1>2, <1>3, <2>2 DEF Reach, FirstPart
    <3>2. SubSeq(text, 1, Len(text)) = text
      BY SubSeqFull
    <3>. QED
      BY <3>1, <3>2
  <2>. QED
    BY <2>1, <2>2
<1>7. Unused(text, Reach(text, e))
  <2>1. text \in Seq(Letters)
    BY CharactersAreLetters
  <2>. QED
    BY <1>0, <1>6, <2>1, UnusedIs DEF StillUnused
<1>. QED
  BY <1>4, <1>5, <1>7, TrimmerLeaves

(* The tasks that a call may begin with. *)
LEMMA UnsetIs ==
  ASSUME NEW task \in {NewTask} \cup Unset
  PROVE  /\ task \in Tasks(Letters) /\ ~task.bailed /\ task.r_trim = <<>> /\ task.i = 0
         /\ task = NewTask => AsNew(task)
<1>1. PICK n : n = NewTask
  OBVIOUS
<1>2. n \in Tasks(Letters)
  BY <1>1, NewTaskType
<1>3. n.r_trim = <<>> /\ n.i = 0 /\ ~n.bailed /\ AsNew(n)
  BY <1>1 DEF NewTask, AsNew
<1>4. CASE task = NewTask
  BY <1>1, <1>2, <1>3, <1>4
<1>5. CASE task \in Unset
  <2>0. PICK l \in BOOLEAN, r \in BOOLEAN, right \in Garbage, until \in Garbage :
           task = Uninitialized(l, r, right, until)
    BY <1>5 DEF Unset
  <2>1. task = [n EXCEPT !.l_trimming = l, !.r_trimming = r,
                         !.right_of_token = right, !.read_until = until]
    BY <1>1, <2>0, Zenon DEF Uninitialized
  <2>2. \A x \in Garbage : x \in Seq(Letters)
    <3>1. "?" \in Letters
      <4>1. "?" \in Range(<<"?">>)
        BY DEF Range
      <4>2. <<"?">> \in Garbage
        BY DEF Garbage
      <4>. QED
        BY <4>1, <4>2 DEF Letters
    <3>2. <<"?">> \in Seq(Letters) /\ <<>> \in Seq(Letters)
      BY <3>1
    <3>. QED
      BY <3>2 DEF Garbage
  <2>3. right \in Seq(Letters) /\ until \in Seq(Letters)
    BY <2>2
  <2>4. task \in Tasks(Letters)
    BY <1>2, <2>1, <2>3 DEF Tasks
  <2>5. task.r_trim = n.r_trim /\ task.i = n.i /\ task.bailed = n.bailed
    BY <1>2, <2>1 DEF Tasks
  <2>. QED
    BY <1>1, <1>3, <2>4, <2>5
<1>. QED
  BY <1>4, <1>5

-----------------------------------------------------------------------------
(* The outcome of two reads is what they return, of a task that the call   *)
(* may begin with.                                                         *)
Fresh(s) == IF s.links = <<>> THEN {NewTask} ELSE Unset

TaskReturned ==
  /\ subject \in Subjects
  /\ outcome # <<>> /\ subject.kind = "task" =>
        \E task \in Fresh(subject) : outcome = <<TwoReads(subject, task)>>

(* The two reads of a task, the second with what the first has left.       *)
ReadsOf(s, task, first, second) ==
  /\ first = ReadWith(s.texts[1], 0, s.criteria, task, s.links, s.sink)
  /\ second = ReadWith(s.texts[2], 0, s.criteria, first.task, s.links, s.sink)

(* 1 if the first read leaves a trimmer that has flushed no whitespace.    *)
Clean(s) == IF StillUnused(FirstPart(s.texts[1], s.criteria)) THEN 1 ELSE 0

(* What is to be shown of two reads.                                       *)
BothRead(s, reads) ==
  /\ TaskRead(s, s.texts[1], 1, s.links = <<>> \/ reads[3], reads[1])
  /\ ~(\E i \in DOMAIN s.links : s.links[i].kind = "exact") \/ reads[1].ok =>
        TaskRead(s, s.texts[2], Clean(s),
                 s.links = <<>> \/ (s.sink = "extract" /\ reads[1].ok), reads[2])

(* Two reads are the results of a first and a second one. *)
LEMMA TwoReadsAre ==
  ASSUME NEW s, NEW task
  PROVE  \E first, second :
            /\ ReadsOf(s, task, first, second)
            /\ TwoReads(s, task) = <<[ok |-> first.ok, out |-> first.out],
                                     [ok |-> second.ok, out |-> second.out],
                                     task = NewTask>>
<1>1. PICK first : first = ReadWith(s.texts[1], 0, s.criteria, task, s.links, s.sink)
  OBVIOUS
<1>2. PICK second :
         second = ReadWith(s.texts[2], 0, s.criteria, first.task, s.links, s.sink)
  OBVIOUS
<1>3. ReadsOf(s, task, first, second)
  BY <1>1, <1>2 DEF ReadsOf
<1>4. TwoReads(s, task) = <<[ok |-> first.ok, out |-> first.out],
                            [ok |-> second.ok, out |-> second.out],
                            task = NewTask>>
  BY <1>1, <1>2 DEF TwoReads
<1>. QED
  BY <1>3, <1>4

(* Behind filters, both reads are as they should be. *)
LEMMA FilteredTwice ==
  ASSUME NEW s, s.texts[1] \in Seq(Character), s.texts[2] \in Seq(Character),
         PartCriteria(s.criteria), FilterLinks(s.links), s.sink \in Sinks,
         NEW task \in Fresh(s), NEW first, NEW second, ReadsOf(s, task, first, second),
         NEW r1, r1.ok = first.ok, r1.out = first.out,
         NEW r2, r2.ok = second.ok, r2.out = second.out,
         NEW new1, new1 <=> s.links = <<>> \/ task = NewTask,
         NEW new2, new2 <=> s.links = <<>> \/ (s.sink = "extract" /\ r1.ok)
  PROVE  /\ TaskRead(s, s.texts[1], 1, new1, r1)
         /\ TaskRead(s, s.texts[2], Clean(s), new2, r2)
<1>1. task \in {NewTask} \cup Unset
  BY DEF Fresh
<1>2. task \in Tasks(Letters) /\ ~task.bailed /\ task.r_trim = <<>>
      /\ (new1 => StartsNew(s.links, task))
  BY <1>1, UnsetIs DEF StartsNew
<1>3. PICK text1 \in Seq(Character) : text1 = s.texts[1]
  OBVIOUS
<1>4. PICK text2 \in Seq(Character) : text2 = s.texts[2]
  OBVIOUS
<1>5. first = ReadWith(text1, 0, s.criteria, task, s.links, s.sink)
  BY <1>3 DEF ReadsOf
<1>6. second = ReadWith(text2, 0, s.criteria, first.task, s.links, s.sink)
  BY <1>4 DEF ReadsOf
<1>7. PICK one \in 0..1 : one = 1
  OBVIOUS
<1>8. Read1(s, text1, one, new1, first, r1)
  BY <1>2, <1>5, FilteredTask
<1>9. /\ TaskRead(s, text1, 1, new1, r1)
      /\ first.task \in Tasks(Letters) /\ ~first.task.bailed
      /\ s.sink = "extract" /\ first.ok => AsNew(first.task)
  BY <1>7, <1>8 DEF Read1
<1>10. PICK clean \in 0..1 : clean = Clean(s)
  BY DEF Clean
<1>11. ASSUME s.sink = "trim", new2, clean = 1
       PROVE  first.task.r_trim = <<>>
  <2>0. s.links = <<>>
    BY <1>11
  <2>1. PICK criteria : criteria = s.criteria
    OBVIOUS
  <2>2. StillUnused(FirstPart(text1, criteria))
    BY <1>3, <1>10, <1>11, <2>1 DEF Clean
  <2>3. PartCriteria(criteria) /\ first = ReadWith(text1, 0, criteria, task, <<>>, "trim")
    BY <1>5, <1>11, <2>0, <2>1
  <2>. QED
    BY <1>2, <2>2, <2>3, TrimTaskLeaves
<1>12. new2 => StartsNew(s.links, first.task)
  BY <1>9 DEF StartsNew
<1>13. Read1(s, text2, clean, new2, second, r2)
  BY <1>6, <1>9, <1>11, <1>12, FilteredTask
<1>14. TaskRead(s, text2, clean, new2, r2)
  BY <1>13 DEF Read1
<1>. QED
  BY <1>3, <1>4, <1>9, <1>10, <1>14

(* Of an exact match, the first read is as it should be, and the second    *)
(* one is if the first has not thrown. *)
LEMMA ExactTwice ==
  ASSUME NEW s, s.texts[1] \in Seq(Character), s.texts[2] \in Seq(Character),
         ExactLink(s.links, s.criteria), s.sink = "collect",
         NEW task \in Fresh(s), NEW first, NEW second, ReadsOf(s, task, first, second),
         NEW r1, r1.ok = first.ok, r1.out = first.out,
         NEW r2, r2.ok = second.ok, r2.out = second.out, NEW new1, NEW new2
  PROVE  /\ TaskRead(s, s.texts[1], 1, new1, r1)
         /\ r1.ok => TaskRead(s, s.texts[2], Clean(s), new2, r2)
<1>1. task \in {NewTask} \cup Unset
  BY DEF Fresh
<1>2. task \in Tasks(Letters) /\ task.i = 0
  BY <1>1, UnsetIs
<1>3. PICK text1 \in Seq(Character) : text1 = s.texts[1]
  OBVIOUS
<1>4. PICK text2 \in Seq(Character) : text2 = s.texts[2]
  OBVIOUS
<1>5. first = ReadWith(text1, 0, s.criteria, task, s.links, s.sink)
  BY <1>3 DEF ReadsOf
<1>6. second = ReadWith(text2, 0, s.criteria, first.task, s.links, s.sink)
  BY <1>4 DEF ReadsOf
<1>7. PICK one : one = 1
  OBVIOUS
<1>8. /\ TaskRead(s, text1, one, new1, r1)
      /\ first.task \in Tasks(Letters) /\ (first.ok => first.task.i = 0)
  BY <1>2, <1>5, ExactTask
<1>9. TaskRead(s, text1, 1, new1, r1) /\ first.task \in Tasks(Letters)
  BY <1>7, <1>8
<1>10. PICK clean : clean = Clean(s)
  OBVIOUS
<1>11. ASSUME r1.ok PROVE TaskRead(s, text2, clean, new2, r2)
  <2>1. PICK task2 \in Tasks(Letters) : task2 = first.task
    BY <1>9
  <2>2. task2.i = 0 /\ second = ReadWith(text2, 0, s.criteria, task2, s.links, s.sink)
    BY <1>6, <1>8, <1>11, <2>1
  <2>. QED
    BY <2>2, ExactTask
<1>. QED
  BY <1>3, <1>4, <1>9, <1>10, <1>11

(* Both reads of a task are as they should be. *)
LEMMA BothReadTheirPart ==
  ASSUME NEW s, TaskSubject(s), NEW task \in Fresh(s),
         NEW reads, reads = TwoReads(s, task)
  PROVE  BothRead(s, reads)
<1>1. PICK first, second :
         /\ ReadsOf(s, task, first, second)
         /\ TwoReads(s, task) = <<[ok |-> first.ok, out |-> first.out],
                                  [ok |-> second.ok, out |-> second.out],
                                  task = NewTask>>
  BY TwoReadsAre
<1>2. PICK r1 : r1 = [ok |-> first.ok, out |-> first.out]
  OBVIOUS
<1>3. PICK r2 : r2 = [ok |-> second.ok, out |-> second.out]
  OBVIOUS
<1>4. r1.ok = first.ok /\ r1.out = first.out /\ r2.ok = second.ok /\ r2.out = second.out
  BY <1>2, <1>3
<1>5. PICK r3 : r3 = (task = NewTask)
  OBVIOUS
<1>6. reads = <<r1, r2, r3>>
  BY <1>1, <1>2, <1>3, <1>5
<1>7. reads[1] = r1 /\ reads[2] = r2 /\ reads[3] = r3
  BY <1>6
<1>8. /\ s.texts[1] \in Seq(Character) /\ s.texts[2] \in Seq(Character)
      /\ PartCriteria(s.criteria) /\ s.sink \in Sinks
      /\ FilterLinks(s.links) \/ (s.sink = "collect" /\ ExactLink(s.links, s.criteria))
  BY DEF TaskSubject, Sinks
<1>9. PICK new1 : new1 = (s.links = <<>> \/ r3)
  OBVIOUS
<1>10. PICK new2 : new2 = (s.links = <<>> \/ (s.sink = "extract" /\ r1.ok))
  OBVIOUS
<1>11. CASE FilterLinks(s.links)
  <2>1. /\ new1 <=> s.links = <<>> \/ task = NewTask
        /\ new2 <=> s.links = <<>> \/ (s.sink = "extract" /\ r1.ok)
    BY <1>5, <1>9, <1>10
  <2>2. /\ TaskRead(s, s.texts[1], 1, new1, r1)
        /\ TaskRead(s, s.texts[2], Clean(s), new2, r2)
    BY <1>1, <1>4, <1>8, <1>11, <2>1, FilteredTwice
  <2>. QED
    BY <1>7, <1>9, <1>10, <2>2 DEF BothRead
<1>12. CASE s.sink = "collect" /\ ExactLink(s.links, s.criteria)
  <2>1. /\ TaskRead(s, s.texts[1], 1, new1, r1)
        /\ r1.ok => TaskRead(s, s.texts[2], Clean(s), new2, r2)
    BY <1>1, <1>4, <1>8, <1>12, ExactTwice
  <2>2. \E i \in DOMAIN s.links : s.links[i].kind = "exact"
    BY <1>12, ExactLinkIs
  <2>. QED
    BY <1>7, <1>9, <1>10, <2>1, <2>2 DEF BothRead
<1>. QED
  BY <1>8, <1>11, <1>12

(* What two reads return is their part. *)
LEMMA TaskReturnedReads == TaskReturned => TasksReadTheirPart
<1>. SUFFICES ASSUME TaskReturned, Done("task") PROVE TasksReadTheirPart
  BY DEF TasksReadTheirPart
<1>1. TaskSubject(subject)
  BY ReadingAssumption DEF TaskReturned, Done
<1>2. PICK task \in Fresh(subject) : outcome = <<TwoReads(subject, task)>>
  BY DEF TaskReturned, Done
<1>3. Returned = TwoReads(subject, task)
  BY <1>2 DEF Returned
<1>4. BothRead(subject, Returned)
  BY <1>1, <1>3, BothReadTheirPart
<1>. QED
  BY <1>4 DEF BothRead, TasksReadTheirPart, Clean, StillUnused, FirstPart

(* A filter, a trimmer, an extractor or an exact match of reader_task.h    *)
(* lets through of any text what it is named for, on its second read as on *)
(* its first, and so do chains of filters with a trimmer or an extractor   *)
(* at their end; after a read that threw, an exact match promises nothing, *)
(* and a trimmer or an extractor behind filters promises something only if *)
(* it is as new.                                                           *)
THEOREM TasksReadTheirPartAlways == ReadingSpec => []TasksReadTheirPart
<1>1. ConversionInit => TaskReturned
  BY DEF ConversionInit, TaskReturned
<1>2. TaskReturned /\ [Read]_conversion_vars => TaskReturned'
  <2>. SUFFICES ASSUME TaskReturned, [Read]_conversion_vars PROVE TaskReturned'
    OBVIOUS
  <2>1. CASE ReadTwice
    <3>1. subject' = subject /\ subject \in Subjects
      BY <2>1 DEF ReadTwice, TaskReturned
    <3>2. PICK reads \in TaskOutcomes(subject) : outcome' = <<reads>>
      BY <2>1 DEF ReadTwice
    <3>3. PICK task \in Fresh(subject) : reads = TwoReads(subject, task)
      BY <3>2 DEF TaskOutcomes, Fresh
    <3>. QED
      BY <3>1, <3>2, <3>3 DEF TaskReturned
  <2>2. CASE ReadNumber
    BY <2>2 DEF ReadNumber, Subject, TaskReturned
  <2>3. CASE UNCHANGED conversion_vars
    BY <2>3 DEF conversion_vars, TaskReturned
  <2>. QED
    BY <2>1, <2>2, <2>3 DEF Read
<1>. QED
  BY <1>1, <1>2, TaskReturnedReads, PTL DEF ReadingSpec
=============================================================================
