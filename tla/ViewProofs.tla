----------------------------- MODULE ViewProofs -----------------------------
(***************************************************************************)
(* What the read-only endpoints may rely on while others write, for any    *)
(* number of writers: the audit trail of a case tells how its row got to   *)
(* its status, the evaluation summary is of the newest report there was,   *)
(* and the average of a recovery summary is one of real payments.          *)
(***************************************************************************)
EXTENDS Views, FiniteSetTheorems, WellFoundedInduction, TLAPS
-----------------------------------------------------------------------------
(* The status changes and the requests are what a trail tells.             *)
Requests == {"diagnosis_requested", "execution_requested"}
Told(events) == {e \in events : e.what = StatusChange \/ e.status # "none"}
Before(events, t) == {e \in events : e.at < t}

(* The last change among some events leads to a status.                    *)
Ends(events, st) ==
  \/ Changes(events) = {} /\ st = "DISCOVERED"
  \/ \E f \in Changes(events) : f.to = st /\ \A g \in Changes(events) : g.at <= f.at

(* Some events are the whole story of how a case came to a status.         *)
Story(events, st) ==
  /\ Ends(events, st)
  /\ \A e \in Told(events) :
       /\ e.what = StatusChange => Ends(Before(events, e.at), e.from)
       /\ e.status # "none" => Ends(Before(events, e.at), e.status)

Flushed == trail \cup UNION {pend[s] : s \in Handlers}

(* What is left of a handler's steps: a move that comes before it commits, *)
(* and a request is always followed by one.                                *)
MoveAhead(p) ==
  \E i \in 1..Len(p) : p[i].do = "move" /\ \A j \in 1..(i - 1) : p[j].do # "commit"
NoteSteps == {"note", "attempt_note"}
Answers(p, i) ==
  \/ i + 1 <= Len(p) /\ p[i + 1].do = "move"
  \/ i + 2 <= Len(p) /\ p[i + 1].do = "note" /\ p[i + 2].do = "move"
ScriptOK(p) ==
  \A i \in 1..Len(p) :
    p[i].do \in NoteSteps =>
      /\ p[i].arg # StatusChange
      /\ p[i].arg \in Requests => Answers(p, i)

(* What the steps, the events and the rows hold.                           *)
Words ==
  Statuses \cup Requests \cup
  {StatusChange, "recovery_case_created", "ai_diagnosis_created",
   "recovery_recommendation_created", "policy_evaluated",
   "policy_rechecked", "execution_started", "payment_link_created",
   "provider_ambiguous_result", "provider_state_reconciliation", "payment_confirmed",
   "payment_not_recovered", "current_attempt_number", "none"}
HandlerSteps ==
  [do : {"move", "note", "attempt_note", "touch", "attempt", "commit"}, arg : Words]
Events == [at : Nat, about : Nat, what : Words, from : Words, to : Words, status : Words]

AuditTypes ==
  /\ row \in [status : Words, version : Nat \ {0}]
  /\ trail \subseteq Events
  /\ attempts \subseteq Nat
  /\ clock \in Nat
  /\ copy \in [Handlers -> [status : Words, version : Nat]]
  /\ script \in [Handlers -> Seq(HandlerSteps)]
  /\ pend \in [Handlers -> SUBSET Events]
  /\ own \in [Handlers -> Nat]
  /\ reader \in [phase : {"idle", "attempts", "shown"}, known : SUBSET Nat, shown : SUBSET Events]

(* Stamps are drawn from the clock, one per event.                         *)
StampsOK ==
  /\ \A e \in Flushed : e.at <= clock
  /\ \A e, f \in Flushed : e.at = f.at => e = f

AboutCase == \A e \in Changes(Flushed) : e.about = 0

SessionOK(s) ==
  /\ copy[s] = NoCopy => pend[s] = {} /\ script[s] = <<>>
  /\ copy[s].version = row.version => copy[s] = row
  /\ ~Writing(s) => Changes(pend[s]) = {}
  /\ ScriptOK(script[s])
  /\ Told(pend[s]) # {} => Writing(s) \/ MoveAhead(script[s])
  /\ \A e \in Changes(pend[s]), f \in Changes(trail) : f.at < e.at

(* What a session adds to the trail, if it still may write.                *)
StoryOK(s) == Fresh(s) => Story(trail \cup pend[s], copy[s].status)

ReaderOK ==
  reader.phase = "shown" =>
    /\ Changes(reader.shown) \subseteq trail
    /\ \A e \in Changes(trail \ reader.shown), f \in Changes(reader.shown) : f.at < e.at

TrailInv ==
  /\ AuditTypes
  /\ StampsOK
  /\ AboutCase
  /\ \A s \in Handlers : SessionOK(s) /\ StoryOK(s)
  /\ \A s, t \in Handlers : Writing(s) /\ Writing(t) => s = t
  /\ Story(trail, row.status)
  /\ ReaderOK
-----------------------------------------------------------------------------
(* Stories *)

(* What the last change before t led to is the status shown at t.          *)
LEMMA EndsIsStatus ==
  ASSUME NEW events \in SUBSET Events, NEW t, NEW st,
         \A e, f \in events : e.at = f.at => e = f,
         Ends(Before(events, t), st)
  PROVE  StatusAt(events, t) = st
<1> DEFINE before == {e \in Changes(events) : e.at < t}
<1>1. before = Changes(Before(events, t))
  BY DEF Changes, Before
<1>2. CASE before = {}
  <2>1. st = "DISCOVERED"
    BY <1>1, <1>2 DEF Ends
  <2> QED BY <1>2, <2>1 DEF StatusAt
<1>3. CASE before # {}
  <2>1. PICK f \in before : f.to = st /\ \A g \in before : g.at <= f.at
    BY <1>1, <1>3 DEF Ends
  <2> DEFINE last == CHOOSE e \in before : \A g \in before : g.at <= e.at
  <2>2. last \in before /\ \A g \in before : g.at <= last.at
    BY <2>1
  <2>3. f.at \in Nat /\ last.at \in Nat /\ f \in events /\ last \in events
    BY <2>2 DEF Changes, Events
  <2>4. last = f
    <3> HIDE DEF last
    <3> QED BY <2>1, <2>2, <2>3
  <2>5. StatusAt(events, t) = last.to
    BY <1>3 DEF StatusAt
  <2> QED BY <2>1, <2>4, <2>5
<1> QED BY <1>2, <1>3

(* Only what is told matters.                                              *)
LEMMA StoryOfTold ==
  ASSUME NEW D, NEW E, NEW st, Told(D) = Told(E), Story(D, st)
  PROVE  Story(E, st)
<1>1. Changes(D) = Changes(E)
  BY DEF Changes, Told
<1>2. ASSUME NEW t  PROVE Changes(Before(D, t)) = Changes(Before(E, t))
  BY <1>1 DEF Changes, Before
<1>3. ASSUME NEW t, NEW s  PROVE Ends(Before(D, t), s) => Ends(Before(E, t), s)
  BY <1>2 DEF Ends
<1>4. Ends(E, st)
  BY <1>1 DEF Story, Ends
<1> QED BY <1>3, <1>4 DEF Story

(* The story goes on with a change from the status it had come to ...      *)
LEMMA StoryMoves ==
  ASSUME NEW E \in SUBSET Events, NEW c \in Nat, \A e \in E : e.at <= c,
         NEW st, NEW to, Story(E, st), NEW n,
         n = Event(c + 1, 0, StatusChange, st, to, "none")
  PROVE  Story(E \cup {n}, to)
<1>1. /\ n.at = c + 1 /\ n.what = StatusChange /\ n.from = st /\ n.to = to
      /\ n.status = "none"
  BY DEF Event
<1>2. /\ \A e \in E : Before(E \cup {n}, e.at) = Before(E, e.at)
      /\ Before(E \cup {n}, n.at) = E
  <2>1. n.at \in Nat /\ \A e \in E : e.at \in Nat /\ e.at < n.at
    BY <1>1 DEF Events
  <2> QED BY <2>1 DEF Before
<1>3. Ends(E \cup {n}, to)
  <2>1. n \in Changes(E \cup {n})
    BY <1>1 DEF Changes
  <2>2. \A g \in Changes(E \cup {n}) : g.at <= n.at
    BY <1>1 DEF Changes, Events
  <2> QED BY <1>1, <2>1, <2>2 DEF Ends
<1>4. ASSUME NEW e \in Told(E \cup {n})
      PROVE  /\ e.what = StatusChange => Ends(Before(E \cup {n}, e.at), e.from)
             /\ e.status # "none" => Ends(Before(E \cup {n}, e.at), e.status)
  <2>1. CASE e = n
    BY <1>1, <1>2, <2>1 DEF Story
  <2>2. CASE e \in E
    <3>1. e \in Told(E)
      BY <2>2 DEF Told
    <3> QED BY <1>2, <2>2, <3>1 DEF Story
  <2> QED BY <2>1, <2>2 DEF Told
<1> QED BY <1>3, <1>4 DEF Story

(* ... or with a note that agrees with it.                                 *)
LEMMA StoryNotes ==
  ASSUME NEW E \in SUBSET Events, NEW c \in Nat, \A e \in E : e.at <= c,
         NEW st, Story(E, st), NEW about, NEW what, what # StatusChange,
         NEW found \in {"none", st}, NEW n,
         n = Event(c + 1, about, what, "none", "none", found)
  PROVE  Story(E \cup {n}, st)
<1>1. n.at = c + 1 /\ n.what = what /\ n.status = found
  BY DEF Event
<1>2. /\ \A e \in E : Before(E \cup {n}, e.at) = Before(E, e.at)
      /\ Before(E \cup {n}, n.at) = E
  <2>1. n.at \in Nat /\ \A e \in E : e.at \in Nat /\ e.at < n.at
    BY <1>1 DEF Events
  <2> QED BY <2>1 DEF Before
<1>3. Ends(E \cup {n}, st)
  <2>1. Changes(E \cup {n}) = Changes(E)
    BY <1>1 DEF Changes
  <2> QED BY <2>1 DEF Story, Ends
<1>4. ASSUME NEW e \in Told(E \cup {n})
      PROVE  /\ e.what = StatusChange => Ends(Before(E \cup {n}, e.at), e.from)
             /\ e.status # "none" => Ends(Before(E \cup {n}, e.at), e.status)
  <2>1. CASE e = n
    BY <1>1, <1>2, <2>1 DEF Story
  <2>2. CASE e \in E
    <3>1. e \in Told(E)
      BY <2>2 DEF Told
    <3> QED BY <1>2, <2>2, <3>1 DEF Story
  <2> QED BY <2>1, <2>2 DEF Told
<1> QED BY <1>3, <1>4 DEF Story
-----------------------------------------------------------------------------
(* Scripts *)

LEMMA TailAt ==
  ASSUME NEW S, NEW p \in Seq(S), p # <<>>
  PROVE  /\ Tail(p) \in Seq(S) /\ Len(Tail(p)) = Len(p) - 1 /\ Len(p) \in Nat \ {0}
         /\ Head(p) = p[1]
         /\ \A i \in 1..Len(Tail(p)) : Tail(p)[i] = p[i + 1]
OBVIOUS

LEMMA ScriptTail ==
  ASSUME NEW p \in Seq(HandlerSteps), p # <<>>, ScriptOK(p)
  PROVE  ScriptOK(Tail(p))
<1> DEFINE q == Tail(p)
<1>1. /\ Len(q) = Len(p) - 1 /\ Len(q) \in Nat /\ Len(p) \in Nat
      /\ \A i \in 1..Len(q) : q[i] = p[i + 1]
  BY TailAt
<1> HIDE DEF q
<1>2. ASSUME NEW i \in 1..Len(q), q[i].do \in NoteSteps
      PROVE  /\ q[i].arg # StatusChange
             /\ q[i].arg \in Requests => Answers(q, i)
  <2>1. i + 1 \in 1..Len(p) /\ q[i] = p[i + 1]
    BY <1>1
  <2>2. /\ q[i].arg # StatusChange
        /\ q[i].arg \in Requests => Answers(p, i + 1)
    BY <1>2, <2>1 DEF ScriptOK
  <2>3. Answers(p, i + 1) => Answers(q, i)
    BY <1>1 DEF Answers
  <2> QED BY <2>2, <2>3
<1>3. ScriptOK(q)
  BY <1>2 DEF ScriptOK
<1> QED BY <1>3 DEF q

LEMMA AheadTail ==
  ASSUME NEW p \in Seq(HandlerSteps), p # <<>>, MoveAhead(p), Head(p).do # "move"
  PROVE  Head(p).do # "commit" /\ MoveAhead(Tail(p))
<1> DEFINE q == Tail(p)
<1>1. /\ Len(q) = Len(p) - 1 /\ Len(p) \in Nat \ {0} /\ Head(p) = p[1]
      /\ \A i \in 1..Len(q) : q[i] = p[i + 1]
  BY TailAt
<1> HIDE DEF q
<1>2. PICK i \in 1..Len(p) : p[i].do = "move" /\ \A j \in 1..(i - 1) : p[j].do # "commit"
  BY DEF MoveAhead
<1>3. i # 1 /\ 1 \in 1..(i - 1) /\ i - 1 \in 1..Len(q)
  BY <1>1, <1>2
<1>4. Head(p).do # "commit"
  BY <1>1, <1>2, <1>3
<1>5. q[i - 1].do = "move" /\ \A j \in 1..((i - 1) - 1) : q[j].do # "commit"
  <2>1. q[i - 1] = p[i]
    BY <1>1, <1>2, <1>3
  <2>2. ASSUME NEW j \in 1..((i - 1) - 1)  PROVE q[j].do # "commit"
    <3>1. j \in 1..Len(q) /\ j + 1 \in 1..(i - 1)
      BY <1>1, <1>2
    <3> QED BY <1>1, <1>2, <3>1
  <2> QED BY <1>2, <2>1, <2>2
<1>6. MoveAhead(q)
  BY <1>3, <1>5 DEF MoveAhead
<1> QED BY <1>4, <1>6 DEF q

(* Once the request is recorded the move that answers it lies ahead.       *)
LEMMA RequestAhead ==
  ASSUME NEW p \in Seq(HandlerSteps), p # <<>>, ScriptOK(p),
         Head(p).do \in NoteSteps, Head(p).arg \in Requests
  PROVE  MoveAhead(Tail(p))
<1> DEFINE q == Tail(p)
<1>1. /\ Len(q) = Len(p) - 1 /\ Len(p) \in Nat \ {0} /\ Head(p) = p[1]
      /\ \A i \in 1..Len(q) : q[i] = p[i + 1]
  BY TailAt
<1> HIDE DEF q
<1>2. Answers(p, 1)
  BY <1>1 DEF ScriptOK
<1>3. CASE 1 + 1 <= Len(p) /\ p[1 + 1].do = "move"
  <2>1. 1 \in 1..Len(q) /\ q[1].do = "move" /\ \A j \in 1..(1 - 1) : q[j].do # "commit"
    BY <1>1, <1>3
  <2> QED BY <2>1 DEF MoveAhead, q
<1>4. CASE 1 + 2 <= Len(p) /\ p[1 + 1].do = "note" /\ p[1 + 2].do = "move"
  <2>1. 2 \in 1..Len(q) /\ q[2].do = "move" /\ \A j \in 1..(2 - 1) : q[j].do # "commit"
    BY <1>1, <1>4
  <2> QED BY <2>1 DEF MoveAhead, q
<1> QED BY <1>2, <1>3, <1>4 DEF Answers

LEMMA ScriptJoin ==
  ASSUME NEW p \in Seq(HandlerSteps), NEW q \in Seq(HandlerSteps),
         ScriptOK(p), ScriptOK(q)
  PROVE  ScriptOK(p \o q) /\ p \o q \in Seq(HandlerSteps)
<1> DEFINE r == p \o q
<1>1. /\ r \in Seq(HandlerSteps)
      /\ Len(p) \in Nat /\ Len(q) \in Nat /\ Len(r) = Len(p) + Len(q)
      /\ \A i \in 1..Len(p) : r[i] = p[i]
      /\ \A i \in 1..Len(q) : r[Len(p) + i] = q[i]
  OBVIOUS
<1> HIDE DEF r
<1>2. ASSUME NEW i \in 1..Len(r), r[i].do \in NoteSteps
      PROVE  /\ r[i].arg # StatusChange
             /\ r[i].arg \in Requests => Answers(r, i)
  <2>1. CASE i \in 1..Len(p)
    <3>1. /\ r[i].arg # StatusChange
          /\ r[i].arg \in Requests => Answers(p, i)
      BY <1>1, <1>2, <2>1 DEF ScriptOK
    <3>2. Answers(p, i) => Answers(r, i)
      BY <1>1, <2>1 DEF Answers
    <3> QED BY <3>1, <3>2
  <2>2. CASE i \notin 1..Len(p)
    <3>1. PICK k \in 1..Len(q) : i = Len(p) + k
      <4>1. i - Len(p) \in 1..Len(q) /\ i = Len(p) + (i - Len(p))
        BY <1>1, <2>2
      <4> QED BY <4>1
    <3>2. /\ r[i].arg # StatusChange
          /\ r[i].arg \in Requests => Answers(q, k)
      BY <1>1, <1>2, <3>1 DEF ScriptOK
    <3>3. Answers(q, k) => Answers(r, i)
      <4>1. PICK m, n \in Nat : m = Len(p) /\ n = Len(q) /\ Len(r) = m + n
        BY <1>1
      <4>2. i = m + k /\ k \in 1..n
        BY <3>1, <4>1
      <4>3. \A j \in 1..n : r[m + j] = q[j]
        BY <1>1, <4>1
      <4>4. ASSUME NEW j \in 1..2, k + j <= n
            PROVE  /\ r[i + j] = q[k + j]
                   /\ i + j <= m + n /\ k + 1 <= n
        <5>1. k + j \in 1..n /\ i + j = m + (k + j) /\ i + j <= m + n /\ k + 1 <= n
          BY <4>2, <4>4
        <5>2. r[m + (k + j)] = q[k + j]
          BY <4>3, <5>1
        <5> QED BY <5>1, <5>2
      <4>5. /\ k + 1 <= n => r[i + 1] = q[k + 1] /\ i + 1 <= m + n
            /\ k + 2 <= n => r[i + 2] = q[k + 2] /\ i + 2 <= m + n /\ r[i + 1] = q[k + 1]
        BY <4>2, <4>4
      <4> QED BY <4>1, <4>5 DEF Answers
    <3> QED BY <3>2, <3>3
  <2> QED BY <2>1, <2>2
<1>3. ScriptOK(r)
  BY <1>2 DEF ScriptOK
<1> QED BY <1>1, <1>3 DEF r

LEMMA StepsTyped ==
  /\ \A st \in Statuses : Move(st) \in HandlerSteps
  /\ \A what \in Words : Note(what) \in HandlerSteps /\ AttemptNote(what) \in HandlerSteps
  /\ Touch \in HandlerSteps /\ NewAttempt \in HandlerSteps /\ Commit \in HandlerSteps
BY DEF Move, Note, AttemptNote, Touch, NewAttempt, Commit, HandlerSteps, Words

(* A step that is no note, or a note of something that was not requested.  *)
Quiet(x) == x.do \notin NoteSteps \/ x.arg \notin Requests \cup {StatusChange}

LEMMA QuietOK ==
  ASSUME NEW p \in Seq(HandlerSteps), \A i \in 1..Len(p) : Quiet(p[i])
  PROVE  ScriptOK(p)
BY DEF ScriptOK, Quiet

LEMMA QuietSteps ==
  /\ \A st : Quiet(Move(st))
  /\ Quiet(Touch) /\ Quiet(NewAttempt) /\ Quiet(Commit)
  /\ \A what : what \notin Requests \cup {StatusChange} =>
                Quiet(Note(what)) /\ Quiet(AttemptNote(what))
BY DEF Quiet, Move, Note, AttemptNote, Touch, NewAttempt, Commit, NoteSteps

LEMMA QuietTuples ==
  /\ \A a \in HandlerSteps : Quiet(a) => ScriptOK(<<a>>)
  /\ \A a, b \in HandlerSteps : Quiet(a) /\ Quiet(b) => ScriptOK(<<a, b>>)
  /\ \A a, b, c \in HandlerSteps :
       Quiet(a) /\ Quiet(b) /\ Quiet(c) => ScriptOK(<<a, b, c>>)
<1>1. ASSUME NEW a \in HandlerSteps, Quiet(a)  PROVE ScriptOK(<<a>>)
  <2>1. <<a>> \in Seq(HandlerSteps) /\ \A i \in 1..Len(<<a>>) : Quiet(<<a>>[i])
    BY <1>1
  <2> QED BY <2>1, QuietOK
<1>2. ASSUME NEW a \in HandlerSteps, NEW b \in HandlerSteps, Quiet(a), Quiet(b)
      PROVE  ScriptOK(<<a, b>>)
  <2>1. <<a, b>> \in Seq(HandlerSteps) /\ \A i \in 1..Len(<<a, b>>) : Quiet(<<a, b>>[i])
    BY <1>2
  <2> QED BY <2>1, QuietOK
<1>3. ASSUME NEW a \in HandlerSteps, NEW b \in HandlerSteps, NEW c \in HandlerSteps,
             Quiet(a), Quiet(b), Quiet(c)
      PROVE  ScriptOK(<<a, b, c>>)
  <2>1. \A i \in 1..Len(<<a, b, c>>) : Quiet(<<a, b, c>>[i])
    BY <1>3
  <2> QED BY <2>1, QuietOK
<1> QED BY <1>1, <1>2, <1>3

(* A request before a script that begins with a move.                      *)
LEMMA RequestFirst ==
  ASSUME NEW q \in Seq(HandlerSteps), q # <<>>, q[1].do = "move", ScriptOK(q),
         NEW what \in Requests
  PROVE  ScriptOK(<<Note(what)>> \o q) /\ <<Note(what)>> \o q \in Seq(HandlerSteps)
<1> DEFINE r == <<Note(what)>> \o q
<1>0. Note(what) \in HandlerSteps
  BY DEF Note, HandlerSteps, Words, Requests
<1>1. /\ r \in Seq(HandlerSteps) /\ Len(q) \in Nat \ {0} /\ Len(r) = Len(q) + 1
      /\ r[1] = Note(what) /\ \A i \in 1..Len(q) : r[i + 1] = q[i]
  BY <1>0
<1> HIDE DEF r
<1>2. ASSUME NEW i \in 1..Len(r), r[i].do \in NoteSteps
      PROVE  /\ r[i].arg # StatusChange
             /\ r[i].arg \in Requests => Answers(r, i)
  <2>1. CASE i = 1
    <3>1. r[i].arg # StatusChange
      BY <1>1, <2>1 DEF Note, Requests, StatusChange
    <3>2. Answers(r, i)
      BY <1>1, <2>1 DEF Answers
    <3> QED BY <3>1, <3>2
  <2>2. CASE i # 1
    <3>1. PICK k \in 1..Len(q) : i = k + 1
      <4>1. i - 1 \in 1..Len(q) /\ i = (i - 1) + 1
        BY <1>1, <2>2
      <4> QED BY <4>1
    <3>2. /\ r[i].arg # StatusChange
          /\ r[i].arg \in Requests => Answers(q, k)
      BY <1>1, <1>2, <3>1 DEF ScriptOK
    <3>3. Answers(q, k) => Answers(r, i)
      <4>1. k + 1 <= Len(q) => r[i + 1] = q[k + 1] /\ i + 1 <= Len(r)
        <5>1. k + 1 <= Len(q) => k + 1 \in 1..Len(q) /\ i + 1 = (k + 1) + 1
          BY <1>1, <3>1
        <5> QED BY <1>1, <5>1
      <4>2. k + 2 <= Len(q) => r[i + 2] = q[k + 2] /\ i + 2 <= Len(r) /\ k + 1 <= Len(q)
        <5>1. k + 2 <= Len(q) => k + 2 \in 1..Len(q) /\ i + 2 = (k + 2) + 1
                                 /\ k + 1 <= Len(q)
          BY <1>1, <3>1
        <5> QED BY <1>1, <5>1
      <4> QED BY <4>1, <4>2 DEF Answers
    <3> QED BY <3>2, <3>3
  <2> QED BY <2>1, <2>2
<1>3. ScriptOK(r)
  BY <1>2 DEF ScriptOK
<1> QED BY <1>1, <1>3 DEF r

(* What the handlers note, besides requests and changes.                   *)
Remarks == Words \ (Statuses \cup Requests \cup {StatusChange})

LEMMA RemarksQuiet ==
  /\ \A what \in Remarks : Quiet(Note(what)) /\ Note(what) \in HandlerSteps
  /\ \A what \in Remarks : Quiet(AttemptNote(what)) /\ AttemptNote(what) \in HandlerSteps
  /\ {"ai_diagnosis_created", "recovery_recommendation_created", "policy_evaluated",
      "policy_rechecked", "payment_confirmed",
      "payment_link_created", "payment_not_recovered", "provider_ambiguous_result",
      "provider_state_reconciliation"} \subseteq Remarks
<1>1. Remarks \subseteq Words /\ \A what \in Remarks : what \notin Requests \cup {StatusChange}
  BY DEF Remarks
<1>2. {"ai_diagnosis_created", "recovery_recommendation_created", "policy_evaluated",
       "policy_rechecked", "payment_confirmed",
       "payment_link_created", "payment_not_recovered", "provider_ambiguous_result",
       "provider_state_reconciliation"} \subseteq Remarks
  BY DEF Remarks, Words, Statuses, Requests, StatusChange
<1> QED BY <1>1, <1>2, StepsTyped, QuietSteps

LEMMA ReviewOK ==
  ASSUME NEW final \in Statuses
  PROVE  /\ Review(final) \in Seq(HandlerSteps) /\ ScriptOK(Review(final))
         /\ Review(final) # <<>> /\ Review(final)[1].do = "move"
<1> DEFINE R == Review(final)
<1>1. /\ Len(R) = 8
      /\ R[1] = Move("DIAGNOSING") /\ R[2] = Note("ai_diagnosis_created")
      /\ R[3] = Note("recovery_recommendation_created")
      /\ R[4] = Move("RECOMMENDED") /\ R[5] = Move("POLICY_REVIEW")
      /\ R[6] = Note("policy_evaluated") /\ R[7] = Move(final) /\ R[8] = Commit
  BY DEF Review
<1>2. {"DIAGNOSING", "RECOMMENDED", "POLICY_REVIEW"} \subseteq Statuses
  BY DEF Statuses
<1>3. \A what \in {"ai_diagnosis_created", "recovery_recommendation_created",
                   "policy_evaluated"} :
        Note(what) \in HandlerSteps /\ Quiet(Note(what))
  BY RemarksQuiet
<1>4. R \in Seq(HandlerSteps)
  BY <1>2, <1>3, StepsTyped DEF Review
<1>5. \A i \in 1..Len(R) : Quiet(R[i])
  <2> HIDE DEF R
  <2> TAKE i \in 1..Len(R)
  <2>1. i \in 1..8 /\ (i \in {1, 2, 3, 4} \/ i \in {5, 6, 7, 8})
    BY <1>1
  <2> QED BY <1>1, <1>3, <2>1, QuietSteps
<1>6. ScriptOK(R)
  BY <1>4, <1>5, QuietOK
<1>7. R # <<>> /\ R[1].do = "move"
  BY <1>1 DEF Move
<1> QED BY <1>4, <1>6, <1>7

LEMMA DiagnosesOK ==
  ASSUME NEW st, NEW p \in Diagnoses(st)
  PROVE  p \in Seq(HandlerSteps) /\ ScriptOK(p)
<1> DEFINE requested == <<Note("diagnosis_requested")>>
           finals == {"APPROVED", "STOPPED", "ESCALATED"}
<1>1. CASE p = requested \o <<Move("INELIGIBLE"), Commit>>
  <2> DEFINE q == <<Move("INELIGIBLE"), Commit>>
  <2>0. Move("INELIGIBLE") \in HandlerSteps /\ Commit \in HandlerSteps
    BY StepsTyped DEF Statuses
  <2>1. q \in Seq(HandlerSteps) /\ q # <<>> /\ q[1].do = "move"
    BY <2>0 DEF Move
  <2>2. ScriptOK(q)
    BY <2>0, QuietSteps, QuietTuples
  <2> HIDE DEF q
  <2>3. "diagnosis_requested" \in Requests
    BY DEF Requests
  <2>4. ScriptOK(requested \o q) /\ requested \o q \in Seq(HandlerSteps)
    BY <2>1, <2>2, <2>3, RequestFirst
  <2> QED BY <1>1, <2>4 DEF q
<1>2. ASSUME NEW f \in finals, p = requested \o <<Move("ELIGIBLE")>> \o Review(f)
      PROVE  p \in Seq(HandlerSteps) /\ ScriptOK(p)
  <2> DEFINE m == <<Move("ELIGIBLE")>>
             q == m \o Review(f)
  <2>1. m \in Seq(HandlerSteps) /\ ScriptOK(m) /\ Len(m) = 1 /\ m[1].do = "move"
    <3>1. Move("ELIGIBLE") \in HandlerSteps
      BY StepsTyped DEF Statuses
    <3> QED BY <3>1, QuietSteps, QuietTuples DEF Move
  <2>2. Review(f) \in Seq(HandlerSteps) /\ ScriptOK(Review(f))
    BY ReviewOK DEF Statuses
  <2>3. requested \in Seq(HandlerSteps)
    BY DEF Note, HandlerSteps, Words, Requests
  <2> HIDE DEF m
  <2>4. q \in Seq(HandlerSteps) /\ ScriptOK(q)
    BY <2>1, <2>2, ScriptJoin
  <2>5. q # <<>> /\ q[1].do = "move"
    BY <2>1, <2>2
  <2>6. p = requested \o q
    <3> HIDE DEF requested
    <3>1. p = (requested \o m) \o Review(f)
      BY <1>2 DEF m
    <3> QED BY <2>1, <2>2, <2>3, <3>1
  <2>7. "diagnosis_requested" \in Requests
    BY DEF Requests
  <2> HIDE DEF q
  <2> QED BY <2>4, <2>5, <2>6, <2>7, RequestFirst
<1>3. ASSUME NEW f \in finals, p = requested \o Review(f)
      PROVE  p \in Seq(HandlerSteps) /\ ScriptOK(p)
  <2>1. "diagnosis_requested" \in Requests
    BY DEF Requests
  <2>2. f \in Statuses
    BY DEF Statuses
  <2> QED BY <1>3, <2>1, <2>2, ReviewOK, RequestFirst
<1> QED BY <1>1, <1>2, <1>3 DEF Diagnoses

LEMMA ExecutionsOK ==
  ASSUME NEW st, NEW p \in Executions(st)
  PROVE  p \in Seq(HandlerSteps) /\ ScriptOK(p)
<1> DEFINE gate == <<Note("execution_requested"), Note("policy_rechecked"),
                     Move("EXECUTING")>>
           started == <<Commit, NewAttempt, Commit>>
           OK(q) == q \in Seq(HandlerSteps) /\ ScriptOK(q)
<1>0. /\ Move("EXECUTING") \in HandlerSteps /\ Move("ESCALATED") \in HandlerSteps
      /\ Note("policy_rechecked") \in HandlerSteps
  BY StepsTyped, RemarksQuiet DEF Statuses
<1>1. OK(gate)
  <2> DEFINE q == <<Note("policy_rechecked"), Move("EXECUTING")>>
  <2>1. /\ gate \in Seq(HandlerSteps) /\ Len(gate) = 3
        /\ gate[1] = Note("execution_requested") /\ gate[2] = Note("policy_rechecked")
        /\ gate[3] = Move("EXECUTING")
    BY <1>0, StepsTyped DEF Words, Requests
  <2>2. Quiet(gate[2]) /\ Quiet(gate[3])
    BY <2>1, RemarksQuiet, QuietSteps
  <2>3. gate[1].arg # StatusChange /\ Answers(gate, 1)
    BY <2>1 DEF Note, Move, StatusChange, Answers
  <2>4. ASSUME NEW i \in 1..Len(gate), gate[i].do \in NoteSteps
        PROVE  /\ gate[i].arg # StatusChange
               /\ gate[i].arg \in Requests => Answers(gate, i)
    <3> HIDE DEF gate
    <3>1. i = 1 \/ i = 2 \/ i = 3
      BY <2>1
    <3> QED BY <2>2, <2>3, <2>4, <3>1 DEF Quiet
  <2> QED BY <2>1, <2>4 DEF ScriptOK
<1>2. OK(started)
  BY StepsTyped, QuietSteps, QuietTuples
<1>3. OK(Escalate)
  BY <1>0, StepsTyped, QuietSteps, QuietTuples DEF Escalate
<1>4. OK(LinkCreated)
  BY StepsTyped, RemarksQuiet, QuietSteps, QuietTuples DEF LinkCreated
<1>5. OK(Reconcile)
  BY StepsTyped, RemarksQuiet, QuietSteps, QuietTuples DEF Reconcile
<1>6. ASSUME NEW q, NEW r, OK(q), OK(r)  PROVE OK(q \o r)
  BY <1>6, ScriptJoin
<1>7. p \in {gate \o Escalate, gate \o started \o LinkCreated, gate \o started \o Escalate,
             gate \o started \o Reconcile \o LinkCreated,
             gate \o started \o Reconcile \o Escalate}
  <2>1. CASE st # "APPROVED"
    BY <2>1 DEF Executions
  <2>2. CASE st = "APPROVED"
    BY <2>2 DEF Executions
  <2> QED BY <2>1, <2>2
<1> HIDE DEF gate, started, OK
<1>8. OK(gate \o started) /\ OK(gate \o started \o Reconcile)
  BY <1>1, <1>2, <1>5, <1>6
<1>9. OK(p)
  BY <1>1, <1>3, <1>4, <1>6, <1>7, <1>8
<1> QED BY <1>9 DEF OK

LEMMA DeliveriesOK ==
  ASSUME NEW st, NEW p \in Deliveries(st)
  PROVE  p \in Seq(HandlerSteps) /\ ScriptOK(p)
<1>0. /\ Move("RECOVERED") \in HandlerSteps /\ Move("FAILED") \in HandlerSteps
      /\ Note("payment_confirmed") \in HandlerSteps /\ Quiet(Note("payment_confirmed"))
      /\ Note("payment_not_recovered") \in HandlerSteps
      /\ Quiet(Note("payment_not_recovered")) /\ Commit \in HandlerSteps
  BY StepsTyped, RemarksQuiet DEF Statuses
<1>1. CASE p = <<Note("payment_confirmed"), Move("RECOVERED"), Commit>>
  BY <1>0, <1>1, QuietSteps, QuietTuples
<1>2. CASE p = <<Note("payment_not_recovered"), Move("FAILED"), Commit>>
  BY <1>0, <1>2, QuietSteps, QuietTuples
<1>3. CASE p = <<Note("payment_confirmed"), Commit>>
  BY <1>0, <1>3, QuietSteps, QuietTuples
<1>4. CASE p = <<Note("payment_not_recovered"), Commit>>
  BY <1>0, <1>4, QuietSteps, QuietTuples
<1>5. CASE p = <<Note("payment_confirmed"), Move("FAILED"), Commit>>
  BY <1>0, <1>5, QuietSteps, QuietTuples
<1> QED BY <1>1, <1>2, <1>3, <1>4, <1>5 DEF Deliveries

LEMMA ScriptsOK ==
  ASSUME NEW st, NEW p \in Scripts(st)
  PROVE  p \in Seq(HandlerSteps) /\ ScriptOK(p)
BY DiagnosesOK, ExecutionsOK, DeliveriesOK DEF Scripts
-----------------------------------------------------------------------------
(* Steps of a session *)

LEMMA FlushedIn ==
  ASSUME NEW s \in Handlers  PROVE trail \subseteq Flushed /\ pend[s] \subseteq Flushed
BY DEF Flushed

(* A step of one session leaves the others as they are ...                 *)
Apart(s) ==
  /\ UNCHANGED <<row, trail>>
  /\ \A t \in Handlers \ {s} :
       copy'[t] = copy[t] /\ script'[t] = script[t] /\ pend'[t] = pend[t]

LEMMA OthersStay ==
  ASSUME NEW s \in Handlers, Apart(s), NEW t \in Handlers \ {s}, SessionOK(t), StoryOK(t)
  PROVE  SessionOK(t)' /\ StoryOK(t)' /\ (Writing(t)' <=> Writing(t))
<1>1. /\ row' = row /\ trail' = trail
      /\ copy'[t] = copy[t] /\ script'[t] = script[t] /\ pend'[t] = pend[t]
  BY DEF Apart
<1>2. Writing(t)' <=> Writing(t)
  BY <1>1 DEF Writing
<1>3. Fresh(t)' <=> Fresh(t)
  BY <1>1, <1>2 DEF Fresh
<1>4. SessionOK(t)'
  BY <1>1, <1>2 DEF SessionOK
<1>5. StoryOK(t)'
  BY <1>1, <1>3 DEF StoryOK
<1> QED BY <1>2, <1>4, <1>5

(* ... so that the invariant is up to the session that took it.            *)
LEMMA UpToSession ==
  ASSUME TrailInv, NEW s \in Handlers, Apart(s), AuditTypes', StampsOK', AboutCase',
         SessionOK(s)', StoryOK(s)', reader' = reader,
         Writing(s)' => Writing(s) \/ ~Locked(s)
  PROVE  TrailInv'
<1>1. ASSUME NEW t \in Handlers \ {s}
      PROVE  SessionOK(t)' /\ StoryOK(t)' /\ (Writing(t)' <=> Writing(t))
  BY OthersStay DEF TrailInv
<1>2. \A t \in Handlers : SessionOK(t)' /\ StoryOK(t)'
  BY <1>1
<1>3. ASSUME NEW t \in Handlers \ {s}, Writing(t)', Writing(s)'  PROVE FALSE
  <2>1. Writing(t)
    BY <1>1, <1>3
  <2>2. copy[t] # NoCopy
    <3>1. row.version \in Nat
      BY DEF TrailInv, AuditTypes
    <3> QED BY <2>1, <3>1 DEF Writing, NoCopy
  <2>3. Locked(s)
    BY <2>1, <2>2 DEF Locked
  <2>4. Writing(s)
    BY <1>3, <2>3
  <2> QED BY <2>1, <2>4 DEF TrailInv
<1>4. ASSUME NEW t \in Handlers, NEW u \in Handlers, Writing(t)', Writing(u)'  PROVE t = u
  <2>1. CASE t = s
    BY <1>3, <1>4, <2>1
  <2>2. CASE u = s
    BY <1>3, <1>4, <2>2
  <2>3. CASE t # s /\ u # s
    <3>1. Writing(t) /\ Writing(u)
      BY <1>1, <1>4, <2>3
    <3> QED BY <3>1 DEF TrailInv
  <2> QED BY <2>1, <2>2, <2>3
<1>5. Story(trail, row.status)' /\ ReaderOK'
  <2>1. row' = row /\ trail' = trail
    BY DEF Apart
  <2> QED BY <2>1 DEF TrailInv, ReaderOK
<1> QED BY <1>2, <1>4, <1>5 DEF TrailInv

(* An event is flushed with the next stamp.                                *)
LEMMA FlushKeeps ==
  ASSUME TrailInv, NEW s \in Handlers, NEW n \in Events, n.at = clock + 1,
         n.what = StatusChange => n.about = 0,
         clock' = clock + 1, pend' = [pend EXCEPT ![s] = @ \cup {n}], trail' = trail
  PROVE  StampsOK' /\ AboutCase' /\ pend' \in [Handlers -> SUBSET Events]
         /\ pend'[s] = pend[s] \cup {n}
<1>1. pend \in [Handlers -> SUBSET Events] /\ clock \in Nat /\ trail \subseteq Events
  BY DEF TrailInv, AuditTypes
<1>2. Flushed' = Flushed \cup {n}
  <2>1. \A t \in Handlers : pend'[t] = IF t = s THEN pend[s] \cup {n} ELSE pend[t]
    BY <1>1
  <2> QED BY <2>1 DEF Flushed
<1>3. Flushed \subseteq Events
  BY <1>1 DEF Flushed
<1>4. \A e \in Flushed : e.at \in Nat /\ e.at <= clock
  BY <1>3 DEF TrailInv, StampsOK, Events
<1>5. StampsOK'
  <2>1. \A e \in Flushed \cup {n} : e.at <= clock'
    BY <1>1, <1>4
  <2>2. \A e, f \in Flushed \cup {n} : e.at = f.at => e = f
    BY <1>1, <1>4 DEF TrailInv, StampsOK
  <2> QED BY <1>2, <2>1, <2>2 DEF StampsOK
<1>6. AboutCase'
  BY <1>2 DEF TrailInv, AboutCase, Changes
<1> QED BY <1>1, <1>5, <1>6

LEMMA AtWork ==
  ASSUME TrailInv, NEW s \in Handlers, script[s] # <<>>
  PROVE  /\ script[s] \in Seq(HandlerSteps) /\ ScriptOK(script[s])
         /\ Step(s) = script[s][1] /\ Step(s) \in HandlerSteps
         /\ Tail(script[s]) \in Seq(HandlerSteps) /\ ScriptOK(Tail(script[s]))
         /\ copy[s] # NoCopy
<1>1. script[s] \in Seq(HandlerSteps) /\ ScriptOK(script[s]) /\ copy[s] # NoCopy
  BY DEF TrailInv, AuditTypes, SessionOK
<1>2. Step(s) = script[s][1] /\ Step(s) \in HandlerSteps
  BY <1>1 DEF Step
<1> QED BY <1>1, <1>2, ScriptTail

(* Where a story is told, its events are stamped by the clock.             *)
LEMMA StoryStamps ==
  ASSUME TrailInv, NEW s \in Handlers
  PROVE  trail \cup pend[s] \in SUBSET Events
         /\ \A e \in trail \cup pend[s] : e.at <= clock
<1>1. trail \subseteq Events /\ pend[s] \subseteq Events
  BY DEF TrailInv, AuditTypes
<1> QED BY <1>1, FlushedIn DEF TrailInv, StampsOK
-----------------------------------------------------------------------------
(* The actions *)

LEMMA InitTrail == ASSUME Init  PROVE TrailInv
<1> DEFINE e == Event(1, 0, "recovery_case_created", "none", "none", "none")
<1>1. /\ row = [status |-> "DISCOVERED", version |-> 1] /\ trail = {e}
      /\ attempts = {} /\ clock = 1 /\ copy = [s \in Handlers |-> NoCopy]
      /\ script = [s \in Handlers |-> <<>>] /\ pend = [s \in Handlers |-> {}]
      /\ own = [s \in Handlers |-> 0] /\ reader = NoReader
  BY DEF Init
<1>2. /\ e \in Events /\ e.at = 1 /\ e.what # StatusChange /\ e.status = "none"
  BY DEF Event, Events, Words, StatusChange
<1> HIDE DEF e
<1>3. AuditTypes
  <2>1. row \in [status : Words, version : Nat \ {0}]
    BY <1>1 DEF Words, Statuses
  <2>2. NoCopy \in [status : Words, version : Nat]
    BY DEF NoCopy, Words
  <2>3. reader \in [phase : {"idle", "attempts", "shown"}, known : SUBSET Nat,
                    shown : SUBSET Events]
    BY <1>1 DEF NoReader
  <2>4. <<>> \in Seq(HandlerSteps)
    OBVIOUS
  <2> QED BY <1>1, <1>2, <2>1, <2>2, <2>3, <2>4 DEF AuditTypes
<1>4. Flushed = {e}
  BY <1>1 DEF Flushed
<1>5. StampsOK
  BY <1>1, <1>2, <1>4 DEF StampsOK
<1>6. AboutCase
  BY <1>2, <1>4 DEF AboutCase, Changes
<1>7. \A s \in Handlers : ~Writing(s) /\ ~Fresh(s)
  BY <1>1 DEF Writing, Fresh, NoCopy
<1>8. \A s \in Handlers : SessionOK(s)
  <2> TAKE s \in Handlers
  <2>1. copy[s] = NoCopy /\ script[s] = <<>> /\ pend[s] = {}
    BY <1>1
  <2>2. copy[s].version # row.version
    BY <1>1, <2>1 DEF NoCopy
  <2>3. ScriptOK(<<>>)
    BY DEF ScriptOK
  <2> QED BY <2>1, <2>2, <2>3 DEF SessionOK, Changes, Told
<1>9. Story(trail, row.status)
  <2>1. Told(trail) = {} /\ Changes(trail) = {}
    BY <1>1, <1>2 DEF Told, Changes
  <2> QED BY <1>1, <2>1 DEF Story, Ends
<1>10. ReaderOK
  BY <1>1 DEF ReaderOK, NoReader
<1> QED BY <1>3, <1>5, <1>6, <1>7, <1>8, <1>9, <1>10 DEF TrailInv, StoryOK

(* A session that leaves takes what it flushed with it.                    *)
LEMMA LeaveKeeps ==
  ASSUME TrailInv, NEW s \in Handlers, Leave(s), UNCHANGED <<store, clock, reader>>
  PROVE  TrailInv'
<1>1. /\ copy' = [copy EXCEPT ![s] = NoCopy] /\ script' = [script EXCEPT ![s] = <<>>]
      /\ pend' = [pend EXCEPT ![s] = {}] /\ own' = [own EXCEPT ![s] = 0]
      /\ row' = row /\ trail' = trail /\ attempts' = attempts
      /\ clock' = clock /\ reader' = reader
  BY DEF Leave, store
<1>2. AuditTypes
  BY DEF TrailInv
<1>3. AuditTypes'
  <2>1. NoCopy \in [status : Words, version : Nat]
    BY DEF NoCopy, Words
  <2> QED BY <1>1, <1>2, <2>1 DEF AuditTypes
<1>4. copy'[s] = NoCopy /\ script'[s] = <<>> /\ pend'[s] = {}
  BY <1>1, <1>2 DEF AuditTypes
<1>5. Apart(s)
  BY <1>1, <1>2 DEF Apart, AuditTypes
<1>6. Flushed' \subseteq Flushed
  <2>1. \A t \in Handlers : pend'[t] \subseteq pend[t]
    BY <1>1, <1>2 DEF AuditTypes
  <2> QED BY <1>1, <2>1 DEF Flushed
<1>7. StampsOK' /\ AboutCase'
  BY <1>1, <1>6 DEF TrailInv, StampsOK, AboutCase, Changes
<1>8. copy'[s].version # row'.version /\ ~Writing(s)'
  BY <1>1, <1>2, <1>4 DEF Writing, NoCopy, AuditTypes
<1>9. SessionOK(s)'
  <2>1. ScriptOK(<<>>)
    BY DEF ScriptOK
  <2> QED BY <1>4, <1>8, <2>1 DEF SessionOK, Changes, Told
<1>10. StoryOK(s)'
  BY <1>8 DEF StoryOK, Fresh
<1> QED BY <1>1, <1>3, <1>5, <1>7, <1>8, <1>9, <1>10, UpToSession

LEMMA LoadKeeps ==
  ASSUME TrailInv, NEW s \in Handlers, Load(s)
  PROVE  TrailInv'
<1>1. /\ copy[s] = NoCopy /\ copy' = [copy EXCEPT ![s] = row]
      /\ row' = row /\ trail' = trail /\ attempts' = attempts /\ clock' = clock
      /\ script' = script /\ pend' = pend /\ own' = own /\ reader' = reader
  BY DEF Load, store
<1>2. AuditTypes
  BY DEF TrailInv
<1>3. AuditTypes'
  BY <1>1, <1>2 DEF AuditTypes
<1>4. copy'[s] = row /\ pend[s] = {} /\ script[s] = <<>>
  BY <1>1, <1>2 DEF TrailInv, SessionOK, AuditTypes
<1>5. Apart(s)
  BY <1>1, <1>2 DEF Apart, AuditTypes
<1>6. StampsOK' /\ AboutCase'
  BY <1>1 DEF TrailInv, StampsOK, AboutCase, Flushed
<1>7. row # NoCopy /\ ~Writing(s)'
  BY <1>1, <1>2, <1>4 DEF Writing, NoCopy, AuditTypes
<1>8. SessionOK(s)'
  <2>1. ScriptOK(<<>>)
    BY DEF ScriptOK
  <2> QED BY <1>1, <1>4, <1>7, <2>1 DEF SessionOK, Changes, Told
<1>9. StoryOK(s)'
  <2>1. trail' \cup pend'[s] = trail /\ copy'[s].status = row.status
    BY <1>1, <1>4
  <2> QED BY <2>1 DEF StoryOK, TrailInv
<1> QED BY <1>1, <1>3, <1>5, <1>6, <1>7, <1>8, <1>9, UpToSession

LEMMA BeginKeeps ==
  ASSUME TrailInv, NEW s \in Handlers, Begin(s)
  PROVE  TrailInv'
<1>0. PICK p \in Scripts(copy[s].status) : script' = [script EXCEPT ![s] = p]
  BY DEF Begin
<1>1. /\ copy[s] # NoCopy /\ script[s] = <<>> /\ copy' = copy
      /\ row' = row /\ trail' = trail /\ attempts' = attempts /\ clock' = clock
      /\ pend' = pend /\ own' = own /\ reader' = reader
  BY DEF Begin, store
<1>2. AuditTypes
  BY DEF TrailInv
<1>3. p \in Seq(HandlerSteps) /\ ScriptOK(p)
  BY ScriptsOK
<1>4. AuditTypes'
  BY <1>0, <1>1, <1>2, <1>3 DEF AuditTypes
<1>5. script'[s] = p
  BY <1>0, <1>2 DEF AuditTypes
<1>6. Apart(s)
  BY <1>0, <1>1, <1>2 DEF Apart, AuditTypes
<1>7. StampsOK' /\ AboutCase'
  BY <1>1 DEF TrailInv, StampsOK, AboutCase, Flushed
<1>8. (Writing(s)' <=> Writing(s)) /\ (Fresh(s)' <=> Fresh(s))
  BY <1>1 DEF Writing, Fresh
<1>9. SessionOK(s)'
  <2>1. ~MoveAhead(script[s])
    BY <1>1 DEF MoveAhead
  <2>2. SessionOK(s)
    BY DEF TrailInv
  <2> QED BY <1>1, <1>3, <1>5, <1>8, <2>1, <2>2 DEF SessionOK
<1>10. StoryOK(s)'
  BY <1>1, <1>8 DEF StoryOK, TrailInv
<1> QED BY <1>1, <1>4, <1>6, <1>7, <1>8, <1>9, <1>10, UpToSession

(* A session that records something, other than a change, and goes on.     *)
LEMMA NoteKeeps ==
  ASSUME TrailInv, NEW s \in Handlers, script[s] # <<>>,
         NEW about \in Nat, NEW what \in Words, NEW found \in {"none", copy[s].status},
         what # StatusChange, Step(s).do # "move",
         found # "none" => MoveAhead(Tail(script[s])),
         Record(s, about, what, "none", "none", found), GoOn(s),
         own' \in [Handlers -> Nat],
         row' = row, trail' = trail, attempts' = attempts, copy' = copy, reader' = reader
  PROVE  TrailInv'
<1> DEFINE n == Event(clock + 1, about, what, "none", "none", found)
<1>1. AuditTypes
  BY DEF TrailInv
<1>2. clock' = clock + 1 /\ pend' = [pend EXCEPT ![s] = @ \cup {n}]
  BY DEF Record
<1>3. /\ n.at = clock + 1 /\ n.what = what /\ n.status = found /\ n \in Events
  <2>1. found \in Words /\ "none" \in Words
    BY <1>1 DEF AuditTypes, Words
  <2>2. clock + 1 \in Nat
    BY <1>1 DEF AuditTypes
  <2> QED BY <2>1, <2>2 DEF Event, Events
<1> HIDE DEF n
<1>4. StampsOK' /\ AboutCase' /\ pend' \in [Handlers -> SUBSET Events]
      /\ pend'[s] = pend[s] \cup {n}
  BY <1>2, <1>3, FlushKeeps
<1>5. /\ Tail(script[s]) \in Seq(HandlerSteps) /\ ScriptOK(Tail(script[s]))
      /\ copy[s] # NoCopy /\ script[s] \in Seq(HandlerSteps) /\ Step(s) = Head(script[s])
  BY AtWork DEF Step
<1>6. script' = [script EXCEPT ![s] = Tail(script[s])]
  BY DEF GoOn
<1>7. AuditTypes'
  BY <1>1, <1>2, <1>4, <1>5, <1>6 DEF AuditTypes
<1>8. Apart(s) /\ script'[s] = Tail(script[s])
  BY <1>1, <1>2, <1>6 DEF Apart, AuditTypes
<1>9. (Writing(s)' <=> Writing(s)) /\ (Fresh(s)' <=> Fresh(s))
  BY DEF Writing, Fresh
<1>10. SessionOK(s)'
  <2>1. SessionOK(s)
    BY DEF TrailInv
  <2>2. Changes(pend'[s]) = Changes(pend[s])
    BY <1>3, <1>4 DEF Changes
  <2>3. Told(pend'[s]) # {} => Writing(s) \/ MoveAhead(Tail(script[s]))
    <3>1. Told(pend[s]) # {} => Writing(s) \/ MoveAhead(Tail(script[s]))
      BY <1>5, <2>1, AheadTail DEF SessionOK
    <3>2. n.status # "none" => MoveAhead(Tail(script[s]))
      BY <1>3
    <3>3. Told(pend'[s]) \subseteq Told(pend[s]) \cup {n}
          /\ (n \in Told(pend'[s]) => n.status # "none" \/ n \in Told(pend[s]))
      BY <1>3, <1>4 DEF Told
    <3> QED BY <3>1, <3>2, <3>3
  <2> QED BY <1>5, <1>8, <1>9, <2>1, <2>2, <2>3 DEF SessionOK
<1>11. StoryOK(s)'
  <2> SUFFICES ASSUME Fresh(s)  PROVE Story(trail \cup pend'[s], copy[s].status)
    BY <1>9 DEF StoryOK
  <2>1. Story(trail \cup pend[s], copy[s].status)
    BY DEF TrailInv, StoryOK
  <2>2. Story((trail \cup pend[s]) \cup {n}, copy[s].status)
    BY <1>1, <2>1, StoryStamps, StoryNotes DEF n, AuditTypes
  <2>3. (trail \cup pend[s]) \cup {n} = trail \cup pend'[s]
    BY <1>4
  <2> QED BY <2>2, <2>3
<1> QED BY <1>4, <1>7, <1>8, <1>9, <1>10, <1>11, UpToSession

LEMMA TakeNoteKeeps ==
  ASSUME TrailInv, NEW s \in Handlers, TakeNote(s)
  PROVE  TrailInv'
<1> DEFINE about == IF Step(s).do = "note" THEN 0 ELSE own[s]
<1>1. /\ script[s] # <<>> /\ Step(s).do \in NoteSteps
      /\ Record(s, about, Step(s).arg, "none", "none", Found(s)) /\ GoOn(s)
      /\ row' = row /\ trail' = trail /\ attempts' = attempts /\ copy' = copy
      /\ own' = own /\ reader' = reader
  BY DEF TakeNote, store, NoteSteps
<1>2. /\ script[s] \in Seq(HandlerSteps) /\ ScriptOK(script[s]) /\ Step(s) = script[s][1]
      /\ Step(s) \in HandlerSteps /\ Step(s) = Head(script[s])
  BY <1>1, AtWork DEF Step
<1>3. about \in Nat /\ own \in [Handlers -> Nat]
  BY DEF TrailInv, AuditTypes
<1>4. Step(s).arg \in Words /\ Step(s).do # "move"
  BY <1>1, <1>2 DEF HandlerSteps, NoteSteps
<1>5. Step(s).arg # StatusChange
  <2>1. 1 \in 1..Len(script[s])
    BY <1>1, <1>2
  <2> QED BY <1>1, <1>2, <2>1 DEF ScriptOK
<1>6. Found(s) \in {"none", copy[s].status}
  BY DEF Found
<1>7. Found(s) # "none" => MoveAhead(Tail(script[s]))
  <2>1. Found(s) # "none" => Step(s).arg \in Requests
    BY DEF Found, Requests
  <2> QED BY <1>1, <1>2, <2>1, RequestAhead
<1> HIDE DEF about
<1> QED BY <1>1, <1>3, <1>4, <1>5, <1>6, <1>7, NoteKeeps

LEMMA TakeAttemptKeeps ==
  ASSUME TrailInv, NEW s \in Handlers, TakeAttempt(s)
  PROVE  TrailInv'
<1>1. /\ script[s] # <<>> /\ Step(s) = NewAttempt
      /\ own' = [own EXCEPT ![s] = clock + 1]
      /\ Record(s, clock + 1, "execution_started", "none", "none", "none") /\ GoOn(s)
      /\ row' = row /\ trail' = trail /\ attempts' = attempts /\ copy' = copy
      /\ reader' = reader
  BY DEF TakeAttempt, store
<1>2. clock + 1 \in Nat /\ own' \in [Handlers -> Nat]
  BY <1>1 DEF TrailInv, AuditTypes
<1>3. "execution_started" \in Words /\ "execution_started" # StatusChange
  BY DEF Words, StatusChange
<1>4. Step(s).do # "move"
  BY <1>1 DEF NewAttempt
<1> QED BY <1>1, <1>2, <1>3, <1>4, NoteKeeps

LEMMA TakeMoveKeeps ==
  ASSUME TrailInv, NEW s \in Handlers, TakeMove(s)
  PROVE  TrailInv'
<1> DEFINE st == copy[s].status
           to == Step(s).arg
           n == Event(clock + 1, 0, StatusChange, st, to, "none")
<1>1. /\ script[s] # <<>> /\ ~Locked(s) /\ Fresh(s)
      /\ copy' = [copy EXCEPT ![s] = [status |-> to, version |-> copy[s].version + 1]]
      /\ clock' = clock + 1 /\ pend' = [pend EXCEPT ![s] = @ \cup {n}]
      /\ script' = [script EXCEPT ![s] = Tail(script[s])]
      /\ row' = row /\ trail' = trail /\ attempts' = attempts
      /\ own' = own /\ reader' = reader
  BY DEF TakeMove, Update, Record, GoOn, store
<1>2. AuditTypes
  BY DEF TrailInv
<1>3. /\ Step(s) \in HandlerSteps
      /\ Tail(script[s]) \in Seq(HandlerSteps) /\ ScriptOK(Tail(script[s]))
  BY <1>1, AtWork
<1>4. st \in Words /\ to \in Words /\ copy[s].version \in Nat /\ row.version \in Nat
  BY <1>2, <1>3 DEF AuditTypes, HandlerSteps
<1>5. /\ n.at = clock + 1 /\ n.what = StatusChange /\ n.about = 0 /\ n \in Events
  <2>1. StatusChange \in Words /\ "none" \in Words /\ clock + 1 \in Nat
    BY <1>2 DEF AuditTypes, Words
  <2> QED BY <1>4, <2>1 DEF Event, Events
<1> HIDE DEF n, st, to
<1>6. StampsOK' /\ AboutCase' /\ pend' \in [Handlers -> SUBSET Events]
      /\ pend'[s] = pend[s] \cup {n}
  BY <1>1, <1>5, FlushKeeps
<1>7. copy'[s] = [status |-> to, version |-> copy[s].version + 1]
      /\ script'[s] = Tail(script[s])
  BY <1>1, <1>2 DEF AuditTypes
<1>8. AuditTypes'
  <2>1. [status |-> to, version |-> copy[s].version + 1] \in [status : Words, version : Nat]
    BY <1>4
  <2> QED BY <1>1, <1>2, <1>3, <1>6, <2>1 DEF AuditTypes
<1>9. Apart(s)
  BY <1>1, <1>2 DEF Apart, AuditTypes
<1>10. Writing(s)'
  BY <1>1, <1>4, <1>7 DEF Writing, Fresh
<1>11. SessionOK(s)'
  <2>1. SessionOK(s)
    BY DEF TrailInv
  <2>2. copy'[s] # NoCopy /\ copy'[s].version # row'.version
    BY <1>4, <1>7, <1>10 DEF NoCopy, Writing
  <2>3. ASSUME NEW e \in Changes(pend'[s]), NEW f \in Changes(trail)  PROVE f.at < e.at
    <3>1. CASE e = n
      <4>1. f \in trail /\ f.at \in Nat /\ clock \in Nat
        BY <1>2 DEF Changes, AuditTypes, Events
      <4>2. f.at <= clock
        BY <4>1, FlushedIn DEF TrailInv, StampsOK
      <4> QED BY <1>5, <3>1, <4>1, <4>2
    <3>2. CASE e # n
      <4>1. e \in Changes(pend[s])
        BY <1>6, <3>2 DEF Changes
      <4> QED BY <2>1, <4>1 DEF SessionOK
    <3> QED BY <3>1, <3>2
  <2> QED BY <1>1, <1>3, <1>7, <1>10, <2>2, <2>3 DEF SessionOK
<1>12. StoryOK(s)'
  <2>1. Story(trail \cup pend[s], st)
    BY <1>1 DEF TrailInv, StoryOK, st
  <2>2. Story((trail \cup pend[s]) \cup {n}, to)
    BY <1>2, <2>1, StoryStamps, StoryMoves DEF n, AuditTypes
  <2>3. (trail \cup pend[s]) \cup {n} = trail' \cup pend'[s]
    BY <1>1, <1>6
  <2>4. Story(trail' \cup pend'[s], to)
    BY <2>2, <2>3
  <2>5. copy'[s].status = to
    BY <1>7
  <2> QED BY <2>4, <2>5 DEF StoryOK
<1> QED BY <1>1, <1>6, <1>8, <1>9, <1>11, <1>12, UpToSession

LEMMA TakeTouchKeeps ==
  ASSUME TrailInv, NEW s \in Handlers, TakeTouch(s)
  PROVE  TrailInv'
<1> DEFINE c == [status |-> copy[s].status, version |-> copy[s].version + 1]
<1>1. /\ script[s] # <<>> /\ ~Locked(s) /\ Fresh(s)
      /\ copy' = [copy EXCEPT ![s] = c]
      /\ clock' = clock /\ pend' = pend
      /\ script' = [script EXCEPT ![s] = Tail(script[s])]
      /\ row' = row /\ trail' = trail /\ attempts' = attempts
      /\ own' = own /\ reader' = reader
  BY DEF TakeTouch, Update, GoOn, store
<1>2. AuditTypes
  BY DEF TrailInv
<1>3. /\ Tail(script[s]) \in Seq(HandlerSteps) /\ ScriptOK(Tail(script[s]))
  BY <1>1, AtWork
<1>4. copy[s].status \in Words /\ copy[s].version \in Nat /\ row.version \in Nat
  BY <1>2 DEF AuditTypes
<1>5. c \in [status : Words, version : Nat]
  BY <1>4
<1>6. copy'[s] = c /\ script'[s] = Tail(script[s])
  BY <1>1, <1>2 DEF AuditTypes
<1>7. AuditTypes'
  BY <1>1, <1>2, <1>3, <1>5 DEF AuditTypes
<1>8. Apart(s)
  BY <1>1, <1>2 DEF Apart, AuditTypes
<1>9. StampsOK' /\ AboutCase'
  BY <1>1 DEF TrailInv, StampsOK, AboutCase, Flushed
<1>10. Writing(s)'
  BY <1>1, <1>4, <1>6 DEF Writing, Fresh
<1>11. SessionOK(s)'
  <2>1. SessionOK(s)
    BY DEF TrailInv
  <2>2. copy'[s] # NoCopy /\ copy'[s].version # row'.version
    BY <1>4, <1>6, <1>10 DEF NoCopy, Writing
  <2> QED BY <1>1, <1>3, <1>6, <1>10, <2>1, <2>2 DEF SessionOK
<1>12. StoryOK(s)'
  <2>1. Story(trail \cup pend[s], copy[s].status)
    BY <1>1 DEF TrailInv, StoryOK
  <2>2. trail' \cup pend'[s] = trail \cup pend[s] /\ copy'[s].status = copy[s].status
    BY <1>1, <1>6
  <2> QED BY <2>1, <2>2 DEF StoryOK
<1> QED BY <1>1, <1>7, <1>8, <1>9, <1>11, <1>12, UpToSession

(* A session that has not written commits nothing that is told.            *)
LEMMA CommitByReader ==
  ASSUME TrailInv, NEW s \in Handlers, script[s] # <<>>, Step(s) = Commit, ~Writing(s)
  PROVE  Told(pend[s]) = {}
<1>1. script[s] \in Seq(HandlerSteps) /\ Step(s) = Head(script[s])
  BY AtWork DEF Step
<1>2. Head(script[s]).do = "commit"
  BY <1>1 DEF Commit
<1>3. ~MoveAhead(script[s])
  BY <1>1, <1>2, AheadTail
<1> QED BY <1>3 DEF TrailInv, SessionOK

LEMMA TakeCommitKeeps ==
  ASSUME TrailInv, NEW s \in Handlers, TakeCommit(s)
  PROVE  TrailInv'
<1>1. /\ script[s] # <<>> /\ Step(s) = Commit
      /\ trail' = trail \cup pend[s] /\ clock' = clock /\ reader' = reader
      /\ attempts' = attempts \cup ({own[s]} \ {0})
      /\ row' = IF Writing(s) THEN copy[s] ELSE row
  BY DEF TakeCommit
<1>2. AuditTypes
  BY DEF TrailInv
<1>3. /\ Tail(script[s]) \in Seq(HandlerSteps) /\ ScriptOK(Tail(script[s]))
      /\ copy[s] # NoCopy
  BY <1>1, AtWork
<1>4. PICK c \in {copy[s], NoCopy}, p \in {Tail(script[s]), <<>>}, o \in Nat :
        /\ copy' = [copy EXCEPT ![s] = c] /\ script' = [script EXCEPT ![s] = p]
        /\ pend' = [pend EXCEPT ![s] = {}] /\ own' = [own EXCEPT ![s] = o]
        /\ c = NoCopy => p = <<>>
  <2>1. CASE Tail(script[s]) = <<>>
    <3>1. Leave(s)
      BY <2>1 DEF TakeCommit
    <3> QED BY <3>1 DEF Leave
  <2>2. CASE Tail(script[s]) # <<>>
    <3>1. /\ script' = [script EXCEPT ![s] = Tail(script[s])]
          /\ pend' = [pend EXCEPT ![s] = {}] /\ copy' = copy /\ own' = own
      BY <2>2 DEF TakeCommit, GoOn
    <3>2. copy' = [copy EXCEPT ![s] = copy[s]] /\ own' = [own EXCEPT ![s] = own[s]]
      BY <1>2, <3>1 DEF AuditTypes
    <3>3. own[s] \in Nat
      BY <1>2 DEF AuditTypes
    <3> QED BY <1>3, <3>1, <3>2, <3>3
  <2> QED BY <2>1, <2>2
<1>5. /\ copy'[s] = c /\ script'[s] = p /\ pend'[s] = {}
      /\ \A t \in Handlers \ {s} :
           copy'[t] = copy[t] /\ script'[t] = script[t] /\ pend'[t] = pend[t]
  BY <1>2, <1>4 DEF AuditTypes
<1>6. row.version \in Nat \ {0} /\ row' \in [status : Words, version : Nat \ {0}]
  <2>1. Writing(s) => copy[s].version \in Nat \ {0}
    BY <1>2 DEF AuditTypes, Writing
  <2>2. copy[s] \in [status : Words, version : Nat]
    BY <1>2 DEF AuditTypes
  <2>3. Writing(s) => copy[s] \in [status : Words, version : Nat \ {0}]
    BY <2>1, <2>2
  <2> QED BY <1>1, <1>2, <2>3 DEF AuditTypes
<1>7. AuditTypes'
  <2>1. c \in [status : Words, version : Nat] /\ p \in Seq(HandlerSteps)
    <3>1. NoCopy \in [status : Words, version : Nat] /\ <<>> \in Seq(HandlerSteps)
      BY DEF NoCopy, Words
    <3>2. copy[s] \in [status : Words, version : Nat]
      BY <1>2 DEF AuditTypes
    <3> QED BY <1>3, <3>1, <3>2
  <2>2. own[s] \in Nat /\ pend[s] \subseteq Events
    BY <1>2 DEF AuditTypes
  <2>3. trail' \subseteq Events /\ attempts' \subseteq Nat
    BY <1>1, <1>2, <2>2 DEF AuditTypes
  <2>4. /\ copy' \in [Handlers -> [status : Words, version : Nat]]
        /\ script' \in [Handlers -> Seq(HandlerSteps)]
        /\ pend' \in [Handlers -> SUBSET Events] /\ own' \in [Handlers -> Nat]
    BY <1>2, <1>4, <2>1 DEF AuditTypes
  <2> QED BY <1>1, <1>2, <1>6, <2>3, <2>4 DEF AuditTypes
<1>8. StampsOK' /\ AboutCase'
  <2>1. Flushed' \subseteq Flushed
    BY <1>1, <1>5 DEF Flushed
  <2> QED BY <1>1, <2>1 DEF TrailInv, StampsOK, AboutCase, Changes
<1>9. ReaderOK'
  <2> SUFFICES ASSUME reader.phase = "shown"
               PROVE  /\ Changes(reader.shown) \subseteq trail'
                      /\ \A e \in Changes(trail' \ reader.shown), f \in Changes(reader.shown) :
                           f.at < e.at
    BY <1>1 DEF ReaderOK
  <2>1. /\ Changes(reader.shown) \subseteq trail
        /\ \A e \in Changes(trail \ reader.shown), f \in Changes(reader.shown) : f.at < e.at
    BY DEF TrailInv, ReaderOK
  <2>2. Changes(reader.shown) \subseteq Changes(trail)
    BY <2>1 DEF Changes
  <2>3. ASSUME NEW e \in Changes(trail' \ reader.shown), NEW f \in Changes(reader.shown)
        PROVE  f.at < e.at
    <3>1. e \in Changes(trail \ reader.shown) \/ e \in Changes(pend[s])
      BY <1>1 DEF Changes
    <3> QED BY <2>1, <2>2, <3>1 DEF TrailInv, SessionOK
  <2> QED BY <1>1, <2>1, <2>3
<1>10. c.version # row'.version \/ c = row'
  <2>1. c = NoCopy => c.version # row'.version
    BY <1>6 DEF NoCopy
  <2>2. c = copy[s] => c.version # row'.version \/ c = row'
    BY <1>1 DEF TrailInv, SessionOK
  <2> QED BY <2>1, <2>2
<1>11. ~Writing(s)'
  <2>1. NoCopy.version = 0
    BY DEF NoCopy
  <2>2. copy[s].version \in Nat /\ row'.version \in Nat \ {0}
    BY <1>2, <1>6 DEF AuditTypes
  <2>3. ~(c.version > row'.version)
    BY <1>1, <2>1, <2>2 DEF Writing
  <2> QED BY <1>5, <2>3 DEF Writing
<1>12. SessionOK(s)'
  <2>1. ScriptOK(p)
    <3>1. ScriptOK(<<>>)
      BY DEF ScriptOK
    <3> QED BY <1>3, <3>1
  <2>2. Changes({}) = {} /\ Told({}) = {}
    BY DEF Changes, Told
  <2>3. c = NoCopy => p = <<>>
    BY <1>4
  <2> QED BY <1>5, <1>10, <2>1, <2>2, <2>3 DEF SessionOK
<1>13. CASE Writing(s)
  <2>1. row' = copy[s] /\ copy[s].version > row.version /\ copy[s].version \in Nat
    BY <1>1, <1>2, <1>13 DEF Writing, AuditTypes
  <2>2. Story(trail', row'.status)
    BY <1>1, <1>13, <2>1 DEF TrailInv, StoryOK, Fresh
  <2>3. ASSUME NEW t \in Handlers \ {s}
        PROVE  SessionOK(t)' /\ ~Fresh(t)' /\ ~Writing(t)'
    <3>1. ~Writing(t) /\ copy[t].version \in Nat
      BY <1>2, <1>13 DEF TrailInv, AuditTypes
    <3>2. copy[t].version < row'.version
      BY <1>6, <2>1, <3>1 DEF Writing
    <3>3. copy'[t].version # row'.version /\ ~Writing(t)' /\ ~Fresh(t)'
      BY <1>5, <1>6, <3>1, <3>2 DEF Writing, Fresh
    <3>4. SessionOK(t)
      BY DEF TrailInv
    <3> QED BY <1>5, <3>1, <3>3, <3>4 DEF SessionOK
  <2>4. StoryOK(s)'
    <3> SUFFICES ASSUME Fresh(s)'  PROVE Story(trail' \cup pend'[s], copy'[s].status)
      BY DEF StoryOK
    <3>1. copy'[s] = row'
      BY <1>5, <1>10, <1>11 DEF Fresh
    <3>2. trail' \cup pend'[s] = trail'
      BY <1>5
    <3> QED BY <2>2, <3>1, <3>2
  <2>5. \A t \in Handlers : SessionOK(t)' /\ StoryOK(t)' /\ ~Writing(t)'
    BY <1>11, <1>12, <2>3, <2>4 DEF StoryOK
  <2> QED BY <1>7, <1>8, <1>9, <2>2, <2>5 DEF TrailInv
<1>14. CASE ~Writing(s)
  <2>1. row' = row /\ Told(pend[s]) = {}
    BY <1>1, <1>14, CommitByReader
  <2>2. Told(trail') = Told(trail) /\ Changes(trail') = Changes(trail)
    BY <1>1, <2>1 DEF Told, Changes
  <2>3. Story(trail', row'.status)
    BY <2>1, <2>2, StoryOfTold DEF TrailInv
  <2>4. ASSUME NEW t \in Handlers \ {s}
        PROVE  SessionOK(t)' /\ StoryOK(t)' /\ (Writing(t)' <=> Writing(t))
    <3>1. (Writing(t)' <=> Writing(t)) /\ (Fresh(t)' <=> Fresh(t))
      BY <1>5, <2>1 DEF Writing, Fresh
    <3>2. SessionOK(t) /\ StoryOK(t)
      BY DEF TrailInv
    <3>3. SessionOK(t)'
      BY <1>5, <2>1, <2>2, <3>1, <3>2 DEF SessionOK
    <3>4. StoryOK(t)'
      <4> SUFFICES ASSUME Fresh(t)  PROVE Story(trail' \cup pend[t], copy[t].status)
        BY <1>5, <3>1 DEF StoryOK
      <4>1. Told(trail' \cup pend[t]) = Told(trail \cup pend[t])
        BY <1>1, <2>1 DEF Told
      <4>2. Story(trail \cup pend[t], copy[t].status)
        BY <3>2 DEF StoryOK
      <4> QED BY <4>1, <4>2, StoryOfTold
    <3> QED BY <3>1, <3>3, <3>4
  <2>5. StoryOK(s)'
    <3> SUFFICES ASSUME Fresh(s)'  PROVE Story(trail' \cup pend'[s], copy'[s].status)
      BY DEF StoryOK
    <3>1. copy'[s] = row'
      BY <1>5, <1>10, <1>11 DEF Fresh
    <3>2. trail' \cup pend'[s] = trail'
      BY <1>5
    <3> QED BY <2>3, <3>1, <3>2
  <2>6. \A t \in Handlers : SessionOK(t)' /\ StoryOK(t)'
    BY <1>12, <2>4, <2>5
  <2>7. ASSUME NEW t \in Handlers, NEW u \in Handlers, Writing(t)', Writing(u)'  PROVE t = u
    <3>1. t # s /\ u # s
      BY <1>11, <2>7
    <3>2. Writing(t) /\ Writing(u)
      BY <2>4, <2>7, <3>1
    <3> QED BY <3>2 DEF TrailInv
  <2> QED BY <1>7, <1>8, <1>9, <2>3, <2>6, <2>7 DEF TrailInv
<1> QED BY <1>13, <1>14

(* A read of the trail shows every change that is committed.               *)
LEMMA ReadsKeep ==
  ASSUME TrailInv, ReadAttempts \/ ReadEvents
  PROVE  TrailInv'
<1>1. /\ row' = row /\ trail' = trail /\ attempts' = attempts /\ clock' = clock
      /\ copy' = copy /\ script' = script /\ pend' = pend /\ own' = own
  BY DEF ReadAttempts, ReadEvents, store, session
<1>2. AuditTypes
  BY DEF TrailInv
<1>3. reader' \in [phase : {"idle", "attempts", "shown"}, known : SUBSET Nat,
                   shown : SUBSET Events] /\ ReaderOK'
  <2>1. CASE ReadAttempts
    <3>1. reader' = [phase |-> "attempts", known |-> attempts, shown |-> {}]
      BY <2>1 DEF ReadAttempts, NoReader
    <3> QED BY <1>2, <3>1 DEF AuditTypes, ReaderOK
  <2>2. CASE ReadEvents
    <3>1. PICK seen : seen = {e \in trail : e.about \in {0} \cup reader.known}
                      /\ reader' = [reader EXCEPT !.phase = "shown", !.shown = seen]
      BY <2>2 DEF ReadEvents
    <3>2. seen \subseteq trail /\ seen \in SUBSET Events
      BY <1>2, <3>1 DEF AuditTypes
    <3>3. \A e \in Changes(trail) : e \in seen
      BY <3>1, FlushedIn DEF TrailInv, AboutCase, Changes, Flushed
    <3>4. Changes(seen) \subseteq trail /\ Changes(trail \ seen) = {}
      BY <3>2, <3>3 DEF Changes
    <3>5. reader'.shown = seen /\ reader' \in [phase : {"idle", "attempts", "shown"},
                                               known : SUBSET Nat, shown : SUBSET Events]
      BY <1>2, <3>1, <3>2 DEF AuditTypes
    <3> QED BY <1>1, <3>4, <3>5 DEF ReaderOK
  <2> QED BY <2>1, <2>2
<1>4. AuditTypes'
  BY <1>1, <1>2, <1>3 DEF AuditTypes
<1>5. StampsOK' /\ AboutCase' /\ Story(trail, row.status)'
  BY <1>1 DEF TrailInv, StampsOK, AboutCase, Flushed
<1>6. \A s \in Handlers : (Writing(s)' <=> Writing(s)) /\ (Fresh(s)' <=> Fresh(s))
  BY <1>1 DEF Writing, Fresh
<1>7. \A s \in Handlers : SessionOK(s)' /\ StoryOK(s)'
  BY <1>1, <1>6 DEF TrailInv, SessionOK, StoryOK
<1> QED BY <1>3, <1>4, <1>5, <1>6, <1>7 DEF TrailInv

LEMMA NothingWritten == ASSUME TrailInv, UNCHANGED auditVars  PROVE TrailInv'
<1>1. /\ row' = row /\ trail' = trail /\ attempts' = attempts /\ clock' = clock
      /\ copy' = copy /\ script' = script /\ pend' = pend /\ own' = own
      /\ reader' = reader
  BY DEF auditVars, store, session
<1>2. AuditTypes' /\ StampsOK' /\ AboutCase' /\ Story(trail, row.status)' /\ ReaderOK'
  <2>1. AuditTypes'
    BY <1>1 DEF TrailInv, AuditTypes
  <2>2. StampsOK' /\ AboutCase'
    BY <1>1 DEF TrailInv, StampsOK, AboutCase, Flushed
  <2>3. Story(trail, row.status)' /\ ReaderOK'
    BY <1>1 DEF TrailInv, ReaderOK
  <2> QED BY <2>1, <2>2, <2>3
<1>3. \A s \in Handlers : (Writing(s)' <=> Writing(s)) /\ (Fresh(s)' <=> Fresh(s))
  BY <1>1 DEF Writing, Fresh
<1>4. \A s \in Handlers : SessionOK(s)' /\ StoryOK(s)'
  BY <1>1, <1>3 DEF TrailInv, SessionOK, StoryOK
<1> QED BY <1>2, <1>3, <1>4 DEF TrailInv

LEMMA TrailInductive == TrailInv /\ [Next]_auditVars => TrailInv'
<1> SUFFICES ASSUME TrailInv, [Next]_auditVars  PROVE TrailInv'
  OBVIOUS
<1>1. ASSUME NEW s \in Handlers, Handler(s)  PROVE TrailInv'
  <2>1. CASE Close(s) \/ Stale(s) \/ Die(s)
    <3>1. Leave(s) /\ UNCHANGED <<store, clock, reader>>
      BY <2>1 DEF Close, Stale, Die
    <3> QED BY <3>1, LeaveKeeps
  <2> QED BY <1>1, <2>1, LoadKeeps, BeginKeeps, TakeNoteKeeps, TakeMoveKeeps, TakeTouchKeeps,
             TakeAttemptKeeps, TakeCommitKeeps DEF Handler
<1> QED BY <1>1, ReadsKeep, NothingWritten DEF Next

LEMMA TrailInvariance == Spec => []TrailInv
BY InitTrail, TrailInductive, PTL DEF Spec
-----------------------------------------------------------------------------
(* What the trail tells *)

(* A story that is told is the one the timeline shows.                     *)
LEMMA ToldIsShown == TrailInv => TrailTellsTheStatus /\ RequestsAgreeWithHistory
<1> SUFFICES ASSUME TrailInv  PROVE TrailTellsTheStatus /\ RequestsAgreeWithHistory
  OBVIOUS
<1>1. /\ trail \in SUBSET Events /\ clock \in Nat
      /\ \A e, f \in trail : e.at = f.at => e = f
      /\ \A e \in trail : e.at <= clock
  BY DEF TrailInv, AuditTypes, StampsOK, Flushed
<1>2. Story(trail, row.status)
  BY DEF TrailInv
<1>3. ASSUME NEW e \in Changes(trail)  PROVE e.from = StatusAt(trail, e.at)
  <2>1. e \in Told(trail) /\ e.what = StatusChange
    BY DEF Changes, Told
  <2>2. Ends(Before(trail, e.at), e.from)
    BY <1>2, <2>1 DEF Story
  <2> QED BY <1>1, <2>2, EndsIsStatus
<1>4. ASSUME NEW e \in trail, e.status # "none"  PROVE e.status = StatusAt(trail, e.at)
  <2>1. e \in Told(trail)
    BY <1>4 DEF Told
  <2>2. Ends(Before(trail, e.at), e.status)
    BY <1>2, <1>4, <2>1 DEF Story
  <2> QED BY <1>1, <2>2, EndsIsStatus
<1>5. row.status = StatusAt(trail, clock + 1)
  <2>1. Before(trail, clock + 1) = trail
    <3>1. \A e \in trail : e.at \in Nat /\ e.at < clock + 1
      BY <1>1 DEF Events
    <3> QED BY <3>1 DEF Before
  <2>2. Ends(Before(trail, clock + 1), row.status)
    BY <1>2, <2>1 DEF Story
  <2> QED BY <1>1, <2>2, EndsIsStatus
<1> QED BY <1>3, <1>4, <1>5 DEF TrailTellsTheStatus, RequestsAgreeWithHistory

(* However many handlers write, wait, are rolled back or die, the          *)
(* committed trail of a case, read in the order of its stamps, tells how   *)
(* the row got to its status (audit_service.record_event inside the        *)
(* handlers' transactions).                                                *)
THEOREM TrailTellsAll == Spec => []TrailTellsTheStatus
BY TrailInvariance, ToldIsShown, PTL

(* A request that is on record found the status its place in the trail     *)
(* gives (diagnosis_requested, execution_requested).                       *)
THEOREM RequestsAgree == Spec => []RequestsAgreeWithHistory
BY TrailInvariance, ToldIsShown, PTL

(* Status changes committed after a timeline was read come after those it  *)
(* shows (timeline_service.get_case_timeline).                             *)
THEOREM HistoryOnlyGrows == Spec => []HistoryGrowsAtItsEnd
<1>1. TrailInv => HistoryGrowsAtItsEnd
  BY DEF TrailInv, ReaderOK, HistoryGrowsAtItsEnd
<1> QED BY <1>1, TrailInvariance, PTL
-----------------------------------------------------------------------------
(* The evaluation summary *)

Contents == {"none", "partial", "whole"}
Files == [shape : Shapes \cup {"none"}, content : Contents, time : Nat]

ReportTypes ==
  /\ files \in [Runs -> Files]
  /\ times \in Nat
  /\ \A r \in Runs : files[r].time <= times
  /\ IsFiniteSet(Reports!Present)
  /\ queue \in Seq(Runs)
  /\ asked \subseteq Runs

(* A report that was whole when it was asked for stays as it is and keeps  *)
(* its place: nothing after it in the queue was ever younger, and until it *)
(* was served or something before it was, it waits there.                  *)
ReportsInv ==
  /\ ReportTypes
  /\ \A r \in asked : files[r].content = "whole"
  /\ \A i, j \in 1..Len(queue) :
       i < j /\ queue[j] \in asked => files[queue[i]].time >= files[queue[j]].time
  /\ reading => \A r \in asked : Reports!Parsable(r) => \E i \in 1..Len(queue) : queue[i] = r
  /\ Reports!SummaryIsLatest

LEMMA InitReports == ASSUME Reports!Init  PROVE ReportsInv
<1>1. /\ files = [r \in Runs |-> Reports!Missing] /\ times = 0 /\ queue = <<>>
      /\ reading = FALSE /\ answer = "none" /\ asked = {}
  BY DEF Reports!Init
<1>2. Reports!Missing \in Files /\ Reports!Missing.time = 0
  BY DEF Reports!Missing, Files, Contents
<1>3. Reports!Present = {}
  BY <1>1 DEF Reports!Present
<1>4. ReportTypes
  BY <1>1, <1>2, <1>3, FS_EmptySet DEF ReportTypes
<1> QED BY <1>1, <1>4 DEF ReportsInv, Reports!SummaryIsLatest, Reports!Answered

LEMMA PutLater ==
  ASSUME times \in Nat, NEW r \in Runs, NEW g \in Files, Reports!Put(r, g)
  PROVE  \E f \in Files :
           /\ files' = [files EXCEPT ![r] = f] /\ f.time = times + 1
           /\ times' = times + 1 /\ queue' = queue /\ reading' = reading
           /\ answer' = answer /\ asked' = asked
<1>1. PICK f : f = [g EXCEPT !.time = times + 1] /\ files' = [files EXCEPT ![r] = f]
  BY DEF Reports!Put
<1>2. f \in Files /\ f.time = times + 1
  BY <1>1 DEF Files
<1> QED BY <1>1, <1>2 DEF Reports!Put

(* The harness writes to files that nobody asked for, and always later.    *)
LEMMA HarnessKeeps ==
  ASSUME ReportsInv, NEW r \in Runs, Reports!OpenReport(r) \/ Reports!WriteReport(r)
  PROVE  ReportsInv'
<1>1. PICK f \in Files :
        /\ files' = [files EXCEPT ![r] = f] /\ f.time = times + 1
        /\ times' = times + 1 /\ queue' = queue /\ reading' = reading
        /\ answer' = answer /\ asked' = asked
        /\ files[r].content # "whole"
  <2>0. times \in Nat
    BY DEF ReportsInv, ReportTypes
  <2>1. CASE Reports!OpenReport(r)
    <3>1. PICK shape, g :
            /\ shape \in Shapes
            /\ g = [shape |-> shape, content |-> "partial", time |-> 0] /\ Reports!Put(r, g)
      BY <2>1 DEF Reports!OpenReport
    <3>2. g \in Files
      BY <3>1 DEF Files, Contents
    <3>3. files[r].content # "whole"
      BY <2>1 DEF Reports!OpenReport, Reports!Present, Reports!Missing
    <3> QED BY <2>0, <3>1, <3>2, <3>3, PutLater
  <2>2. CASE Reports!WriteReport(r)
    <3>1. PICK g :
            /\ g = [files[r] EXCEPT !.content = "whole"] /\ Reports!Put(r, g)
            /\ files[r].content = "partial"
      BY <2>2 DEF Reports!WriteReport
    <3>2. files[r] \in Files
      BY DEF ReportsInv, ReportTypes
    <3>3. g \in Files
      BY <3>1, <3>2 DEF Files, Contents
    <3> QED BY <2>0, <3>1, <3>3, PutLater
  <2> QED BY <2>1, <2>2
<1>2. /\ files \in [Runs -> Files] /\ times \in Nat /\ asked \subseteq Runs
      /\ queue \in Seq(Runs) /\ \A q \in Runs : files[q].time <= times
      /\ \A q \in Runs : files[q].time \in Nat
  BY DEF ReportsInv, ReportTypes, Files
<1>3. /\ files'[r] = f /\ \A q \in Runs \ {r} : files'[q] = files[q]
      /\ files' \in [Runs -> Files]
  BY <1>1, <1>2
<1>4. r \notin asked /\ \A q \in asked : files'[q] = files[q]
  BY <1>1, <1>2, <1>3 DEF ReportsInv
<1>5. \A q \in Runs : files'[q].time >= files[q].time /\ files'[q].time <= times'
  BY <1>1, <1>2, <1>3
<1>6. IsFiniteSet(Reports!Present)'
  <2>1. Reports!Present' \subseteq Reports!Present \cup {r}
    BY <1>3 DEF Reports!Present
  <2>2. IsFiniteSet(Reports!Present \cup {r})
    BY FS_AddElement DEF ReportsInv, ReportTypes
  <2> QED BY <2>1, <2>2, FS_Subset
<1>7. ReportTypes'
  BY <1>1, <1>2, <1>3, <1>5, <1>6 DEF ReportTypes
<1>8. ASSUME NEW i \in 1..Len(queue'), NEW j \in 1..Len(queue'), i < j, queue'[j] \in asked'
      PROVE  files'[queue'[i]].time >= files'[queue'[j]].time
  <2>1. queue[i] \in Runs /\ queue[j] \in Runs
    BY <1>1, <1>2
  <2>2. files[queue[i]].time >= files[queue[j]].time
    BY <1>1, <1>8 DEF ReportsInv
  <2>3. files'[queue[j]].time = files[queue[j]].time
    BY <1>1, <1>4, <1>8
  <2>4. files'[queue[i]].time \in Nat
    BY <1>3, <2>1 DEF Files
  <2> QED BY <1>1, <1>2, <1>5, <2>1, <2>2, <2>3, <2>4
<1>9. \A q \in asked : Reports!Parsable(q)' <=> Reports!Parsable(q)
  BY <1>4 DEF Reports!Parsable
<1>10. Reports!SummaryIsLatest'
  <2> SUFFICES ASSUME Reports!Answered', NEW q \in asked, Reports!Parsable(q)'
               PROVE  Reports!Served' /\ files'[answer'].time >= files'[q].time
    BY <1>1 DEF Reports!SummaryIsLatest
  <2>1. Reports!Answered /\ Reports!Parsable(q)
    BY <1>1, <1>9 DEF Reports!Answered
  <2>2. Reports!Served /\ files[answer].time >= files[q].time
    BY <2>1 DEF ReportsInv, Reports!SummaryIsLatest
  <2>3. Reports!Served' /\ answer \in Runs
    BY <1>1, <2>2 DEF Reports!Served, Reports!Answered
  <2>4. files'[q] = files[q] /\ files'[answer].time \in Nat /\ q \in Runs
    BY <1>2, <1>3, <1>4, <2>3 DEF Files
  <2> QED BY <1>1, <1>2, <1>5, <2>2, <2>3, <2>4
<1>11. \A q \in asked' : files'[q].content = "whole"
  BY <1>1, <1>4 DEF ReportsInv
<1> QED BY <1>1, <1>7, <1>8, <1>9, <1>10, <1>11 DEF ReportsInv

(* The files a request has to try are all there are.                       *)
LEMMA OrderCoversAll ==
  ASSUME IsFiniteSet(Reports!Present), Reports!Present \subseteq Runs,
         NEW order \in Reports!NewestFirst
  PROVE  /\ order \in Seq(Runs)
         /\ \A r \in Reports!Present : \E i \in 1..Len(order) : order[i] = r
         /\ \A i, j \in 1..Len(order) :
              i < j => files[order[i]].time >= files[order[j]].time
<1> DEFINE n == Cardinality(Reports!Present)
<1>0. Reports!Cardinality(Reports!Present) = n
  BY DEF Reports!Cardinality, Cardinality, IsFiniteSet, Reports!IsFiniteSet
<1>1. n \in Nat
  BY FS_CardinalityType
<1> HIDE DEF n
<1>2. /\ order \in [1..n -> Reports!Present]
      /\ \A i, j \in 1..n : i # j => order[i] # order[j]
      /\ \A i, j \in DOMAIN order : i < j => files[order[i]].time >= files[order[j]].time
  BY <1>0 DEF Reports!NewestFirst, Reports!SetToSeqs
<1>3. order \in Injection(1..n, Reports!Present)
  BY <1>2 DEF Injection, IsInjective
<1>4. IsFiniteSet(1..n) /\ Cardinality(1..n) = n
  BY <1>1, FS_Interval
<1>5. order \in Surjection(1..n, Reports!Present)
  BY <1>3, <1>4, FS_Injection DEF n
<1>6. Len(order) = n /\ order \in Seq(Runs)
  BY <1>1, <1>2
<1> QED BY <1>2, <1>5, <1>6 DEF Surjection

LEMMA RequestKeeps ==
  ASSUME ReportsInv, Reports!Ask \/ Reports!Try \/ Reports!NothingFound
  PROVE  ReportsInv'
<1>1. /\ files \in [Runs -> Files] /\ times \in Nat /\ asked \subseteq Runs
      /\ queue \in Seq(Runs)
  BY DEF ReportsInv, ReportTypes
<1>2. files' = files /\ times' = times
  BY DEF Reports!Ask, Reports!Try, Reports!NothingFound
<1>3. Reports!Present' = Reports!Present /\ Reports!Present \subseteq Runs
  BY <1>2 DEF Reports!Present
<1>4. \A r : Reports!Parsable(r)' <=> Reports!Parsable(r)
  BY <1>2 DEF Reports!Parsable
<1>5. CASE Reports!Ask
  <2>1. /\ reading' = TRUE /\ answer' = "none" /\ queue' \in Reports!NewestFirst
        /\ asked' = {r \in Reports!Present : files[r].content = "whole"}
    BY <1>5 DEF Reports!Ask
  <2>2. PICK order \in Reports!NewestFirst : queue' = order
    BY <2>1
  <2>3. /\ order \in Seq(Runs)
        /\ \A r \in Reports!Present : \E i \in 1..Len(order) : order[i] = r
        /\ \A i, j \in 1..Len(order) : i < j => files[order[i]].time >= files[order[j]].time
    BY <1>3, OrderCoversAll DEF ReportsInv, ReportTypes
  <2>4. asked' \subseteq Reports!Present
    BY <2>1
  <2>5. ReportTypes'
    BY <1>2, <1>3, <2>2, <2>3, <2>4 DEF ReportsInv, ReportTypes
  <2>6. Reports!SummaryIsLatest'
    BY <2>1 DEF Reports!SummaryIsLatest, Reports!Answered
  <2> QED BY <1>2, <2>1, <2>2, <2>3, <2>4, <2>5, <2>6 DEF ReportsInv
<1>6. CASE Reports!Try /\ Reports!Parsable(Head(queue))
  <2>1. /\ reading /\ queue # <<>> /\ answer' = Head(queue) /\ reading' = FALSE
        /\ queue' = <<>> /\ asked' = asked
    BY <1>6 DEF Reports!Try, Reports!Serve
  <2>2. Head(queue) = queue[1] /\ 1 \in 1..Len(queue) /\ Head(queue) \in Runs
    BY <1>1, <2>1
  <2>3. ReportTypes'
    BY <1>2, <1>3, <2>1 DEF ReportsInv, ReportTypes
  <2>4. Reports!SummaryIsLatest'
    <3> SUFFICES ASSUME Reports!Answered', NEW r \in asked, Reports!Parsable(r)
                 PROVE  Reports!Served' /\ files[answer'].time >= files[r].time
      BY <1>2, <1>4, <2>1 DEF Reports!SummaryIsLatest
    <3>1. PICK i \in 1..Len(queue) : queue[i] = r
      BY <2>1 DEF ReportsInv
    <3>2. files[r].time \in Nat
      BY <1>1 DEF Files
    <3>3. files[queue[1]].time >= files[r].time
      <4>1. CASE i = 1
        BY <3>1, <3>2, <4>1
      <4>2. CASE i # 1
        BY <2>2, <3>1, <4>2 DEF ReportsInv
      <4> QED BY <4>1, <4>2
    <3>4. Reports!Served'
      BY <2>1, <2>2 DEF Reports!Served
    <3> QED BY <2>1, <2>2, <3>3, <3>4
  <2> QED BY <1>2, <2>1, <2>3, <2>4 DEF ReportsInv
<1>7. CASE Reports!Try /\ ~Reports!Parsable(Head(queue))
  <2>1. /\ reading /\ queue # <<>> /\ queue' = Tail(queue) /\ reading' = reading
        /\ answer' = answer /\ asked' = asked
    BY <1>7 DEF Reports!Try
  <2>2. /\ Tail(queue) \in Seq(Runs) /\ Len(Tail(queue)) = Len(queue) - 1
        /\ Len(queue) \in Nat \ {0} /\ Head(queue) = queue[1]
        /\ \A i \in 1..Len(Tail(queue)) : Tail(queue)[i] = queue[i + 1]
    BY <1>1, <2>1, TailAt
  <2>3. ReportTypes'
    BY <1>2, <1>3, <2>1, <2>2 DEF ReportsInv, ReportTypes
  <2>4. ASSUME NEW i \in 1..Len(queue'), NEW j \in 1..Len(queue'), i < j, queue'[j] \in asked
        PROVE  files[queue'[i]].time >= files[queue'[j]].time
    <3>1. i + 1 \in 1..Len(queue) /\ j + 1 \in 1..Len(queue) /\ i + 1 < j + 1
      BY <2>1, <2>2, <2>4
    <3>2. queue'[i] = queue[i + 1] /\ queue'[j] = queue[j + 1]
      BY <2>1, <2>2
    <3> QED BY <2>4, <3>1, <3>2 DEF ReportsInv
  <2>5. ASSUME NEW r \in asked, Reports!Parsable(r)
        PROVE  \E i \in 1..Len(queue') : queue'[i] = r
    <3>1. PICK i \in 1..Len(queue) : queue[i] = r
      BY <2>1, <2>5 DEF ReportsInv
    <3>2. i # 1
      BY <1>7, <2>2, <2>5, <3>1
    <3>3. i - 1 \in 1..Len(queue') /\ queue[(i - 1) + 1] = r
      BY <2>1, <2>2, <3>1, <3>2
    <3>4. queue'[i - 1] = r
      BY <2>1, <2>2, <3>3
    <3> QED BY <3>3, <3>4
  <2>6. Reports!SummaryIsLatest'
    BY <2>1 DEF Reports!SummaryIsLatest, Reports!Answered
  <2>7. \A r \in asked' : files'[r].content = "whole"
    BY <1>2, <2>1 DEF ReportsInv
  <2> QED BY <1>2, <1>4, <2>1, <2>3, <2>4, <2>5, <2>6, <2>7 DEF ReportsInv
<1>8. CASE Reports!NothingFound
  <2>1. /\ reading /\ queue = <<>> /\ reading' = FALSE /\ queue' = <<>> /\ asked' = asked
    BY <1>8 DEF Reports!NothingFound, Reports!Serve
  <2>2. \A r \in asked : ~Reports!Parsable(r)
    BY <2>1 DEF ReportsInv
  <2>3. Reports!SummaryIsLatest'
    BY <1>4, <2>1, <2>2 DEF Reports!SummaryIsLatest
  <2>4. ReportTypes'
    BY <1>2, <1>3, <2>1 DEF ReportsInv, ReportTypes
  <2> QED BY <1>2, <2>1, <2>3, <2>4 DEF ReportsInv
<1> QED BY <1>5, <1>6, <1>7, <1>8

LEMMA NothingServed == ASSUME ReportsInv, UNCHANGED Reports!reportVars  PROVE ReportsInv'
<1>1. /\ files' = files /\ times' = times /\ queue' = queue /\ reading' = reading
      /\ answer' = answer /\ asked' = asked
  BY DEF Reports!reportVars
<1>2. Reports!Present' = Reports!Present /\ \A r : Reports!Parsable(r)' <=> Reports!Parsable(r)
  BY <1>1 DEF Reports!Present, Reports!Parsable
<1>3. ReportTypes'
  BY <1>1, <1>2 DEF ReportsInv, ReportTypes
<1>4. Reports!SummaryIsLatest'
  BY <1>1, <1>2 DEF ReportsInv, Reports!SummaryIsLatest, Reports!Served, Reports!Answered
<1> QED BY <1>1, <1>2, <1>3, <1>4 DEF ReportsInv

(* However many runs of the harness write meanwhile, a request is answered *)
(* with a report no older than any readable one there was when it came     *)
(* (evaluation_service.get_latest_summary).                                *)
THEOREM SummaryOfTheLatest == Reports!Spec => []SummaryIsLatest
<1>1. Reports!Init => ReportsInv
  BY InitReports
<1>2. ReportsInv /\ [Reports!Next]_(Reports!reportVars) => ReportsInv'
  BY HarnessKeeps, RequestKeeps, NothingServed DEF Reports!Next
<1>3. ReportsInv => SummaryIsLatest
  BY DEF ReportsInv, SummaryIsLatest
<1> QED BY <1>1, <1>2, <1>3, PTL DEF Reports!Spec
-----------------------------------------------------------------------------
(* The least of a set of numbers.                                          *)
LEMMA Least ==
  ASSUME NEW T \in SUBSET Nat, T # {}
  PROVE  \E x \in T : \A y \in T : x <= y
<1> DEFINE R == OpToRel(<, Nat)
<1>1. IsWellFoundedOn(R, Nat)
  BY NatLessThanWellFounded
<1>2. \A x, y \in Nat : <<y, x>> \in R <=> y < x
  BY DEF OpToRel
<1> HIDE DEF R
<1>3. PICK x \in T : \A y \in T : ~(<<y, x>> \in R)
  BY <1>1, WFMin
<1>4. \A y \in T : x \in Nat /\ y \in Nat /\ ~(y < x)
  BY <1>2, <1>3
<1>5. \A y \in T : x <= y
  BY <1>4
<1> QED BY <1>5

(* The sum of the weights of a set as the fold computes it, one chosen     *)
(* element after the other.                                                *)
Some(t) == CHOOSE x \in t : TRUE
SumStep(w, g, t) == IF t = {} THEN 0 ELSE w[Some(t)] + g[t \ {Some(t)}]
UpTo(A, n) == {t \in SUBSET A : Cardinality(t) <= n}
SumsUpTo(w, A, n) == {g \in [UpTo(A, n) -> Nat] : \A t \in UpTo(A, n) : g[t] = SumStep(w, g, t)}

LEMMA RemoveSome ==
  ASSUME NEW A, IsFiniteSet(A), NEW t \in SUBSET A, t # {}
  PROVE  /\ Some(t) \in t /\ t \ {Some(t)} \in SUBSET A
         /\ Cardinality(t) \in Nat /\ Cardinality(t) > 0
         /\ Cardinality(t \ {Some(t)}) = Cardinality(t) - 1
<1>1. Some(t) \in t
  BY DEF Some
<1>2. IsFiniteSet(t)
  BY FS_Subset
<1>3. Cardinality(t) \in Nat /\ Cardinality(t) # 0
  BY <1>2, FS_CardinalityType, FS_EmptySet
<1>4. Cardinality(t \ {Some(t)}) = Cardinality(t) - 1
  BY <1>1, <1>2, FS_RemoveElement
<1> QED BY <1>1, <1>3, <1>4

(* Such a sum exists: otherwise there is a least size it fails at, and the *)
(* sum over the smaller sets extends to the sets of that size.             *)
LEMMA SumExists ==
  ASSUME NEW A, IsFiniteSet(A), NEW w, \A x \in A : w[x] \in Nat
  PROVE  \E g \in [SUBSET A -> Nat] : \A t \in SUBSET A : g[t] = SumStep(w, g, t)
<1> DEFINE Bad == {n \in Nat : SumsUpTo(w, A, n) = {}}
<1>1. Bad = {}
  <2> SUFFICES ASSUME Bad # {}  PROVE FALSE
    OBVIOUS
  <2>1. PICK m \in Bad : \A n \in Bad : m <= n
    <3> HIDE DEF Bad
    <3>1. Bad \in SUBSET Nat
      BY DEF Bad
    <3> QED BY <3>1, Least
  <2>2. m \in Nat /\ SumsUpTo(w, A, m) = {}
    OBVIOUS
  <2>3. CASE m = 0
    <3> DEFINE h == [t \in UpTo(A, m) |-> 0]
    <3>1. \A t \in UpTo(A, m) : t = {}
      <4> SUFFICES ASSUME NEW t \in UpTo(A, m), t # {}  PROVE FALSE
        OBVIOUS
      <4>1. t \in SUBSET A /\ Cardinality(t) <= 0
        BY <2>3 DEF UpTo
      <4>2. Cardinality(t) \in Nat /\ Cardinality(t) > 0
        BY <4>1, RemoveSome
      <4> QED BY <4>1, <4>2
    <3>2. h \in SumsUpTo(w, A, m)
      BY <3>1 DEF SumsUpTo, SumStep
    <3> QED BY <2>2, <3>2
  <2>4. CASE m > 0
    <3>1. m - 1 \in Nat /\ m - 1 \notin Bad
      BY <2>1, <2>2, <2>4
    <3>2. PICK g : g \in SumsUpTo(w, A, m - 1)
      BY <3>1
    <3>3. /\ g \in [UpTo(A, m - 1) -> Nat]
          /\ \A t \in UpTo(A, m - 1) : g[t] = SumStep(w, g, t)
      BY <3>2 DEF SumsUpTo
    <3> DEFINE h == [t \in UpTo(A, m) |-> SumStep(w, g, t)]
    <3>4. ASSUME NEW t \in UpTo(A, m), t # {}
          PROVE  /\ Some(t) \in A /\ t \ {Some(t)} \in UpTo(A, m - 1)
      BY <2>2, <2>4, <3>4, RemoveSome DEF UpTo
    <3>5. \A t \in UpTo(A, m - 1) : t \in UpTo(A, m) /\ h[t] = g[t]
      <4> SUFFICES ASSUME NEW t \in UpTo(A, m - 1)
                   PROVE  t \in UpTo(A, m) /\ h[t] = g[t]
        OBVIOUS
      <4>1. t \in SUBSET A /\ Cardinality(t) <= m - 1 /\ IsFiniteSet(t)
        BY FS_Subset DEF UpTo
      <4>2. t \in UpTo(A, m)
        BY <2>2, <4>1, FS_CardinalityType DEF UpTo
      <4> QED BY <4>2, <3>3
    <3>6. \A t \in UpTo(A, m) : h[t] = SumStep(w, h, t)
      <4> SUFFICES ASSUME NEW t \in UpTo(A, m)  PROVE h[t] = SumStep(w, h, t)
        OBVIOUS
      <4>1. CASE t = {}
        BY <4>1 DEF SumStep
      <4>2. CASE t # {}
        <5>1. h[t \ {Some(t)}] = g[t \ {Some(t)}]
          BY <3>4, <3>5, <4>2
        <5> HIDE DEF h
        <5>2. h[t] = SumStep(w, g, t)
          BY DEF h
        <5> QED BY <4>2, <5>1, <5>2 DEF SumStep
      <4> QED BY <4>1, <4>2
    <3>7. h \in [UpTo(A, m) -> Nat]
      <4> SUFFICES ASSUME NEW t \in UpTo(A, m)  PROVE SumStep(w, g, t) \in Nat
        OBVIOUS
      <4>1. CASE t = {}
        BY <4>1 DEF SumStep
      <4>2. CASE t # {}
        BY <3>3, <3>4, <4>2 DEF SumStep
      <4> QED BY <4>1, <4>2
    <3>8. h \in SumsUpTo(w, A, m)
      <4> HIDE DEF h
      <4> QED BY <3>6, <3>7 DEF SumsUpTo
    <3> QED BY <2>2, <3>8
  <2> QED BY <2>2, <2>3, <2>4
<1>2. Cardinality(A) \in Nat
  BY FS_CardinalityType
<1>3. UpTo(A, Cardinality(A)) = SUBSET A
  BY FS_Subset DEF UpTo
<1>4. SumsUpTo(w, A, Cardinality(A)) # {}
  BY <1>1, <1>2
<1> QED BY <1>3, <1>4 DEF SumsUpTo

LEMMA FoldIsSum ==
  ASSUME NEW A, IsFiniteSet(A), \A c \in A : sums[c].recovered \in Nat
  PROVE  \E g :
           /\ \A t \in SUBSET A :
                g[t] = IF t = {} THEN 0
                       ELSE sums[Some(t)].recovered + g[t \ {Some(t)}]
           /\ Summary!SumOf(Summary!Recovered, A) = g[A]
<1> DEFINE w == [c \in A |-> sums[c].recovered]
           Iter(g) == [t \in SUBSET A |->
                         IF t = {} THEN 0
                         ELSE Summary!Recovered(Some(t)) + g[t \ {Some(t)}]]
           fold == CHOOSE g : g = Iter(g)
<1>1. PICK g \in [SUBSET A -> Nat] : \A t \in SUBSET A : g[t] = SumStep(w, g, t)
  <2> \A c \in A : w[c] \in Nat
    OBVIOUS
  <2> HIDE DEF w
  <2> QED BY SumExists
<1>2. \A t \in SUBSET A : t # {} => w[Some(t)] = Summary!Recovered(Some(t))
  BY RemoveSome DEF Summary!Recovered
<1>3. g = Iter(g)
  <2> HIDE DEF w
  <2> QED BY <1>1, <1>2 DEF SumStep
<1>4. fold = Iter(fold)
  BY <1>3
<1>5. Summary!SumOf(Summary!Recovered, A) = fold[A]
  BY DEF Summary!SumOf, Summary!MapThenSumSet, Summary!MapThenFoldSet, Some
<1> HIDE DEF fold
<1>6. \A t \in SUBSET A :
        fold[t] = IF t = {} THEN 0 ELSE sums[Some(t)].recovered + fold[t \ {Some(t)}]
  BY <1>4 DEF Summary!Recovered
<1> QED BY <1>5, <1>6

(* Summing amounts of at most m gives at most m for every one that is not  *)
(* zero.                                                                   *)
Paid(t) == {c \in t : sums[c].recovered > 0}

LEMMA PaidOfOneMore ==
  ASSUME NEW A, IsFiniteSet(A), NEW t \in SUBSET A, t # {}
  PROVE  /\ Cardinality(Paid(t)) \in Nat /\ Cardinality(Paid(t \ {Some(t)})) \in Nat
         /\ Cardinality(Paid(t)) =
              Cardinality(Paid(t \ {Some(t)})) +
                (IF sums[Some(t)].recovered > 0 THEN 1 ELSE 0)
<1> DEFINE x == Some(t)
           less == Paid(t \ {x})
<1>1. x \in t
  BY RemoveSome
<1>2. IsFiniteSet(less) /\ less \in SUBSET t
  <2>1. less \in SUBSET A
    BY DEF Paid
  <2>2. IsFiniteSet(less)
    <3> HIDE DEF less
    <3> QED BY <2>1, FS_Subset
  <2> QED BY <2>2 DEF Paid
<1>3. Cardinality(less) \in Nat
  <2> HIDE DEF less
  <2> QED BY <1>2, FS_CardinalityType
<1>4. CASE sums[x].recovered > 0
  <2>1. Paid(t) = less \cup {x} /\ x \notin less
    BY <1>1, <1>4 DEF Paid
  <2> HIDE DEF less, x
  <2>2. Cardinality(Paid(t)) = Cardinality(less) + 1
    BY <1>2, <2>1, FS_AddElement
  <2> QED BY <1>3, <1>4, <2>2 DEF less, x
<1>5. CASE ~(sums[x].recovered > 0)
  <2>1. Paid(t) = less
    BY <1>1, <1>5 DEF Paid
  <2> HIDE DEF less, x
  <2> QED BY <1>3, <1>5, <2>1 DEF less, x
<1> QED BY <1>4, <1>5

LEMMA SumBound ==
  ASSUME NEW A, IsFiniteSet(A), NEW m \in Nat,
         \A c \in A : sums[c].recovered \in 0..m,
         NEW g,
         \A t \in SUBSET A :
           g[t] = IF t = {} THEN 0 ELSE sums[Some(t)].recovered + g[t \ {Some(t)}]
  PROVE  \A t \in SUBSET A : g[t] \in Nat /\ g[t] <= Cardinality(Paid(t)) * m
<1> DEFINE Fails(t) == ~(g[t] \in Nat /\ g[t] <= Cardinality(Paid(t)) * m)
           Sizes == {n \in Nat : \E t \in SUBSET A : Cardinality(t) = n /\ Fails(t)}
<1>1. SUFFICES ASSUME NEW bad \in SUBSET A, Fails(bad)  PROVE FALSE
  OBVIOUS
<1>2. Cardinality(bad) \in Sizes
  BY <1>1, FS_Subset, FS_CardinalityType
<1>3. PICK n \in Sizes : \A k \in Sizes : n <= k
  <2> HIDE DEF Sizes
  <2>1. Sizes \in SUBSET Nat
    BY DEF Sizes
  <2> QED BY <1>2, <2>1, Least
<1>4. PICK t \in SUBSET A : Cardinality(t) = n /\ Fails(t)
  OBVIOUS
<1>5. CASE t = {}
  <2>1. g[t] = 0
    BY <1>5
  <2>2. Paid(t) = {}
    BY <1>5 DEF Paid
  <2>3. Cardinality(Paid(t)) = 0
    BY <2>2, FS_EmptySet
  <2> QED BY <1>4, <2>1, <2>3
<1>6. CASE t # {}
  <2> DEFINE u == t \ {Some(t)}
  <2>1. /\ Some(t) \in A /\ u \in SUBSET A
        /\ Cardinality(u) = n - 1 /\ n > 0 /\ n \in Nat
    BY <1>4, <1>6, RemoveSome
  <2>2. ~Fails(u)
    <3>1. n - 1 \in Nat /\ n - 1 \notin Sizes
      BY <1>3, <2>1
    <3> QED BY <2>1, <3>1
  <2>3. g[t] = sums[Some(t)].recovered + g[u]
    BY <1>6
  <2>4. PICK a, p, q, b :
          /\ a = sums[Some(t)].recovered /\ p = Cardinality(Paid(t))
          /\ q = Cardinality(Paid(u)) /\ b = g[u]
    OBVIOUS
  <2>5. a \in 0..m /\ b \in Nat /\ b <= q * m
    BY <2>1, <2>2, <2>4
  <2>6. p \in Nat /\ q \in Nat /\ p = q + (IF a > 0 THEN 1 ELSE 0)
    BY <1>6, <2>4, PaidOfOneMore
  <2>7. a + b \in Nat /\ a + b <= p * m
    <3>1. CASE a > 0
      <4>1. p * m = q * m + m /\ q * m \in Nat
        <5>1. p = q + 1
          BY <2>6, <3>1
        <5> QED BY <2>6, <5>1
      <4> QED BY <2>5, <4>1
    <3>2. CASE ~(a > 0)
      <4>1. a = 0 /\ p = q
        BY <2>5, <2>6, <3>2
      <4> QED BY <2>5, <4>1
    <3> QED BY <3>1, <3>2
  <2> HIDE DEF u
  <2>8. ~Fails(t)
    BY <2>3, <2>4, <2>7
  <2> QED BY <1>4, <2>8
<1> QED BY <1>5, <1>6

(* Of finitely many cases some owe most.                                   *)
Most == Summary!Max({Risk[c] : c \in Cases})

SummaryFacts == Summary!SummaryAssumption /\ Cases # {}

LEMMA CasesFinite == ASSUME SummaryFacts  PROVE IsFiniteSet(Cases)
  BY DEF SummaryFacts, Summary!SummaryAssumption, Summary!IsFiniteSet, IsFiniteSet

LEMMA MostIsMost ==
  ASSUME SummaryFacts
  PROVE  Most \in Nat /\ \A c \in Cases : Risk[c] \in 0..Most
<1> DEFINE HasMost(t) == \E x \in t : \A y \in t : Risk[y] <= Risk[x]
           Sizes == {n \in Nat : \E t \in SUBSET Cases :
                       Cardinality(t) = n /\ t # {} /\ ~HasMost(t)}
<1>0. IsFiniteSet(Cases) /\ Cases # {} /\ \A c \in Cases : Risk[c] \in Nat
  BY CasesFinite DEF SummaryFacts, Summary!SummaryAssumption
<1>1. HasMost(Cases)
  <2> SUFFICES ASSUME ~HasMost(Cases)  PROVE FALSE
    OBVIOUS
  <2>1. Cardinality(Cases) \in Sizes
    BY <1>0, FS_CardinalityType
  <2>2. PICK n \in Sizes : \A k \in Sizes : n <= k
    <3> HIDE DEF Sizes
    <3>1. Sizes \in SUBSET Nat
      BY DEF Sizes
    <3> QED BY <2>1, <3>1, Least
  <2>3. PICK t \in SUBSET Cases : Cardinality(t) = n /\ t # {} /\ ~HasMost(t)
    OBVIOUS
  <2> DEFINE u == t \ {Some(t)}
  <2>4. /\ Some(t) \in t /\ u \in SUBSET Cases
        /\ Cardinality(u) = n - 1 /\ n > 0 /\ n \in Nat
    BY <1>0, <2>3, RemoveSome
  <2>5. u # {}
    <3>1. u = {} => \A y \in t : y = Some(t)
      OBVIOUS
    <3>2. Risk[Some(t)] <= Risk[Some(t)]
      BY <1>0, <2>4
    <3> QED BY <2>3, <2>4, <3>1, <3>2
  <2>6. HasMost(u)
    <3>1. n - 1 \in Nat /\ n - 1 \notin Sizes
      BY <2>2, <2>4
    <3> QED BY <2>4, <2>5, <3>1
  <2>7. PICK x \in u : \A y \in u : Risk[y] <= Risk[x]
    BY <2>6
  <2>8. \A y \in t : y \in u \/ y = Some(t)
    OBVIOUS
  <2>9. x \in t /\ \A y \in t : Risk[y] \in Nat
    BY <1>0
  <2> HIDE DEF u
  <2>10. CASE Risk[Some(t)] <= Risk[x]
    BY <2>3, <2>7, <2>8, <2>9, <2>10
  <2>11. CASE ~(Risk[Some(t)] <= Risk[x])
    <3>1. \A y \in t : Risk[y] <= Risk[Some(t)]
      BY <2>4, <2>7, <2>8, <2>9, <2>11
    <3> QED BY <2>3, <2>4, <3>1
  <2> QED BY <2>10, <2>11
<1>2. PICK x \in Cases : \A y \in Cases : Risk[y] <= Risk[x]
  BY <1>1
<1> DEFINE owed == {Risk[c] : c \in Cases}
<1>3. Risk[x] \in owed /\ \A y \in owed : Risk[x] >= y
  BY <1>0, <1>2
<1>4. Most \in owed /\ \A y \in owed : Most >= y
  <2> HIDE DEF owed
  <2> QED BY <1>3 DEF Most, Summary!Max, owed
<1> QED BY <1>0, <1>4

LEMMA TimesGrows ==
  ASSUME NEW p \in Nat, NEW q \in Nat, p <= q, NEW m \in Nat
  PROVE  p * m <= q * m
<1>1. PICK d \in Nat : q = p + d
  <2>1. q - p \in Nat /\ q = p + (q - p)
    OBVIOUS
  <2> QED BY <2>1
<1>2. q * m = p * m + d * m /\ d * m \in Nat /\ p * m \in Nat
  BY <1>1
<1> QED BY <1>2

(* A row, and what it has been paid: nothing, or what its case owed.       *)
SummaryRow(c) ==
  [status : {"NONE", "DISCOVERED", "INELIGIBLE", "APPROVED", "ESCALATED",
             "STOPPED", "EXECUTING", "RECOVERED", "FAILED"},
   eligible : BOOLEAN, recovered : {0, Risk[c]},
   open : Nat, links : Nat, failures : Nat]

RowsAreReal ==
  /\ sums = [c \in Cases |-> sums[c]]
  /\ \A c \in Cases :
       /\ sums[c] \in SummaryRow(c)
       /\ sums[c].status = "NONE" => sums[c].recovered = 0

(* The sum read is of payments confirmed by then; the count read after it  *)
(* takes them all in.                                                      *)
FiguresAreReal ==
  /\ statement \in 0..11
  /\ statement >= 7 =>
       "recovered" \in DOMAIN figures /\ figures["recovered"] \in Nat
  /\ statement = 7 => figures["recovered"] <= Cardinality(Paid(Cases)) * Most
  /\ statement >= 8 =>
       /\ "recovered_cases" \in DOMAIN figures
       /\ figures["recovered"] <= figures["recovered_cases"] * Most

SummaryInv == RowsAreReal /\ FiguresAreReal

LEMMA PaidCount ==
  ASSUME SummaryFacts, SummaryInv
  PROVE  /\ Cardinality(Paid(Cases)) \in Nat
         /\ Summary!Value("recovered_cases") = Cardinality(Paid(Cases))
<1>1. IsFiniteSet(Paid(Cases))
  <2>1. Paid(Cases) \in SUBSET Cases
    BY DEF Paid
  <2> QED BY <2>1, CasesFinite, FS_Subset
<1>2. {c \in Summary!Rows : sums[c].recovered > 0} = Paid(Cases)
  BY DEF SummaryInv, RowsAreReal, Paid, Summary!Rows
<1>3. Summary!Cardinality(Paid(Cases)) = Cardinality(Paid(Cases))
  BY DEF Summary!Cardinality, Cardinality
<1> QED BY <1>1, <1>2, <1>3, FS_CardinalityType DEF Summary!Value

LEMMA SumOfPaid ==
  ASSUME SummaryFacts, SummaryInv
  PROVE  /\ Summary!Value("recovered") \in Nat
         /\ Summary!Value("recovered") <= Cardinality(Paid(Cases)) * Most
<1> DEFINE A == Summary!Rows
<1>1. A \in SUBSET Cases /\ IsFiniteSet(A)
  <2>1. A \in SUBSET Cases
    BY DEF Summary!Rows
  <2> HIDE DEF A
  <2> QED BY <2>1, CasesFinite, FS_Subset
<1>2. \A c \in Cases : sums[c].recovered \in 0..Most
  BY MostIsMost DEF SummaryInv, RowsAreReal, SummaryRow
<1>3. Most \in Nat
  BY MostIsMost
<1>4. \A c \in A : sums[c].recovered \in 0..Most /\ sums[c].recovered \in Nat
  BY <1>1, <1>2, <1>3
<1> HIDE DEF A
<1>5. PICK g :
        /\ \A t \in SUBSET A :
             g[t] = IF t = {} THEN 0 ELSE sums[Some(t)].recovered + g[t \ {Some(t)}]
        /\ Summary!SumOf(Summary!Recovered, A) = g[A]
  BY <1>1, <1>4, FoldIsSum
<1>6. g[A] \in Nat /\ g[A] <= Cardinality(Paid(A)) * Most
  BY <1>1, <1>3, <1>4, <1>5, SumBound
<1>7. Paid(A) = Paid(Cases)
  BY DEF SummaryInv, RowsAreReal, Paid, A, Summary!Rows
<1>8. Summary!Value("recovered") = g[A]
  BY <1>5 DEF Summary!Value, A
<1> QED BY <1>6, <1>7, <1>8

LEMMA StatementsAre ==
  /\ Len(Summary!Statements) = 10
  /\ Summary!Statements[6] = "recovered" /\ Summary!Statements[7] = "recovered_cases"
  /\ \A i \in 1..10 :
       /\ Summary!Statements[i] = "recovered" <=> i = 6
       /\ Summary!Statements[i] = "recovered_cases" <=> i = 7
<1>1. Len(Summary!Statements) = 10
  BY DEF Summary!Statements
<1>2. \A i \in 1..10 : i \in {1, 2, 3, 4, 5, 6, 7, 8, 9, 10}
  OBVIOUS
<1>3. /\ Summary!Statements[1] = "cases" /\ Summary!Statements[2] = "by_status"
      /\ Summary!Statements[3] = "eligible" /\ Summary!Statements[4] = "at_risk"
      /\ Summary!Statements[5] = "eligible_revenue"
      /\ Summary!Statements[6] = "recovered"
      /\ Summary!Statements[7] = "recovered_cases"
      /\ Summary!Statements[8] = "attempts" /\ Summary!Statements[9] = "links"
      /\ Summary!Statements[10] = "failed"
  BY DEF Summary!Statements
<1> QED BY <1>1, <1>2, <1>3

(* A commit replaces one row, and takes back no payment.                   *)
LEMMA RowsKeep ==
  ASSUME SummaryFacts, SummaryInv, NEW c \in Cases, NEW new \in SummaryRow(c),
         Summary!Write(c, new),
         new.status = "NONE" => new.recovered = 0,
         sums[c].recovered > 0 => new.recovered > 0
  PROVE  SummaryInv'
<1>1. /\ sums' = [sums EXCEPT ![c] = new]
      /\ figures' = figures /\ statement' = statement
  BY DEF Summary!Write
<1>2. \A d \in Cases : sums'[d] = IF d = c THEN new ELSE sums[d]
  BY <1>1 DEF SummaryInv, RowsAreReal
<1>3. sums' = [d \in Cases |-> sums'[d]]
  BY <1>1 DEF SummaryInv, RowsAreReal
<1>4. RowsAreReal'
  BY <1>2, <1>3 DEF SummaryInv, RowsAreReal, SummaryRow
<1>5. Paid(Cases) \subseteq Paid(Cases)'
  BY <1>2 DEF Paid
<1>6. /\ Cardinality(Paid(Cases)) \in Nat /\ Cardinality(Paid(Cases)') \in Nat
      /\ Cardinality(Paid(Cases)) <= Cardinality(Paid(Cases)')
  <2>1. Paid(Cases)' \in SUBSET Cases
    BY DEF Paid
  <2>2. IsFiniteSet(Paid(Cases)')
    BY <2>1, CasesFinite, FS_Subset
  <2>3. IsFiniteSet(Paid(Cases)) /\ Cardinality(Paid(Cases)) <= Cardinality(Paid(Cases)')
    BY <1>5, <2>2, FS_Subset
  <2> QED BY <2>2, <2>3, FS_CardinalityType
<1>7. Most \in Nat /\ Most' = Most
  BY MostIsMost DEF Most
<1>8. Cardinality(Paid(Cases)) * Most <= Cardinality(Paid(Cases)') * Most
  BY <1>6, <1>7, TimesGrows
<1>9. /\ Cardinality(Paid(Cases)) * Most \in Nat
      /\ Cardinality(Paid(Cases)') * Most \in Nat
  BY <1>6, <1>7
<1>10. PICK p, q : p = Cardinality(Paid(Cases)) * Most
                /\ q = Cardinality(Paid(Cases)') * Most
  OBVIOUS
<1>11. FiguresAreReal'
  BY <1>1, <1>7, <1>8, <1>9, <1>10 DEF SummaryInv, FiguresAreReal
<1> QED BY <1>4, <1>11 DEF SummaryInv

LEMMA CommitKeeps ==
  ASSUME SummaryFacts, SummaryInv, NEW c \in Cases, Summary!Commit(c)
  PROVE  SummaryInv'
<1>1. /\ sums[c] \in SummaryRow(c)
      /\ sums[c].status = "NONE" => sums[c].recovered = 0
      /\ Risk[c] \in Nat /\ Risk[c] > 0
  BY DEF SummaryInv, RowsAreReal, SummaryFacts, Summary!SummaryAssumption
<1>2. \E new \in SummaryRow(c) :
        /\ Summary!Write(c, new)
        /\ new.status = "NONE" => new.recovered = 0
        /\ sums[c].recovered > 0 => new.recovered > 0
  <2>1. CASE Summary!Discovered(c)
    <3> DEFINE new == [Summary!Absent EXCEPT !.status = "DISCOVERED"]
    <3>1. sums[c].status = "NONE" /\ Summary!Write(c, new)
      BY <2>1 DEF Summary!Discovered, Summary!Rows
    <3>2. new \in SummaryRow(c) /\ new.status = "DISCOVERED"
      BY DEF Summary!Absent, SummaryRow
    <3> HIDE DEF new
    <3> QED BY <1>1, <3>1, <3>2
  <2>2. CASE Summary!Diagnosed(c)
    <3>1. PICK st \in {"INELIGIBLE", "APPROVED", "ESCALATED", "STOPPED"},
               e \in BOOLEAN :
            Summary!Write(c, [sums[c] EXCEPT !.status = st, !.eligible = e])
      <4>1. CASE Summary!Write(c, [sums[c] EXCEPT !.status = "INELIGIBLE"])
        <5>1. [sums[c] EXCEPT !.status = "INELIGIBLE"] =
                [sums[c] EXCEPT !.status = "INELIGIBLE",
                                !.eligible = sums[c].eligible]
          BY <1>1 DEF SummaryRow
        <5>2. sums[c].eligible \in BOOLEAN
          BY <1>1 DEF SummaryRow
        <5>3. PICK e \in BOOLEAN : e = sums[c].eligible
          BY <5>2, Zenon
        <5> QED BY <4>1, <5>1, <5>3
      <4>2. CASE \E st \in {"APPROVED", "ESCALATED", "STOPPED"} :
              Summary!Write(c, [sums[c] EXCEPT !.status = st, !.eligible = TRUE])
        BY <4>2
      <4> QED BY <2>2, <4>1, <4>2 DEF Summary!Diagnosed
    <3>2. PICK new : new = [sums[c] EXCEPT !.status = st, !.eligible = e]
      OBVIOUS
    <3>3. /\ new \in SummaryRow(c) /\ new.status # "NONE"
          /\ new.recovered = sums[c].recovered
      BY <1>1, <3>2 DEF SummaryRow
    <3> QED BY <3>1, <3>2, <3>3
  <2>3. CASE Summary!Started(c)
    <3>1. PICK new : /\ Summary!Write(c, new)
                     /\ new = [sums[c] EXCEPT !.status = "EXECUTING", !.open = 1]
      BY <2>3 DEF Summary!Started
    <3>2. /\ new \in SummaryRow(c) /\ new.status # "NONE"
          /\ new.recovered = sums[c].recovered
      BY <1>1, <3>1 DEF SummaryRow
    <3> QED BY <3>1, <3>2
  <2>4. CASE Summary!LinkCreated(c)
    <3>1. PICK n, new :
            /\ n = sums[c].links + 1 /\ Summary!Write(c, new)
            /\ new = [sums[c] EXCEPT !.open = 0, !.links = n]
      BY <2>4 DEF Summary!LinkCreated
    <3>2. n \in Nat
      BY <1>1, <3>1 DEF SummaryRow
    <3>3. /\ new \in SummaryRow(c) /\ new.status = sums[c].status
          /\ new.recovered = sums[c].recovered
      BY <1>1, <3>1, <3>2 DEF SummaryRow
    <3> QED BY <1>1, <3>1, <3>3
  <2>5. CASE Summary!LinkRefused(c)
    <3>1. PICK n, new :
            /\ n = sums[c].failures + 1 /\ Summary!Write(c, new)
            /\ new = [sums[c] EXCEPT !.status = "ESCALATED", !.open = 0,
                                     !.failures = n]
      BY <2>5 DEF Summary!LinkRefused
    <3>2. n \in Nat
      BY <1>1, <3>1 DEF SummaryRow
    <3>3. /\ new \in SummaryRow(c) /\ new.status # "NONE"
          /\ new.recovered = sums[c].recovered
      BY <1>1, <3>1, <3>2 DEF SummaryRow
    <3> QED BY <3>1, <3>3
  <2>6. CASE Summary!Paid(c)
    <3>1. PICK new : /\ Summary!Write(c, new)
                     /\ new = [sums[c] EXCEPT !.status = "RECOVERED",
                                              !.recovered = Risk[c]]
      BY <2>6 DEF Summary!Paid
    <3>2. /\ new \in SummaryRow(c) /\ new.status # "NONE" /\ new.recovered = Risk[c]
      BY <1>1, <3>1 DEF SummaryRow
    <3> QED BY <1>1, <3>1, <3>2
  <2>7. CASE Summary!Unpaid(c)
    <3>1. PICK new : /\ Summary!Write(c, new)
                     /\ new = [sums[c] EXCEPT !.status = "FAILED"]
      BY <2>7 DEF Summary!Unpaid
    <3>2. /\ new \in SummaryRow(c) /\ new.status # "NONE"
          /\ new.recovered = sums[c].recovered
      BY <1>1, <3>1 DEF SummaryRow
    <3> QED BY <3>1, <3>2
  <2> QED BY <2>1, <2>2, <2>3, <2>4, <2>5, <2>6, <2>7 DEF Summary!Commit
<1> QED BY <1>2, RowsKeep

LEMMA ExecuteKeeps ==
  ASSUME SummaryFacts, SummaryInv, Summary!Execute
  PROVE  SummaryInv'
<1>1. /\ statement \in 1..10 /\ statement' = statement + 1 /\ sums' = sums
      /\ figures' = [f \in DOMAIN figures \cup {Summary!Statements[statement]} |->
                       IF f = Summary!Statements[statement]
                       THEN Summary!Value(f) ELSE figures[f]]
  BY StatementsAre DEF Summary!Execute
<1>2. \A f \in DOMAIN figures : f # Summary!Statements[statement] =>
        f \in DOMAIN figures' /\ figures'[f] = figures[f]
  BY <1>1
<1>3. /\ Summary!Statements[statement] \in DOMAIN figures'
      /\ figures'[Summary!Statements[statement]] =
           Summary!Value(Summary!Statements[statement])
  BY <1>1
<1>4. RowsAreReal' /\ Paid(Cases)' = Paid(Cases) /\ Most' = Most
  BY <1>1 DEF SummaryInv, RowsAreReal, Paid, Most
<1>5. CASE statement = 6
  <2>1. "recovered" \in DOMAIN figures' /\ figures'["recovered"] = Summary!Value("recovered")
    BY <1>3, <1>5, StatementsAre
  <2>2. FiguresAreReal'
    BY <1>1, <1>4, <1>5, <2>1, SumOfPaid DEF FiguresAreReal
  <2> QED BY <1>4, <2>2 DEF SummaryInv
<1>6. CASE statement = 7
  <2>1. /\ "recovered" \in DOMAIN figures' /\ figures'["recovered"] = figures["recovered"]
        /\ figures["recovered"] \in Nat
        /\ figures["recovered"] <= Cardinality(Paid(Cases)) * Most
    BY <1>2, <1>6, StatementsAre DEF SummaryInv, FiguresAreReal
  <2>2. /\ "recovered_cases" \in DOMAIN figures'
        /\ figures'["recovered_cases"] = Cardinality(Paid(Cases))
    BY <1>3, <1>6, StatementsAre, PaidCount
  <2>3. FiguresAreReal'
    BY <1>1, <1>4, <1>6, <2>1, <2>2 DEF FiguresAreReal
  <2> QED BY <1>4, <2>3 DEF SummaryInv
<1>7. CASE statement > 7
  <2>1. /\ Summary!Statements[statement] # "recovered"
        /\ Summary!Statements[statement] # "recovered_cases"
    BY <1>1, <1>7, StatementsAre
  <2>2. /\ "recovered" \in DOMAIN figures' /\ figures'["recovered"] = figures["recovered"]
        /\ figures["recovered"] \in Nat
        /\ "recovered_cases" \in DOMAIN figures'
        /\ figures'["recovered_cases"] = figures["recovered_cases"]
        /\ figures["recovered"] <= figures["recovered_cases"] * Most
    BY <1>1, <1>2, <1>7, <2>1 DEF SummaryInv, FiguresAreReal
  <2>3. FiguresAreReal'
    BY <1>1, <1>4, <1>7, <2>2 DEF FiguresAreReal
  <2> QED BY <1>4, <2>3 DEF SummaryInv
<1>8. CASE statement < 6
  <2>1. FiguresAreReal'
    BY <1>1, <1>8 DEF FiguresAreReal
  <2> QED BY <1>4, <2>1 DEF SummaryInv
<1> QED BY <1>1, <1>5, <1>6, <1>7, <1>8

(* However many payments are confirmed while the figures are read, and     *)
(* between which statements: the average of a summary is one of payments   *)
(* the cases owed (recovery_summary_service.compute_recovery_summary).     *)
THEOREM AverageOfPayments ==
  ASSUME Summary!SummaryAssumption, Cases # {}
  PROVE  Summary!Spec => []AverageIsOfRealPayments
<1>0. SummaryFacts
  BY DEF SummaryFacts
<1>1. Summary!Init => SummaryInv
  <2> SUFFICES ASSUME Summary!Init  PROVE SummaryInv
    OBVIOUS
  <2>1. sums = [c \in Cases |-> Summary!Absent] /\ statement = 0
    BY DEF Summary!Init
  <2>2. \A c \in Cases :
          Summary!Absent \in SummaryRow(c) /\ Summary!Absent.recovered = 0
    BY DEF Summary!Absent, SummaryRow
  <2> QED BY <2>1, <2>2 DEF SummaryInv, RowsAreReal, FiguresAreReal
<1>2. SummaryInv /\ [Summary!Next]_(Summary!summaryVars) => SummaryInv'
  <2> SUFFICES ASSUME SummaryInv, [Summary!Next]_(Summary!summaryVars)
               PROVE  SummaryInv'
    OBVIOUS
  <2>1. CASE Summary!Request \/ Summary!Answer
    <3>1. sums' = sums /\ statement' \in {0, 1}
      BY <2>1 DEF Summary!Request, Summary!Answer
    <3> QED BY <3>1 DEF SummaryInv, RowsAreReal, FiguresAreReal
  <2>2. CASE Summary!Execute
    BY <1>0, <2>2, ExecuteKeeps
  <2>3. CASE \E c \in Cases : Summary!Commit(c)
    BY <1>0, <2>3, CommitKeeps
  <2>4. CASE UNCHANGED Summary!summaryVars
    BY <2>4 DEF Summary!summaryVars, SummaryInv, RowsAreReal, FiguresAreReal, Paid, Most
  <2> QED BY <2>1, <2>2, <2>3, <2>4 DEF Summary!Next
<1>3. SummaryInv => AverageIsOfRealPayments
  <2> SUFFICES ASSUME SummaryInv, statement = 11
               PROVE  figures["recovered"] <= figures["recovered_cases"] * Most
    BY StatementsAre DEF AverageIsOfRealPayments, Summary!AverageIsOfRealPayments, Summary!Complete, Most
  <2> QED BY DEF SummaryInv, FiguresAreReal
<1> QED BY <1>1, <1>2, <1>3, PTL DEF Summary!Spec
=============================================================================
