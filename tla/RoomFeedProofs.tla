--------------------------- MODULE RoomFeedProofs ---------------------------
(***************************************************************************)
(* No post falls between a history and the broadcasts, and the posts of    *)
(* one author appear in their order, for any number of browsers, peers and *)
(* posts, any history length and any channel capacity.                     *)
(***************************************************************************)
EXTENDS RoomFeed, WellFoundedInduction, TLAPS

\* A "message" request waits in the inbox of its post's author, once, and its
\* post is queued.
InboxIsQueued ==
    \A b \in Browser : \A i \in DOMAIN inbox[b] : inbox[b][i].type = "message" =>
        /\ stage[inbox[b][i].post] = "queued"
        /\ Author[inbox[b][i].post] = b
        /\ \A j \in DOMAIN inbox[b] :
              inbox[b][j].type = "message" /\ inbox[b][j].post = inbox[b][i].post => j = i

\* The store holds a post once, and only posts whose handler has got that far.
StoredOnce ==
    /\ \A i \in DOMAIN stored : stage[stored[i]] \in {"saved", "sent"}
    /\ \A i, j \in DOMAIN stored : stored[i] = stored[j] => i = j

Pending(p) == stage[p] = "saved" \/ todo[p] # {}

\* A post that is still to be broadcast is in the store, the last of its author.
PendingIsLast ==
    \A p \in Post : Pending(p) =>
        \E i \in DOMAIN stored :
            /\ stored[i] = p
            /\ \A j \in DOMAIN stored : Author[stored[j]] = Author[p] => j <= i

HandlerInv == TypeOK /\ InboxIsQueued /\ StoredOnce /\ PendingIsLast

\* What browsers are shown comes from the store, ...
ShownIsStored == \A b \in Browser : Posts(Coming(b)) \subseteq ToSet(stored)

\* ... the posts of an author in the store's order, repetitions included.
InOrder(v) ==
    v # NoView => \A k, l \in DOMAIN v : k < l =>
        \A i, j \in DOMAIN stored :
            v[k] = stored[i] /\ v[l] = stored[j] /\ Author[stored[i]] = Author[stored[j]]
                => i <= j

ShownInOrder == \A b \in Browser : InOrder(Coming(b))

(***************************************************************************)
(* The fold over the events on their way to a browser.  After is a         *)
(* recursive function: its equations and what follows from them are proved *)
(* by induction, on the set of the numbers they hold for.                  *)
(***************************************************************************)

\* A set with 0 that has the successor of each of its numbers has them all.
LEMMA SetInduction ==
    ASSUME NEW S, 0 \in S, \A n \in Nat : n \in S => n + 1 \in S
    PROVE  Nat \subseteq S
<1> DEFINE R == OpToRel(<, Nat)
           T == Nat \ S
<1> SUFFICES ASSUME T # {} PROVE FALSE
  OBVIOUS
<1>1. IsWellFoundedOn(R, Nat)
  BY NatLessThanWellFounded
<1>2. T \subseteq Nat
  OBVIOUS
<1>3. PICK x \in T : \A y \in T : ~(<<y, x>> \in R)
  <2> HIDE DEF R, T
  <2> QED
    BY <1>1, <1>2, WFMin
<1>4. x \in Nat /\ x \notin S /\ x # 0
  BY <1>3
<1>5. x - 1 \in Nat /\ (x - 1) + 1 = x /\ x - 1 < x
  BY <1>4
<1>6. x - 1 \in T
  BY <1>4, <1>5
<1>7. <<x - 1, x>> \in R
  BY <1>4, <1>5 DEF OpToRel
<1> QED
  BY <1>3, <1>6, <1>7

\* A set of numbers that is not empty has a least one.
LEMMA LeastNumber ==
    ASSUME NEW T \in SUBSET Nat, T # {}
    PROVE  \E x \in T : \A y \in T : x <= y
<1> DEFINE R == OpToRel(<, Nat)
<1>1. IsWellFoundedOn(R, Nat)
  BY NatLessThanWellFounded
<1>2. PICK x \in T : \A y \in T : ~(<<y, x>> \in R)
  <2> HIDE DEF R
  <2> QED
    BY <1>1, WFMin
<1>3. ASSUME NEW y \in T PROVE x <= y
  <2>1. x \in Nat /\ y \in Nat
    OBVIOUS
  <2>2. y < x => <<y, x>> \in R
    BY <2>1 DEF OpToRel
  <2> HIDE DEF R
  <2> QED
    BY <1>2, <2>1, <2>2
<1> QED
  BY <1>3

View == Seq(Post) \cup {NoView}

\* The function After exists and satisfies its equations.
LEMMA AfterEquations ==
    ASSUME NEW v, NEW es \in Seq(Event)
    PROVE  /\ After(v, es)[0] = v
           /\ \A k \in 1..Len(es) : After(v, es)[k] = Shown(After(v, es)[k - 1], es[k])
<1> DEFINE Solves(f, K) ==
               f = [k \in 0..K |-> IF k = 0 THEN v ELSE Shown(f[k - 1], es[k])]
           S == {K \in Nat : \E f : Solves(f, K)}
<1>1. 0 \in S
  <2> DEFINE f == [k \in 0..0 |-> v]
  <2>1. Solves(f, 0)
    OBVIOUS
  <2> QED
    BY <2>1
<1>2. ASSUME NEW K \in Nat, K \in S PROVE K + 1 \in S
  <2>1. PICK f : Solves(f, K)
    BY <1>2
  <2> DEFINE g == [k \in 0..(K + 1) |->
                      IF k \in 0..K THEN f[k] ELSE Shown(f[K], es[K + 1])]
             h == [k \in 0..(K + 1) |-> IF k = 0 THEN v ELSE Shown(g[k - 1], es[k])]
  <2>2. ASSUME NEW k \in 0..(K + 1) PROVE g[k] = h[k]
    <3>1. CASE k = 0
      BY <2>1, <3>1
    <3>2. CASE k \in 1..K
      <4>1. k \in 0..K /\ k - 1 \in 0..K /\ k - 1 \in 0..(K + 1) /\ k # 0
        BY <3>2
      <4>2. f[k] = Shown(f[k - 1], es[k])
        BY <2>1, <4>1
      <4>3. g[k] = f[k] /\ g[k - 1] = f[k - 1]
        BY <4>1
      <4> QED
        BY <4>1, <4>2, <4>3
    <3>3. CASE k = K + 1
      <4>1. k \notin 0..K /\ k # 0 /\ k - 1 = K /\ K \in 0..K /\ K \in 0..(K + 1)
        BY <3>3
      <4>2. g[k] = Shown(f[K], es[k]) /\ g[K] = f[K]
        BY <3>3, <4>1
      <4> QED
        BY <4>1, <4>2
    <3> QED
      BY <3>1, <3>2, <3>3
  <2>3. g = h
    BY <2>2
  <2>4. Solves(g, K + 1)
    BY <2>3
  <2> HIDE DEF Solves, g
  <2> QED
    BY <2>4
<1>3. Len(es) \in S
  <2> HIDE DEF S
  <2> QED
    BY <1>1, <1>2, SetInduction
<1>4. After(v, es) = CHOOSE f : Solves(f, Len(es))
  BY DEF After
<1>5. Solves(After(v, es), Len(es))
  <2>1. \E f : Solves(f, Len(es))
    BY <1>3
  <2> HIDE DEF Solves
  <2> QED
    BY <1>4, <2>1
<1> DEFINE a == After(v, es)
<1>6. a = [k \in 0..Len(es) |-> IF k = 0 THEN v ELSE Shown(a[k - 1], es[k])]
  BY <1>5
<1> HIDE DEF a
<1>7. \A k \in 0..Len(es) : a[k] = IF k = 0 THEN v ELSE Shown(a[k - 1], es[k])
  BY <1>6, Zenon
<1>8. 0 \in 0..Len(es) /\ \A k \in 1..Len(es) : k \in 0..Len(es) /\ k # 0
  OBVIOUS
<1>9. a[0] = v /\ \A k \in 1..Len(es) : a[k] = Shown(a[k - 1], es[k])
  BY <1>7, <1>8
<1> QED
  BY <1>9 DEF a

\* An event makes a view of a view.
LEMMA ShownIsView ==
    ASSUME NEW v \in View, NEW e \in Event
    PROVE  /\ e.type = "message" =>
                 /\ e.post \in Post
                 /\ Shown(v, e) = Append(IF v = NoView THEN <<>> ELSE v, e.post)
           /\ e.type = "joined" =>
                 /\ e.history \in Seq(Post)
                 /\ e.history # <<>> => Shown(v, e) = e.history
                 /\ e.history = <<>> => Shown(v, e) = IF v = NoView THEN <<>> ELSE v
           /\ e.type \in {"message", "joined"}
           /\ Shown(v, e) \in View
           /\ Shown(v, e) # NoView
<1>1. CASE e \in [type : {"joined"}, history : Seq(Post)]
  <2>1. e.type = "joined" /\ e.history \in Seq(Post)
    BY <1>1
  <2>2. Shown(v, e) = IF e.history # <<>> THEN e.history
                      ELSE IF v = NoView THEN <<>> ELSE v
    BY <2>1 DEF Shown
  <2>3. Shown(v, e) \in Seq(Post)
    BY <2>1, <2>2 DEF View
  <2> QED
    BY <2>1, <2>2, <2>3, ViewAssumption DEF View
<1>2. CASE e \in [type : {"message"}, post : Post]
  <2>1. e.type = "message" /\ e.post \in Post
    BY <1>2
  <2>2. Shown(v, e) = Append(IF v = NoView THEN <<>> ELSE v, e.post)
    BY <2>1 DEF Shown
  <2>3. Shown(v, e) \in Seq(Post)
    <3>1. (IF v = NoView THEN <<>> ELSE v) \in Seq(Post)
      BY DEF View
    <3> QED
      BY <2>1, <2>2, <3>1
  <2> QED
    BY <2>1, <2>2, <2>3, ViewAssumption DEF View
<1> QED
  BY <1>1, <1>2 DEF Event

\* Every prefix of the events makes a view.
LEMMA AfterIsView ==
    ASSUME NEW v \in View, NEW es \in Seq(Event), NEW k \in 0..Len(es)
    PROVE  After(v, es)[k] \in View
<1> DEFINE a == After(v, es)
           S == {i \in Nat : i <= Len(es) => a[i] \in View}
<1>1. 0 \in S
  BY AfterEquations
<1>2. ASSUME NEW i \in Nat, i \in S PROVE i + 1 \in S
  <2> SUFFICES ASSUME i + 1 <= Len(es) PROVE a[i + 1] \in View
    OBVIOUS
  <2>1. i + 1 \in 1..Len(es) /\ (i + 1) - 1 = i /\ es[i + 1] \in Event /\ i <= Len(es)
    OBVIOUS
  <2>2. a[i + 1] = Shown(a[i], es[i + 1])
    BY <2>1, AfterEquations
  <2> QED
    BY <1>2, <2>1, <2>2, ShownIsView
<1>3. k \in S
  <2> HIDE DEF S
  <2> QED
    BY <1>1, <1>2, SetInduction
<1> QED
  BY <1>3

\* One event more is one step more.
LEMMA AfterAppend ==
    ASSUME NEW v \in View, NEW es \in Seq(Event), NEW e \in Event
    PROVE  After(v, Append(es, e))[Len(Append(es, e))] = Shown(After(v, es)[Len(es)], e)
<1> DEFINE more == Append(es, e)
           a == After(v, es)
           b == After(v, more)
           S == {i \in Nat : i <= Len(es) => a[i] = b[i]}
<1>1. /\ more \in Seq(Event) /\ Len(more) = Len(es) + 1 /\ more[Len(es) + 1] = e
      /\ \A i \in 1..Len(es) : more[i] = es[i]
  OBVIOUS
<1> HIDE DEF more
<1>2. /\ a[0] = v /\ \A k \in 1..Len(es) : a[k] = Shown(a[k - 1], es[k])
      /\ b[0] = v /\ \A k \in 1..Len(more) : b[k] = Shown(b[k - 1], more[k])
  BY <1>1, AfterEquations
<1> HIDE DEF a, b
<1>3. 0 \in S
  BY <1>2
<1>4. ASSUME NEW i \in Nat, i \in S PROVE i + 1 \in S
  <2> SUFFICES ASSUME i + 1 <= Len(es) PROVE a[i + 1] = b[i + 1]
    OBVIOUS
  <2>1. /\ i + 1 \in 1..Len(es) /\ i + 1 \in 1..Len(more) /\ (i + 1) - 1 = i
        /\ i <= Len(es)
    BY <1>1
  <2>2. a[i] = b[i] /\ more[i + 1] = es[i + 1]
    BY <1>1, <1>4, <2>1
  <2> QED
    BY <1>2, <2>1, <2>2
<1>5. Len(es) \in S
  <2> HIDE DEF S
  <2> QED
    BY <1>3, <1>4, SetInduction
<1>6. a[Len(es)] = b[Len(es)]
  BY <1>5
<1>7. Len(es) + 1 \in 1..Len(more) /\ (Len(es) + 1) - 1 = Len(es)
  BY <1>1
<1>8. b[Len(es) + 1] = Shown(b[Len(es)], e)
  BY <1>1, <1>2, <1>7
<1> QED
  BY <1>1, <1>6, <1>8 DEF a, b, more

\* To handle the first event changes nothing of what is coming.
LEMMA AfterTail ==
    ASSUME NEW v \in View, NEW es \in Seq(Event), es # <<>>
    PROVE  After(Shown(v, Head(es)), Tail(es))[Len(Tail(es))] = After(v, es)[Len(es)]
<1> DEFINE rest == Tail(es)
           w == Shown(v, Head(es))
           a == After(v, es)
           b == After(w, rest)
           S == {i \in Nat : i <= Len(rest) => b[i] = a[i + 1]}
<1>1. /\ rest \in Seq(Event) /\ Len(rest) = Len(es) - 1 /\ Len(rest) \in Nat
      /\ Head(es) = es[1] /\ 1 \in 1..Len(es)
      /\ \A i \in 1..Len(rest) : rest[i] = es[i + 1]
  OBVIOUS
<1> HIDE DEF rest, w
<1>2. /\ a[0] = v /\ \A k \in 1..Len(es) : a[k] = Shown(a[k - 1], es[k])
      /\ b[0] = w /\ \A k \in 1..Len(rest) : b[k] = Shown(b[k - 1], rest[k])
  BY <1>1, AfterEquations
<1> HIDE DEF a, b
<1>3. 0 \in S
  <2>1. 1 - 1 = 0 /\ 0 + 1 = 1
    OBVIOUS
  <2>2. a[1] = Shown(a[0], es[1])
    BY <1>1, <1>2, <2>1
  <2>3. a[1] = b[0]
    BY <1>1, <1>2, <2>2 DEF w
  <2> QED
    BY <2>1, <2>3
<1>4. ASSUME NEW i \in Nat, i \in S PROVE i + 1 \in S
  <2> SUFFICES ASSUME i + 1 <= Len(rest) PROVE b[i + 1] = a[(i + 1) + 1]
    OBVIOUS
  <2>1. /\ i + 1 \in 1..Len(rest) /\ (i + 1) + 1 \in 1..Len(es)
        /\ (i + 1) - 1 = i /\ ((i + 1) + 1) - 1 = i + 1 /\ i <= Len(rest)
    BY <1>1
  <2>2. b[i] = a[i + 1] /\ rest[i + 1] = es[(i + 1) + 1]
    BY <1>1, <1>4, <2>1
  <2>3. b[i + 1] = Shown(b[i], rest[i + 1])
    BY <1>2, <2>1
  <2>4. a[(i + 1) + 1] = Shown(a[i + 1], es[(i + 1) + 1])
    BY <1>2, <2>1
  <2> QED
    BY <2>2, <2>3, <2>4
<1>5. Len(rest) \in S
  <2> HIDE DEF S
  <2> QED
    BY <1>1, <1>3, <1>4, SetInduction
<1>6. b[Len(rest)] = a[Len(rest) + 1] /\ Len(rest) + 1 = Len(es)
  BY <1>1, <1>5
<1> QED
  BY <1>6 DEF a, b, w, rest

\* s is the end of t, element by element.
EndsWith(t, s) ==
    /\ Len(s) <= Len(t)
    /\ \A i \in DOMAIN s : s[i] = t[i + (Len(t) - Len(s))]

\* What comes to a browser that has forgotten the room is the end of what would
\* have come to it.
LEMMA AfterForgetting ==
    ASSUME NEW v \in View, NEW es \in Seq(Event)
    PROVE  LET a == After(v, es)[Len(es)]
               b == After(NoView, es)[Len(es)]
           IN  b = NoView \/ (a # NoView /\ EndsWith(a, b))
<1> DEFINE Ends(a, b) == b = NoView \/ (a # NoView /\ EndsWith(a, b))
           a == After(v, es)
           b == After(NoView, es)
           S == {i \in Nat : i <= Len(es) => Ends(a[i], b[i])}
<1>1. ASSUME NEW x \in View, NEW y \in View, Ends(x, y), NEW e \in Event
      PROVE  Ends(Shown(x, e), Shown(y, e))
  <2> DEFINE sx == Shown(x, e)
             sy == Shown(y, e)
  <2>1. sx # NoView
    BY ShownIsView
  <2>2. CASE e.type = "joined" /\ e.history # <<>>
    <3>1. sx = e.history /\ sy = e.history /\ e.history \in Seq(Post)
      BY <2>2, ShownIsView
    <3>2. EndsWith(e.history, e.history)
      BY <3>1 DEF EndsWith
    <3> QED
      BY <2>1, <3>1, <3>2
  <2>3. CASE e.type = "joined" /\ e.history = <<>>
    <3>1. /\ sx = IF x = NoView THEN <<>> ELSE x
          /\ sy = IF y = NoView THEN <<>> ELSE y
      BY <2>3, ShownIsView
    <3>2. CASE y = NoView
      <4>1. sy = <<>> /\ sx \in Seq(Post)
        BY <3>1, <3>2 DEF View
      <4> HIDE DEF sx, sy
      <4>2. EndsWith(sx, sy)
        BY <4>1 DEF EndsWith
      <4> QED
        BY <2>1, <4>2 DEF sx, sy
    <3>3. CASE y # NoView
      BY <1>1, <3>1, <3>3
    <3> QED
      BY <3>2, <3>3
  <2>4. CASE e.type = "message"
    <3> DEFINE xx == IF x = NoView THEN <<>> ELSE x
               yy == IF y = NoView THEN <<>> ELSE y
    <3>1. sx = Append(xx, e.post) /\ sy = Append(yy, e.post) /\ e.post \in Post
      BY <2>4, ShownIsView
    <3>2. xx \in Seq(Post) /\ yy \in Seq(Post)
      BY DEF View
    <3>3. EndsWith(xx, yy)
      <4>1. CASE y = NoView
        <5>1. yy = <<>>
          BY <4>1
        <5> HIDE DEF xx, yy
        <5> QED
          BY <3>2, <5>1 DEF EndsWith
      <4>2. CASE y # NoView
        BY <1>1, <4>2
      <4> QED
        BY <4>1, <4>2
    <3> HIDE DEF xx, yy, sx, sy
    <3>4. /\ Len(sx) = Len(xx) + 1 /\ Len(sy) = Len(yy) + 1
          /\ Len(xx) \in Nat /\ Len(yy) \in Nat
          /\ sx[Len(xx) + 1] = e.post /\ sy[Len(yy) + 1] = e.post
          /\ \A i \in 1..Len(xx) : sx[i] = xx[i]
          /\ \A i \in 1..Len(yy) : sy[i] = yy[i]
          /\ DOMAIN sy = 1..(Len(yy) + 1) /\ DOMAIN yy = 1..Len(yy)
      BY <3>1, <3>2
    <3>5. ASSUME NEW i \in DOMAIN sy PROVE sy[i] = sx[i + (Len(sx) - Len(sy))]
      <4>1. Len(sx) - Len(sy) = Len(xx) - Len(yy)
        BY <3>4
      <4>2. CASE i = Len(yy) + 1
        BY <3>4, <4>1, <4>2
      <4>3. CASE i \in 1..Len(yy)
        <5>1. i + (Len(xx) - Len(yy)) \in 1..Len(xx)
          BY <3>3, <3>4, <4>3 DEF EndsWith
        <5> QED
          BY <3>3, <3>4, <4>1, <4>3, <5>1 DEF EndsWith
      <4> QED
        BY <3>4, <4>2, <4>3
    <3>6. EndsWith(sx, sy)
      BY <3>3, <3>4, <3>5 DEF EndsWith
    <3> QED
      BY <2>1, <3>6 DEF sx, sy
  <2> QED
    BY <2>2, <2>3, <2>4, ShownIsView
<1>2. NoView \in View
  BY DEF View
<1>3. \A i \in 0..Len(es) : a[i] \in View /\ b[i] \in View
  BY <1>2, AfterIsView
<1>4. /\ \A k \in 1..Len(es) : a[k] = Shown(a[k - 1], es[k])
      /\ b[0] = NoView /\ \A k \in 1..Len(es) : b[k] = Shown(b[k - 1], es[k])
  BY AfterEquations
<1> HIDE DEF a, b, Ends
<1>5. 0 \in S
  BY <1>4 DEF Ends
<1>6. ASSUME NEW i \in Nat, i \in S PROVE i + 1 \in S
  <2> SUFFICES ASSUME i + 1 <= Len(es) PROVE Ends(a[i + 1], b[i + 1])
    OBVIOUS
  <2>1. /\ i + 1 \in 1..Len(es) /\ (i + 1) - 1 = i /\ i \in 0..Len(es)
        /\ es[i + 1] \in Event /\ i <= Len(es)
    OBVIOUS
  <2>2. Ends(a[i], b[i])
    BY <1>6, <2>1
  <2>3. a[i + 1] = Shown(a[i], es[i + 1]) /\ b[i + 1] = Shown(b[i], es[i + 1])
    BY <1>4, <2>1
  <2> QED
    BY <1>1, <1>3, <2>1, <2>2, <2>3
<1>7. Len(es) \in S
  <2> HIDE DEF S
  <2> QED
    BY <1>5, <1>6, SetInduction
<1> QED
  BY <1>7 DEF Ends, a, b

(***************************************************************************)
(* The handlers: one at a time for each author, so that the post being     *)
(* broadcast is the author's last in the store.                            *)
(***************************************************************************)

\* The requests left after one was taken.
LEMMA PopEffect ==
    ASSUME TypeOK, NEW b \in Browser, inbox[b] # <<>>, Pop(b)
    PROVE  /\ inbox' \in [Browser -> Seq(Request)]
           /\ \A c \in Browser : \A i \in DOMAIN inbox'[c] :
                 LET d == IF c = b THEN 1 ELSE 0
                 IN  i + d \in DOMAIN inbox[c] /\ inbox'[c][i] = inbox[c][i + d]
<1>1. /\ inbox \in [Browser -> Seq(Request)] /\ inbox[b] \in Seq(Request)
      /\ inbox' = [inbox EXCEPT ![b] = Tail(@)]
  BY DEF TypeOK, Pop
<1>2. /\ Tail(inbox[b]) \in Seq(Request)
      /\ \A i \in DOMAIN Tail(inbox[b]) :
            i + 1 \in DOMAIN inbox[b] /\ Tail(inbox[b])[i] = inbox[b][i + 1]
  BY <1>1
<1>3. \A c \in Browser : inbox'[c] = IF c = b THEN Tail(inbox[b]) ELSE inbox[c]
  BY <1>1
<1>4. \A c \in Browser : \A i \in DOMAIN inbox[c] : i + 0 = i
  BY <1>1
<1> QED
  BY <1>1, <1>2, <1>3, <1>4

\* The requests after one was sent.
LEMMA AskEffect ==
    ASSUME TypeOK, NEW b \in Browser, NEW r \in Request,
           inbox' = [inbox EXCEPT ![b] = Append(@, r)]
    PROVE  /\ inbox' \in [Browser -> Seq(Request)]
           /\ \A c \in Browser : \A i \in DOMAIN inbox'[c] :
                 \/ c = b /\ i = Len(inbox[b]) + 1 /\ inbox'[c][i] = r
                 \/ i \in DOMAIN inbox[c] /\ inbox'[c][i] = inbox[c][i]
           /\ \A c \in Browser : \A i \in DOMAIN inbox[c] :
                 i \in DOMAIN inbox'[c] /\ inbox'[c][i] = inbox[c][i]
<1>1. inbox \in [Browser -> Seq(Request)] /\ inbox[b] \in Seq(Request)
  BY DEF TypeOK
<1> DEFINE longer == Append(inbox[b], r)
<1>2. /\ longer \in Seq(Request)
      /\ \A i \in DOMAIN longer :
            \/ i = Len(inbox[b]) + 1 /\ longer[i] = r
            \/ i \in DOMAIN inbox[b] /\ longer[i] = inbox[b][i]
      /\ \A i \in DOMAIN inbox[b] : i \in DOMAIN longer /\ longer[i] = inbox[b][i]
  BY <1>1
<1>3. \A c \in Browser : inbox'[c] = IF c = b THEN longer ELSE inbox[c]
  BY <1>1
<1> HIDE DEF longer
<1>4. inbox' \in [Browser -> Seq(Request)]
  BY <1>1, <1>2 DEF longer
<1> QED
  BY <1>2, <1>3, <1>4

\* A request for a message names a post.
LEMMA RequestsNamePosts ==
    ASSUME TypeOK, NEW b \in Browser, NEW i \in DOMAIN inbox[b]
    PROVE  /\ inbox[b][i] \in Request
           /\ inbox[b][i].type = "message" => inbox[b][i].post \in Post
<1>1. inbox[b] \in Seq(Request)
  BY DEF TypeOK
<1>2. inbox[b][i] \in Request
  BY <1>1
<1> QED
  BY <1>2 DEF Request

\* What SendJSON leaves in the channels.
LEMMA SendEffect ==
    ASSUME TypeOK, NEW b \in Browser, NEW e \in Event, SendJSON(b, e)
    PROVE  /\ send' \in [Browser -> Seq(Event)]
           /\ dropped' \subseteq Browser /\ dropped \subseteq dropped'
           /\ \A c \in Browser : c # b => send'[c] = send[c]
           /\ \/ send'[b] = Append(send[b], e)
              \/ send'[b] = send[b] /\ b \in dropped'
<1>1. send \in [Browser -> Seq(Event)] /\ send[b] \in Seq(Event) /\ dropped \subseteq Browser
  BY DEF TypeOK
<1>2. CASE send' = [send EXCEPT ![b] = Append(@, e)] /\ dropped' = dropped
  <2>1. Append(send[b], e) \in Seq(Event)
    BY <1>1
  <2> QED
    BY <1>1, <1>2, <2>1
<1>3. CASE dropped' = dropped \cup {b} /\ send' = send
  BY <1>1, <1>3
<1> QED
  BY <1>2, <1>3 DEF SendJSON

\* The types, for the actions that touch the channels or the store.
LEMMA TypeStep ==
    ASSUME TypeOK, InboxIsQueued, [Next]_vars
    PROVE  TypeOK'
<1> USE DEF TypeOK
<1>1. ASSUME NEW b \in Browser, User(b) PROVE TypeOK'
  <2>1. CASE SwitchToRoom(b)
    <3>1. [type |-> "join_room"] \in Request
      BY DEF Request
    <3>2. inbox' \in [Browser -> Seq(Request)]
      BY <2>1, <3>1, AskEffect DEF SwitchToRoom
    <3>3. requests' \in [Browser -> Nat]
      BY <2>1 DEF SwitchToRoom
    <3> QED
      BY <2>1, <3>2, <3>3 DEF SwitchToRoom, serverVars
  <2>2. CASE LeaveRoom(b)
    <3>1. [type |-> "leave_room"] \in Request
      BY DEF Request
    <3>2. inbox' \in [Browser -> Seq(Request)]
      BY <2>2, <3>1, AskEffect DEF LeaveRoom
    <3>3. /\ requests' \in [Browser -> Nat]
          /\ view' \in [Browser -> Seq(Post) \cup {NoView}]
      BY <2>2 DEF LeaveRoom
    <3> QED
      BY <2>2, <3>2, <3>3 DEF LeaveRoom, serverVars
  <2>3. ASSUME NEW p \in Post, SendMessage(b, p) PROVE TypeOK'
    <3>1. [type |-> "message", post |-> p] \in Request
      BY DEF Request
    <3>2. inbox' \in [Browser -> Seq(Request)]
      BY <2>3, <3>1, AskEffect DEF SendMessage
    <3>3. stage' \in [Post -> Stage]
      BY <2>3 DEF SendMessage, Stage
    <3> QED
      BY <2>3, <3>2, <3>3 DEF SendMessage, serverVars, browserVars
  <2> QED
    BY <1>1, <2>1, <2>2, <2>3 DEF User
<1>2. ASSUME NEW b \in Browser, Receive(b) PROVE TypeOK'
  <2>1. send[b] \in Seq(Event) /\ send[b] # <<>> /\ view[b] \in View
    BY <1>2 DEF Receive, View
  <2>2. Head(send[b]) \in Event /\ Tail(send[b]) \in Seq(Event)
    BY <2>1
  <2>3. Shown(view[b], Head(send[b])) \in View
    BY <2>1, <2>2, ShownIsView
  <2>4. view' \in [Browser -> Seq(Post) \cup {NoView}]
    BY <1>2, <2>3 DEF Receive, View
  <2>5. send' \in [Browser -> Seq(Event)]
    BY <1>2, <2>2 DEF Receive
  <2> QED
    BY <1>2, <2>4, <2>5 DEF Receive, serverVars
<1>3. ASSUME NEW b \in Browser, HandleJoinRoom(b) PROVE TypeOK'
  <2>1. inbox' \in [Browser -> Seq(Request)]
    BY <1>3, PopEffect DEF HandleJoinRoom, Handles
  <2>2. Len(stored) \in Nat /\ History \in Seq(Post)
    BY BoundAssumption DEF History
  <2>3. [type |-> "joined", history |-> History] \in Event
    BY <2>2 DEF Event
  <2>4. /\ members' \subseteq Browser /\ joinedAt' \in [Browser -> Nat]
    BY <1>3, <2>2 DEF HandleJoinRoom
  <2>5. send' \in [Browser -> Seq(Event)] /\ dropped' \subseteq Browser
    <3>1. CASE SendJSON(b, [type |-> "joined", history |-> History])
      BY <2>3, <3>1, SendEffect
    <3>2. CASE UNCHANGED <<send, dropped>>
      BY <3>2
    <3> QED
      BY <1>3, <3>1, <3>2 DEF HandleJoinRoom
  <2> QED
    BY <1>3, <2>1, <2>4, <2>5 DEF HandleJoinRoom, browserVars
<1>4. ASSUME NEW b \in Browser, HandleLeaveRoom(b) PROVE TypeOK'
  <2>1. inbox' \in [Browser -> Seq(Request)]
    BY <1>4, PopEffect DEF HandleLeaveRoom, Handles
  <2> QED
    BY <1>4, <2>1 DEF HandleLeaveRoom, browserVars
<1>5. ASSUME NEW b \in Browser, NEW p \in Post, HandleMessage(b, p) PROVE TypeOK'
  <2>1. inbox' \in [Browser -> Seq(Request)]
    BY <1>5, PopEffect DEF HandleMessage, Handles
  <2>2. stored' \in Seq(Post)
    <3>1. stored' = Append(stored, p) \/ stored' = stored
      BY <1>5 DEF HandleMessage, SaveMessage
    <3>2. stored \in Seq(Post) /\ Append(stored, p) \in Seq(Post)
      OBVIOUS
    <3> QED
      BY <3>1, <3>2
  <2>3. stage' \in [Post -> Stage]
    BY <1>5 DEF HandleMessage, SaveMessage, Stage
  <2> QED
    BY <1>5, <2>1, <2>2, <2>3 DEF HandleMessage, browserVars
<1>6. ASSUME NEW m \in Peer, NEW p \in Post, InjectFromMesh(m, p) PROVE TypeOK'
  <2>1. stored' \in Seq(Post)
    BY <1>6 DEF InjectFromMesh, SaveMessage
  <2>2. stage' \in [Post -> Stage]
    BY <1>6 DEF InjectFromMesh, SaveMessage, Stage
  <2> QED
    BY <1>6, <2>1, <2>2 DEF InjectFromMesh, browserVars
<1>7. ASSUME NEW p \in Post, Broadcast(p) PROVE TypeOK'
  <2>1. stage' \in [Post -> Stage] /\ todo' \in [Post -> SUBSET Browser]
    BY <1>7 DEF Broadcast, Stage
  <2> QED
    BY <1>7, <2>1 DEF Broadcast, browserVars
<1>8. ASSUME NEW p \in Post, NEW b \in Browser, BroadcastTo(p, b) PROVE TypeOK'
  <2>1. [type |-> "message", post |-> p] \in Event
    BY DEF Event
  <2>2. send' \in [Browser -> Seq(Event)] /\ dropped' \subseteq Browser
    BY <1>8, <2>1, SendEffect DEF BroadcastTo
  <2>3. todo' \in [Post -> SUBSET Browser]
    BY <1>8 DEF BroadcastTo
  <2> QED
    BY <1>8, <2>2, <2>3 DEF BroadcastTo, browserVars
<1>9. CASE UNCHANGED vars
  BY <1>9 DEF vars
<1> QED
  BY <1>1, <1>2, <1>3, <1>4, <1>5, <1>6, <1>7, <1>8, <1>9 DEF Next, Handle, Deliver

\* A post saved while its author's goroutine is idle is the author's last.
LEMMA SaveStep ==
    ASSUME HandlerInv, TypeOK', NEW p \in Post, SaveMessage(p),
           stage[p] \in {"new", "queued"}, Idle(Author[p]), todo' = todo
    PROVE  StoredOnce' /\ PendingIsLast'
<1> DEFINE n == Len(stored) + 1
<1>1. /\ stored \in Seq(Post) /\ n \in Nat
      /\ stage \in [Post -> Stage] /\ todo \in [Post -> SUBSET Browser]
      /\ stored' = Append(stored, p)
      /\ \A q \in Post : stage'[q] = IF q = p THEN "saved" ELSE stage[q]
  BY DEF HandlerInv, TypeOK, SaveMessage
<1>2. /\ DOMAIN stored' = 1..n /\ n \in 1..n /\ stored'[n] = p
      /\ \A i \in DOMAIN stored : stored'[i] = stored[i] /\ i \in 1..n /\ i < n
      /\ \A i \in 1..n : i = n \/ i \in DOMAIN stored
      /\ \A i \in 1..n : i <= n
  BY <1>1
<1>3. \A i \in DOMAIN stored : stored[i] \in Post /\ stored[i] # p
  BY <1>1 DEF HandlerInv, StoredOnce
<1> HIDE DEF n
<1>4. StoredOnce'
  <2>1. \A i \in DOMAIN stored' : stage'[stored'[i]] \in {"saved", "sent"}
    BY <1>1, <1>2, <1>3 DEF HandlerInv, StoredOnce
  <2>2. \A i, j \in DOMAIN stored' : stored'[i] = stored'[j] => i = j
    BY <1>2, <1>3 DEF HandlerInv, StoredOnce
  <2> QED
    BY <2>1, <2>2 DEF StoredOnce
<1>5. PendingIsLast'
  <2> SUFFICES ASSUME NEW q \in Post, Pending(q)'
               PROVE  \E i \in DOMAIN stored' :
                         /\ stored'[i] = q
                         /\ \A j \in DOMAIN stored' : Author[stored'[j]] = Author[q] => j <= i
    BY DEF PendingIsLast
  <2>1. CASE q = p
    BY <1>2, <2>1
  <2>2. CASE q # p
    <3>1. Pending(q)
      BY <1>1, <2>2 DEF Pending
    <3>2. Author[q] # Author[p]
      BY <3>1 DEF Idle, Pending
    <3>3. PICK i \in DOMAIN stored :
             /\ stored[i] = q
             /\ \A j \in DOMAIN stored : Author[stored[j]] = Author[q] => j <= i
      BY <3>1 DEF HandlerInv, PendingIsLast
    <3> QED
      BY <1>2, <3>2, <3>3
  <2> QED
    BY <2>1, <2>2
<1> QED
  BY <1>4, <1>5

\* Nothing of the store and the handlers changes, and an inbox only loses its
\* first request.
LEMMA PopStep ==
    ASSUME HandlerInv, TypeOK', NEW b \in Browser, inbox[b] # <<>>, Pop(b),
           UNCHANGED <<stored, stage, todo>>
    PROVE  HandlerInv'
<1>1. \A c \in Browser : \A i \in DOMAIN inbox'[c] :
         LET d == IF c = b THEN 1 ELSE 0
         IN  i + d \in DOMAIN inbox[c] /\ inbox'[c][i] = inbox[c][i + d]
  BY PopEffect DEF HandlerInv
<1>2. InboxIsQueued'
  <2> SUFFICES ASSUME NEW c \in Browser, NEW i \in DOMAIN inbox'[c],
                      inbox'[c][i].type = "message"
               PROVE  /\ stage'[inbox'[c][i].post] = "queued"
                      /\ Author[inbox'[c][i].post] = c
                      /\ \A j \in DOMAIN inbox'[c] :
                            inbox'[c][j].type = "message"
                               /\ inbox'[c][j].post = inbox'[c][i].post => j = i
    BY DEF InboxIsQueued
  <2> DEFINE d == IF c = b THEN 1 ELSE 0
  <2>1. \A j \in DOMAIN inbox'[c] : j + d \in DOMAIN inbox[c] /\ inbox'[c][j] = inbox[c][j + d]
    BY <1>1
  <2>2. \A j \in DOMAIN inbox'[c] : j \in Nat /\ (j + d = i + d => j = i)
    <3>1. inbox'[c] \in Seq(Request)
      BY DEF TypeOK
    <3> QED
      BY <3>1
  <2> HIDE DEF d
  <2> QED
    BY <2>1, <2>2 DEF HandlerInv, InboxIsQueued
<1>3. StoredOnce' /\ PendingIsLast'
  BY DEF HandlerInv, StoredOnce, PendingIsLast, Pending
<1> QED
  BY <1>2, <1>3 DEF HandlerInv

\* A request for something else than a post concerns no post.
LEMMA AskStep ==
    ASSUME HandlerInv, TypeOK', NEW b \in Browser, NEW r \in Request, r.type # "message",
           inbox' = [inbox EXCEPT ![b] = Append(@, r)],
           UNCHANGED <<stored, stage, todo>>
    PROVE  HandlerInv'
<1>1. \A c \in Browser : \A i \in DOMAIN inbox'[c] :
         \/ inbox'[c][i] = r
         \/ i \in DOMAIN inbox[c] /\ inbox'[c][i] = inbox[c][i]
  BY AskEffect DEF HandlerInv
<1>2. InboxIsQueued'
  BY <1>1 DEF HandlerInv, InboxIsQueued
<1>3. StoredOnce' /\ PendingIsLast'
  BY DEF HandlerInv, StoredOnce, PendingIsLast, Pending
<1> QED
  BY <1>2, <1>3 DEF HandlerInv

\* A new post is queued once.
LEMMA SendMessageStep ==
    ASSUME HandlerInv, TypeOK', NEW b \in Browser, NEW p \in Post, SendMessage(b, p)
    PROVE  HandlerInv'
<1> DEFINE r == [type |-> "message", post |-> p]
<1>1. /\ Author[p] = b /\ stage[p] = "new"
      /\ \A q \in Post : stage'[q] = IF q = p THEN "queued" ELSE stage[q]
      /\ inbox' = [inbox EXCEPT ![b] = Append(@, r)]
      /\ stored' = stored /\ todo' = todo
  BY DEF HandlerInv, TypeOK, SendMessage, serverVars
<1>2. r \in Request /\ r.type = "message" /\ r.post = p
  BY DEF Request
<1> HIDE DEF r
<1>3. \A c \in Browser : \A i \in DOMAIN inbox'[c] :
         \/ c = b /\ i = Len(inbox[b]) + 1 /\ inbox'[c][i] = r
         \/ i \in DOMAIN inbox[c] /\ inbox'[c][i] = inbox[c][i]
  BY <1>1, <1>2, AskEffect DEF HandlerInv
<1>4. \A c \in Browser : \A i \in DOMAIN inbox[c] :
         inbox[c][i].type = "message" => inbox[c][i].post \in Post /\ inbox[c][i].post # p
  BY <1>1, RequestsNamePosts DEF HandlerInv, InboxIsQueued
<1>5. InboxIsQueued'
  <2> SUFFICES ASSUME NEW c \in Browser, NEW i \in DOMAIN inbox'[c],
                      inbox'[c][i].type = "message"
               PROVE  /\ stage'[inbox'[c][i].post] = "queued"
                      /\ Author[inbox'[c][i].post] = c
                      /\ \A j \in DOMAIN inbox'[c] :
                            inbox'[c][j].type = "message"
                               /\ inbox'[c][j].post = inbox'[c][i].post => j = i
    BY DEF InboxIsQueued
  <2>1. CASE c = b /\ i = Len(inbox[b]) + 1 /\ inbox'[c][i] = r
    BY <1>1, <1>2, <1>3, <1>4, <2>1
  <2>2. CASE i \in DOMAIN inbox[c] /\ inbox'[c][i] = inbox[c][i]
    <3>1. stage[inbox[c][i].post] = "queued" /\ Author[inbox[c][i].post] = c
      BY <2>2 DEF HandlerInv, InboxIsQueued
    <3>2. stage'[inbox[c][i].post] = "queued"
      BY <1>1, <1>4, <2>2, <3>1
    <3>3. ASSUME NEW j \in DOMAIN inbox'[c], inbox'[c][j].type = "message",
                 inbox'[c][j].post = inbox'[c][i].post
          PROVE  j = i
      <4>1. inbox'[c][j] # r
        BY <1>2, <1>4, <2>2, <3>3
      <4>2. j \in DOMAIN inbox[c] /\ inbox'[c][j] = inbox[c][j]
        BY <1>3, <4>1
      <4> QED
        BY <2>2, <3>3, <4>2 DEF HandlerInv, InboxIsQueued
    <3> QED
      BY <2>2, <3>1, <3>2, <3>3
  <2> QED
    BY <1>3, <2>1, <2>2
<1>6. \A i \in DOMAIN stored : stored[i] \in Post /\ stored[i] # p
  <2>1. stored \in Seq(Post)
    BY DEF HandlerInv, TypeOK
  <2> QED
    BY <1>1, <2>1 DEF HandlerInv, StoredOnce
<1>7. StoredOnce'
  BY <1>1, <1>6 DEF HandlerInv, StoredOnce
<1>8. \A q \in Post : Pending(q)' => Pending(q)
  BY <1>1 DEF Pending
<1>9. PendingIsLast'
  BY <1>1, <1>8 DEF HandlerInv, PendingIsLast
<1> QED
  BY <1>5, <1>7, <1>9 DEF HandlerInv

\* A post leaves the inbox for the store, or is refused.
LEMMA HandleMessageStep ==
    ASSUME HandlerInv, TypeOK', NEW b \in Browser, NEW p \in Post, HandleMessage(b, p)
    PROVE  HandlerInv'
<1>1. /\ inbox[b] # <<>> /\ Head(inbox[b]).type = "message" /\ Head(inbox[b]).post = p
      /\ Pop(b) /\ Idle(b) /\ todo' = todo
  BY DEF HandleMessage, Handles
<1>2. inbox[b] \in Seq(Request) /\ 1 \in DOMAIN inbox[b] /\ Head(inbox[b]) = inbox[b][1]
  BY <1>1 DEF HandlerInv, TypeOK
<1>3. stage[p] = "queued" /\ Author[p] = b
  BY <1>1, <1>2 DEF HandlerInv, InboxIsQueued
<1>4. \A q \in Post : q # p => stage'[q] = stage[q]
  BY DEF HandlerInv, TypeOK, HandleMessage, SaveMessage
<1>5. \A c \in Browser : \A i \in DOMAIN inbox'[c] :
         LET d == IF c = b THEN 1 ELSE 0
         IN  i + d \in DOMAIN inbox[c] /\ inbox'[c][i] = inbox[c][i + d]
  BY <1>1, PopEffect DEF HandlerInv
<1>6. InboxIsQueued'
  <2> SUFFICES ASSUME NEW c \in Browser, NEW i \in DOMAIN inbox'[c],
                      inbox'[c][i].type = "message"
               PROVE  /\ stage'[inbox'[c][i].post] = "queued"
                      /\ Author[inbox'[c][i].post] = c
                      /\ \A j \in DOMAIN inbox'[c] :
                            inbox'[c][j].type = "message"
                               /\ inbox'[c][j].post = inbox'[c][i].post => j = i
    BY DEF InboxIsQueued
  <2> DEFINE d == IF c = b THEN 1 ELSE 0
  <2>1. \A j \in DOMAIN inbox'[c] : j + d \in DOMAIN inbox[c] /\ inbox'[c][j] = inbox[c][j + d]
    BY <1>5
  <2>2. \A j \in DOMAIN inbox'[c] : j \in Nat /\ j >= 1 /\ (j + d = i + d => j = i)
    <3>1. inbox'[c] \in Seq(Request)
      BY DEF TypeOK
    <3> QED
      BY <3>1
  <2>3. c = b => i + d # 1
    BY <2>2
  <2> HIDE DEF d
  <2> DEFINE q == inbox[c][i + d].post
  <2>4. /\ stage[q] = "queued" /\ Author[q] = c /\ q \in Post
        /\ \A j \in DOMAIN inbox[c] :
              inbox[c][j].type = "message" /\ inbox[c][j].post = q => j = i + d
    BY <2>1, RequestsNamePosts DEF HandlerInv, InboxIsQueued
  <2>5. q # p
    BY <1>1, <1>2, <1>3, <2>3, <2>4
  <2> QED
    BY <1>4, <2>1, <2>2, <2>4, <2>5
<1>7. StoredOnce' /\ PendingIsLast'
  <2>1. CASE SaveMessage(p)
    BY <1>1, <1>3, <2>1, SaveStep
  <2>2. CASE stage' = [stage EXCEPT ![p] = "lost"] /\ stored' = stored
    <3>1. stored \in Seq(Post)
      BY DEF HandlerInv, TypeOK
    <3>2. \A i \in DOMAIN stored : stored[i] \in Post /\ stored[i] # p
      BY <1>3, <3>1 DEF HandlerInv, StoredOnce
    <3>3. StoredOnce'
      BY <1>4, <2>2, <3>2 DEF HandlerInv, StoredOnce
    <3>4. \A q \in Post : Pending(q)' => Pending(q)
      BY <1>1, <2>2 DEF Pending, HandlerInv, TypeOK
    <3>5. PendingIsLast'
      BY <2>2, <3>4 DEF HandlerInv, PendingIsLast
    <3> QED
      BY <3>3, <3>5
  <2> QED
    BY <2>1, <2>2 DEF HandleMessage
<1> QED
  BY <1>6, <1>7 DEF HandlerInv

\* A post from the mesh was in no inbox.
LEMMA InjectStep ==
    ASSUME HandlerInv, TypeOK', NEW m \in Peer, NEW p \in Post, InjectFromMesh(m, p)
    PROVE  HandlerInv'
<1>1. /\ Author[p] = m /\ stage[p] = "new" /\ Idle(m) /\ SaveMessage(p)
      /\ todo' = todo /\ inbox' = inbox
  BY DEF InjectFromMesh
<1>2. StoredOnce' /\ PendingIsLast'
  BY <1>1, SaveStep
<1>3. \A q \in Post : q # p => stage'[q] = stage[q]
  BY <1>1 DEF HandlerInv, TypeOK, SaveMessage
<1>4. \A c \in Browser : \A i \in DOMAIN inbox[c] :
         inbox[c][i].type = "message" => inbox[c][i].post \in Post /\ inbox[c][i].post # p
  BY <1>1, RequestsNamePosts DEF HandlerInv, InboxIsQueued
<1>5. InboxIsQueued'
  BY <1>1, <1>3, <1>4 DEF HandlerInv, InboxIsQueued
<1> QED
  BY <1>2, <1>5 DEF HandlerInv

\* A broadcast is of a saved post and leaves the store alone.
LEMMA DeliverStep ==
    ASSUME HandlerInv, TypeOK', NEW p \in Post, Deliver(p)
    PROVE  HandlerInv'
<1>1. inbox' = inbox /\ stored' = stored
  BY DEF Deliver, Broadcast, BroadcastTo
<1>2. \A q \in Post : Pending(q)' => Pending(q)
  <2>1. CASE Broadcast(p)
    BY <2>1 DEF HandlerInv, TypeOK, Broadcast, Pending
  <2>2. ASSUME NEW b \in Browser, BroadcastTo(p, b)
        PROVE  \A q \in Post : Pending(q)' => Pending(q)
    BY <2>2 DEF HandlerInv, TypeOK, BroadcastTo, Pending
  <2> QED
    BY <2>1, <2>2 DEF Deliver
<1>3. \A q \in Post : /\ stage[q] \notin {"saved"} => stage'[q] = stage[q]
                      /\ stage[q] = "saved" => stage'[q] \in {"saved", "sent"}
  BY DEF Deliver, Broadcast, BroadcastTo, HandlerInv, TypeOK
<1>4. InboxIsQueued'
  <2>1. \A c \in Browser : \A i \in DOMAIN inbox[c] :
           inbox[c][i].type = "message" => inbox[c][i].post \in Post
    BY RequestsNamePosts DEF HandlerInv
  <2> QED
    BY <1>1, <1>3, <2>1 DEF HandlerInv, InboxIsQueued
<1>5. StoredOnce'
  <2>1. stored \in Seq(Post)
    BY DEF HandlerInv, TypeOK
  <2>2. \A i \in DOMAIN stored : stored[i] \in Post
    BY <2>1
  <2> QED
    BY <1>1, <1>3, <2>2 DEF HandlerInv, StoredOnce
<1>6. PendingIsLast'
  BY <1>1, <1>2 DEF HandlerInv, PendingIsLast
<1> QED
  BY <1>4, <1>5, <1>6 DEF HandlerInv

\* Every step keeps the handlers' invariant.
LEMMA HandlerStep ==
    ASSUME HandlerInv, [Next]_vars
    PROVE  HandlerInv'
<1>1. TypeOK'
  BY TypeStep DEF HandlerInv
<1>2. ASSUME NEW b \in Browser, User(b) PROVE HandlerInv'
  <2>1. CASE SwitchToRoom(b)
    <3>1. [type |-> "join_room"] \in Request /\ [type |-> "join_room"].type # "message"
      BY DEF Request
    <3> QED
      BY <1>1, <2>1, <3>1, AskStep DEF SwitchToRoom, serverVars
  <2>2. CASE LeaveRoom(b)
    <3>1. [type |-> "leave_room"] \in Request /\ [type |-> "leave_room"].type # "message"
      BY DEF Request
    <3> QED
      BY <1>1, <2>2, <3>1, AskStep DEF LeaveRoom, serverVars
  <2> QED
    BY <1>1, <1>2, <2>1, <2>2, SendMessageStep DEF User
<1>3. ASSUME NEW b \in Browser, Handle(b) PROVE HandlerInv'
  <2>1. CASE HandleJoinRoom(b)
    BY <1>1, <2>1, PopStep DEF HandleJoinRoom, Handles
  <2>2. CASE HandleLeaveRoom(b)
    BY <1>1, <2>2, PopStep DEF HandleLeaveRoom, Handles
  <2> QED
    BY <1>1, <1>3, <2>1, <2>2, HandleMessageStep DEF Handle
<1>4. ASSUME UNCHANGED <<stored, stage, todo, inbox>> PROVE HandlerInv'
  BY <1>1, <1>4 DEF HandlerInv, InboxIsQueued, StoredOnce, PendingIsLast, Pending
<1>5. ASSUME NEW b \in Browser, Receive(b) PROVE HandlerInv'
  BY <1>4, <1>5 DEF Receive, serverVars
<1>6. CASE UNCHANGED vars
  BY <1>4, <1>6 DEF vars
<1> QED
  BY <1>1, <1>2, <1>3, <1>5, <1>6, InjectStep, DeliverStep DEF Next

\* Types and handlers, for every number of browsers, peers and posts.
THEOREM HandlerInvariant == Spec => []HandlerInv
<1>1. Init => HandlerInv
  <2> SUFFICES ASSUME Init PROVE HandlerInv
    OBVIOUS
  <2>1. stored = <<>> /\ <<>> \in Seq(Post) /\ <<>> \in Seq(Request) /\ <<>> \in Seq(Event)
    BY DEF Init
  <2>2. stage \in [Post -> Stage] /\ todo \in [Post -> SUBSET Browser]
    BY DEF Init, Stage
  <2>3. /\ inbox \in [Browser -> Seq(Request)] /\ send \in [Browser -> Seq(Event)]
        /\ view \in [Browser -> Seq(Post) \cup {NoView}]
        /\ requests \in [Browser -> Nat] /\ joinedAt \in [Browser -> Nat]
    BY <2>1 DEF Init
  <2>4. TypeOK
    BY <2>1, <2>2, <2>3 DEF Init, TypeOK
  <2>5. InboxIsQueued
    BY DEF Init, InboxIsQueued
  <2>6. StoredOnce /\ PendingIsLast
    BY <2>1 DEF Init, StoredOnce, PendingIsLast, Pending
  <2> QED
    BY <2>4, <2>5, <2>6 DEF HandlerInv
<1> QED
  BY <1>1, HandlerStep, PTL DEF Spec

\* Types, for every bound.
THEOREM FeedTypes == Spec => []TypeOK
<1>1. HandlerInv => TypeOK
  BY DEF HandlerInv
<1> QED
  BY <1>1, HandlerInvariant, PTL

(***************************************************************************)
(* What is coming to the browsers.                                         *)
(***************************************************************************)

\* A browser is shown a view.
LEMMA ComingIsView ==
    ASSUME TypeOK, NEW b \in Browser
    PROVE  /\ Coming(b) \in View
           /\ view[b] \in View /\ send[b] \in Seq(Event)
<1>1. view[b] \in View /\ send[b] \in Seq(Event)
  BY DEF TypeOK, View
<1>2. Len(send[b]) \in 0..Len(send[b])
  BY <1>1
<1> QED
  BY <1>1, <1>2, AfterIsView DEF Coming

\* An event that fits into the channel is shown after the others.
LEMMA ComingOfSend ==
    ASSUME TypeOK, NEW b \in Browser, NEW e \in Event, SendJSON(b, e), view' = view
    PROVE  /\ \A c \in Browser : c # b => Coming(c)' = Coming(c)
           /\ \/ Coming(b)' = Shown(Coming(b), e)
              \/ Coming(b)' = Coming(b) /\ b \in dropped'
<1>1. /\ \A c \in Browser : c # b => send'[c] = send[c]
      /\ \/ send'[b] = Append(send[b], e)
         \/ send'[b] = send[b] /\ b \in dropped'
  BY SendEffect
<1>2. After(view[b], Append(send[b], e))[Len(Append(send[b], e))] = Shown(Coming(b), e)
  BY ComingIsView, AfterAppend DEF Coming
<1>3. \A c \in Browser : c # b => Coming(c)' = Coming(c)
  BY <1>1 DEF Coming
<1>4. CASE send'[b] = Append(send[b], e)
  <2>1. Coming(b)' = Shown(Coming(b), e)
    BY <1>2, <1>4 DEF Coming
  <2> QED
    BY <1>3, <2>1
<1>5. CASE send'[b] = send[b] /\ b \in dropped'
  BY <1>3, <1>5 DEF Coming
<1> QED
  BY <1>1, <1>4, <1>5

\* To handle an event changes nothing of what is coming.
LEMMA ComingOfReceive ==
    ASSUME TypeOK, NEW b \in Browser, Receive(b), NEW c \in Browser
    PROVE  Coming(c)' = Coming(c)
<1>1. CASE c = b
  <2>1. view[b] \in View /\ send[b] \in Seq(Event) /\ send[b] # <<>>
    BY ComingIsView DEF Receive
  <2>2. view'[b] = Shown(view[b], Head(send[b])) /\ send'[b] = Tail(send[b])
    BY DEF Receive, TypeOK
  <2> QED
    BY <1>1, <2>1, <2>2, AfterTail DEF Coming
<1>2. CASE c # b
  BY <1>2 DEF Receive, TypeOK, Coming
<1> QED
  BY <1>1, <1>2

\* To leave forgets the beginning of what is coming.
LEMMA ComingOfLeave ==
    ASSUME TypeOK, NEW b \in Browser, LeaveRoom(b)
    PROVE  /\ \A c \in Browser : c # b => Coming(c)' = Coming(c)
           /\ \/ Coming(b)' = NoView
              \/ Coming(b) # NoView /\ EndsWith(Coming(b), Coming(b)')
<1>1. /\ send' = send /\ view'[b] = NoView
      /\ \A c \in Browser : c # b => view'[c] = view[c]
  BY DEF LeaveRoom, TypeOK
<1>2. Coming(b)' = After(NoView, send[b])[Len(send[b])]
  BY <1>1 DEF Coming
<1>3. \/ After(NoView, send[b])[Len(send[b])] = NoView
      \/ /\ Coming(b) # NoView
         /\ EndsWith(Coming(b), After(NoView, send[b])[Len(send[b])])
  BY ComingIsView, AfterForgetting DEF Coming
<1> QED
  BY <1>1, <1>2, <1>3 DEF Coming

\* The view of an action that touches neither views nor channels
LEMMA ComingUnchanged ==
    ASSUME UNCHANGED <<view, send>>, NEW c \in Browser
    PROVE  Coming(c)' = Coming(c)
BY DEF Coming

(***************************************************************************)
(* Order.                                                                  *)
(***************************************************************************)

ShownInv == ShownIsStored /\ ShownInOrder

\* Nothing changes of the store and what is shown.
LEMMA ShownSame ==
    ASSUME ShownInv, stored' = stored, \A c \in Browser : Coming(c)' = Coming(c)
    PROVE  ShownInv'
<1>1. ShownIsStored'
  BY DEF ShownInv, ShownIsStored
<1>2. ShownInOrder'
  BY DEF ShownInv, ShownInOrder, InOrder
<1> QED
  BY <1>1, <1>2 DEF ShownInv

\* A post that is saved is shown nowhere yet.
LEMMA ShownSaved ==
    ASSUME HandlerInv, ShownInv, NEW p \in Post, stage[p] \in {"new", "queued"},
           stored' = Append(stored, p), \A c \in Browser : Coming(c)' = Coming(c)
    PROVE  ShownInv'
<1>1. stored \in Seq(Post) /\ TypeOK
  BY DEF HandlerInv, TypeOK
<1>2. /\ DOMAIN stored' = 1..(Len(stored) + 1) /\ stored'[Len(stored) + 1] = p
      /\ \A i \in DOMAIN stored : i \in DOMAIN stored' /\ stored'[i] = stored[i]
      /\ \A i \in DOMAIN stored' : i = Len(stored) + 1 \/ i \in DOMAIN stored
  BY <1>1
<1>3. \A i \in DOMAIN stored : stored[i] # p
  BY <1>1 DEF HandlerInv, StoredOnce
<1>4. ShownIsStored'
  <2>1. ToSet(stored) \subseteq ToSet(stored')
    BY <1>2 DEF ToSet
  <2> QED
    BY <2>1 DEF ShownInv, ShownIsStored
<1>5. ShownInOrder'
  <2> SUFFICES ASSUME NEW c \in Browser, Coming(c) # NoView,
                      NEW k \in DOMAIN Coming(c), NEW l \in DOMAIN Coming(c), k < l,
                      NEW i \in DOMAIN stored', NEW j \in DOMAIN stored',
                      Coming(c)[k] = stored'[i], Coming(c)[l] = stored'[j],
                      Author[stored'[i]] = Author[stored'[j]]
               PROVE  i <= j
    BY DEF ShownInOrder, InOrder
  <2>1. \A x \in DOMAIN Coming(c) : Coming(c)[x] \in ToSet(stored)
    <3>1. Coming(c) \in Seq(Post)
      BY <1>1, ComingIsView DEF View
    <3> QED
      BY <3>1 DEF ShownInv, ShownIsStored, Posts, ToSet
  <2>2. p \notin ToSet(stored)
    BY <1>3 DEF ToSet
  <2>3. i \in DOMAIN stored /\ j \in DOMAIN stored
    BY <1>2, <2>1, <2>2
  <2> QED
    BY <1>2, <2>3 DEF ShownInv, ShownInOrder, InOrder
<1> QED
  BY <1>4, <1>5 DEF ShownInv

\* One view changes, into one that is in order.
LEMMA ShownChanges ==
    ASSUME ShownInv, stored' = stored, NEW b \in Browser,
           \A c \in Browser : c # b => Coming(c)' = Coming(c),
           Posts(Coming(b)') \subseteq ToSet(stored), InOrder(Coming(b)')
    PROVE  ShownInv'
<1>1. ShownIsStored'
  BY DEF ShownInv, ShownIsStored
<1>2. InOrder(Coming(b))'
  BY DEF InOrder
<1>3. ShownInOrder'
  BY <1>2 DEF ShownInv, ShownInOrder, InOrder
<1> QED
  BY <1>1, <1>3 DEF ShownInv

\* The end of a view is as good as the view.
LEMMA EndInOrder ==
    ASSUME NEW v \in View, NEW w \in View, w = NoView \/ (v # NoView /\ EndsWith(v, w)),
           Posts(v) \subseteq ToSet(stored), InOrder(v)
    PROVE  Posts(w) \subseteq ToSet(stored) /\ InOrder(w)
<1>1. CASE w = NoView
  BY <1>1 DEF Posts, InOrder
<1>2. CASE w # NoView
  <2> DEFINE d == Len(v) - Len(w)
  <2>1. v # NoView /\ v \in Seq(Post) /\ w \in Seq(Post)
    BY <1>2 DEF View
  <2>2. \A k \in DOMAIN w : k \in Nat /\ k + d \in DOMAIN v /\ w[k] = v[k + d]
    BY <1>2, <2>1 DEF EndsWith
  <2>3. d \in Int
    BY <2>1
  <2> HIDE DEF d
  <2>4. Posts(w) \subseteq Posts(v)
    BY <1>2, <2>1, <2>2 DEF Posts, ToSet
  <2>5. InOrder(w)
    <3> SUFFICES ASSUME NEW k \in DOMAIN w, NEW l \in DOMAIN w, k < l,
                        NEW i \in DOMAIN stored, NEW j \in DOMAIN stored,
                        w[k] = stored[i], w[l] = stored[j],
                        Author[stored[i]] = Author[stored[j]]
                 PROVE  i <= j
      BY DEF InOrder
    <3>1. k + d < l + d
      BY <2>2, <2>3
    <3> QED
      BY <2>1, <2>2, <3>1 DEF InOrder
  <2> QED
    BY <2>4, <2>5
<1> QED
  BY <1>1, <1>2

\* A history is a piece of the store.
LEMMA HistoryInOrder ==
    ASSUME HandlerInv
    PROVE  /\ History \in Seq(Post) /\ [type |-> "joined", history |-> History] \in Event
           /\ Posts(History) \subseteq ToSet(stored) /\ InOrder(History)
           /\ History = <<>> => stored = <<>>
           /\ \A i \in DOMAIN stored : i > Len(stored) - Limit => stored[i] \in Posts(History)
<1> DEFINE m == IF Len(stored) > Limit THEN Len(stored) - Limit + 1 ELSE 1
           h == SubSeq(stored, m, Len(stored))
<1>1. stored \in Seq(Post) /\ Limit \in Nat \ {0} /\ Len(stored) \in Nat
  BY BoundAssumption DEF HandlerInv, TypeOK
<1>2. m \in 1..(Len(stored) + 1) /\ (stored # <<>> => m <= Len(stored))
  BY <1>1
<1>3. /\ h \in Seq(Post) /\ Len(h) = Len(stored) - m + 1
      /\ \A k \in 1..Len(h) : h[k] = stored[k + m - 1]
  <2> HIDE DEF m
  <2> QED
    BY <1>1, <1>2
<1>4. \A i \in DOMAIN stored : i > Len(stored) - Limit => i >= m
  BY <1>1
<1> HIDE DEF h, m
<1>5. \A k \in DOMAIN h : k \in Nat /\ k + m - 1 \in DOMAIN stored /\ h[k] = stored[k + m - 1]
  <2>1. DOMAIN h = 1..Len(h) /\ DOMAIN stored = 1..Len(stored) /\ m \in Nat /\ m >= 1
    BY <1>1, <1>2, <1>3
  <2>2. \A k \in 1..Len(h) : k \in Nat /\ k + m - 1 \in 1..Len(stored)
    BY <1>1, <1>3, <2>1
  <2> QED
    BY <1>3, <2>1, <2>2
<1>6. h # NoView
  BY <1>3, ViewAssumption
<1>7. Posts(h) = ToSet(h)
  BY <1>6 DEF Posts
<1>8. Posts(h) \subseteq ToSet(stored)
  BY <1>5, <1>7 DEF ToSet
<1>9. InOrder(h)
  <2> SUFFICES ASSUME NEW k \in DOMAIN h, NEW l \in DOMAIN h, k < l,
                      NEW i \in DOMAIN stored, NEW j \in DOMAIN stored,
                      h[k] = stored[i], h[l] = stored[j]
               PROVE  i <= j
    BY DEF InOrder
  <2>1. i = k + m - 1 /\ j = l + m - 1
    BY <1>5 DEF HandlerInv, StoredOnce
  <2> QED
    BY <1>2, <1>5, <2>1
<1>10. h = <<>> => stored = <<>>
  <2>1. stored # <<>> => Len(h) # 0
    BY <1>1, <1>2, <1>3
  <2> QED
    BY <1>3, <2>1
<1>11. ASSUME NEW i \in DOMAIN stored, i > Len(stored) - Limit PROVE stored[i] \in Posts(h)
  <2>1. i >= m
    BY <1>4, <1>11
  <2>2. i - m + 1 \in DOMAIN h /\ (i - m + 1) + m - 1 = i
    BY <1>1, <1>2, <1>3, <2>1
  <2> QED
    BY <1>5, <1>7, <2>2 DEF ToSet
<1>12. [type |-> "joined", history |-> h] \in Event
  BY <1>3 DEF Event
<1>13. History = h
  BY DEF History, h, m
<1> QED
  BY <1>3, <1>8, <1>9, <1>10, <1>11, <1>12, <1>13

\* A broadcast post is the last of its author in the store.
LEMMA BroadcastInOrder ==
    ASSUME HandlerInv, NEW p \in Post, todo[p] # {}, NEW v \in View,
           Posts(v) \subseteq ToSet(stored), InOrder(v), NEW w, w # NoView,
           w = Append(IF v = NoView THEN <<>> ELSE v, p)
    PROVE  Posts(w) \subseteq ToSet(stored) /\ InOrder(w) /\ Posts(v) \subseteq Posts(w)
           /\ p \in Posts(w)
<1> DEFINE x == IF v = NoView THEN <<>> ELSE v
<1>1. x \in Seq(Post) /\ w = Append(x, p)
  BY DEF View
<1>2. /\ \A k \in DOMAIN x : x[k] \in ToSet(stored)
      /\ \A k, l \in DOMAIN x : k < l =>
            \A i, j \in DOMAIN stored :
                x[k] = stored[i] /\ x[l] = stored[j] /\ Author[stored[i]] = Author[stored[j]]
                    => i <= j
  BY DEF Posts, ToSet, InOrder
<1>3. Posts(v) = {x[k] : k \in DOMAIN x}
  BY DEF Posts, ToSet
<1>4. PICK n \in DOMAIN stored :
         /\ stored[n] = p
         /\ \A j \in DOMAIN stored : Author[stored[j]] = Author[p] => j <= n
  BY DEF HandlerInv, PendingIsLast, Pending
<1> HIDE DEF x
<1>5. /\ DOMAIN w = 1..(Len(x) + 1) /\ w[Len(x) + 1] = p
      /\ \A k \in DOMAIN x : k \in DOMAIN w /\ w[k] = x[k]
      /\ \A k \in DOMAIN w : k = Len(x) + 1 \/ k \in DOMAIN x
      /\ \A k \in DOMAIN w : k \in Nat /\ k <= Len(x) + 1
      /\ Len(x) \in Nat /\ Len(x) + 1 \in DOMAIN w
  BY <1>1
<1>6. Posts(w) = {w[k] : k \in DOMAIN w}
  BY DEF Posts, ToSet
<1>7. Posts(w) \subseteq ToSet(stored)
  BY <1>2, <1>4, <1>5, <1>6 DEF ToSet
<1>8. Posts(v) \subseteq Posts(w) /\ p \in Posts(w)
  BY <1>3, <1>5, <1>6
<1>9. InOrder(w)
  <2> SUFFICES ASSUME NEW k \in DOMAIN w, NEW l \in DOMAIN w, k < l,
                      NEW i \in DOMAIN stored, NEW j \in DOMAIN stored,
                      w[k] = stored[i], w[l] = stored[j],
                      Author[stored[i]] = Author[stored[j]]
               PROVE  i <= j
    BY DEF InOrder
  <2>1. CASE l = Len(x) + 1
    <3>1. stored[j] = stored[n]
      BY <1>4, <1>5, <2>1
    <3>2. j = n
      BY <3>1 DEF HandlerInv, StoredOnce
    <3> QED
      BY <1>4, <3>2
  <2>2. CASE l # Len(x) + 1
    <3>1. k # Len(x) + 1
      BY <1>5, <2>2
    <3> QED
      BY <1>2, <1>5, <2>2, <3>1
  <2> QED
    BY <2>1, <2>2
<1> QED
  BY <1>7, <1>8, <1>9

\* Every step shows stored posts only, and every author's in order.
LEMMA ShownStep ==
    ASSUME HandlerInv, ShownInv, [Next]_vars
    PROVE  ShownInv'
<1>1. TypeOK
  BY DEF HandlerInv
<1>2. ASSUME NEW b \in Browser, LeaveRoom(b) PROVE ShownInv'
  <2>1. stored' = stored
    BY <1>2 DEF LeaveRoom, serverVars
  <2>2. /\ \A c \in Browser : c # b => Coming(c)' = Coming(c)
        /\ \/ Coming(b)' = NoView
           \/ Coming(b) # NoView /\ EndsWith(Coming(b), Coming(b)')
    BY <1>1, <1>2, ComingOfLeave
  <2>3. Coming(b) \in View /\ Coming(b)' \in View
    <3>1. send' = send /\ view'[b] = NoView /\ send[b] \in Seq(Event) /\ NoView \in View
      BY <1>1, <1>2 DEF LeaveRoom, TypeOK, View
    <3>2. Len(send[b]) \in 0..Len(send[b])
      BY <3>1
    <3>3. Coming(b)' \in View
      BY <3>1, <3>2, AfterIsView DEF Coming
    <3> QED
      BY <1>1, <3>3, ComingIsView
  <2>4. Posts(Coming(b)) \subseteq ToSet(stored) /\ InOrder(Coming(b))
    BY DEF ShownInv, ShownIsStored, ShownInOrder
  <2>5. Posts(Coming(b)') \subseteq ToSet(stored) /\ InOrder(Coming(b)')
    BY <2>2, <2>3, <2>4, EndInOrder
  <2> QED
    BY <2>1, <2>2, <2>5, ShownChanges
<1>3. ASSUME NEW b \in Browser, HandleJoinRoom(b) PROVE ShownInv'
  <2> DEFINE e == [type |-> "joined", history |-> History]
  <2>1. stored' = stored /\ view' = view
    BY <1>3 DEF HandleJoinRoom, browserVars
  <2>2. CASE UNCHANGED send
    BY <2>1, <2>2, ComingUnchanged, ShownSame
  <2>3. CASE SendJSON(b, e)
    <3>1. e \in Event /\ e.type = "joined" /\ e.history = History
      BY HistoryInOrder
    <3> HIDE DEF e
    <3>2. /\ \A c \in Browser : c # b => Coming(c)' = Coming(c)
          /\ Coming(b)' = Shown(Coming(b), e) \/ Coming(b)' = Coming(b)
      BY <1>1, <2>1, <2>3, <3>1, ComingOfSend
    <3>3. Coming(b) \in View
      BY <1>1, ComingIsView
    <3>4. Shown(Coming(b), e) = IF History # <<>> THEN History
                                ELSE IF Coming(b) = NoView THEN <<>> ELSE Coming(b)
      BY <3>1, <3>3, ShownIsView
    <3>5. Posts(<<>>) = {} /\ InOrder(<<>>)
      BY DEF Posts, ToSet, InOrder
    <3>6. Posts(Coming(b)) \subseteq ToSet(stored) /\ InOrder(Coming(b))
      BY DEF ShownInv, ShownIsStored, ShownInOrder
    <3>7. Posts(Coming(b)') \subseteq ToSet(stored) /\ InOrder(Coming(b)')
      BY <3>2, <3>4, <3>5, <3>6, HistoryInOrder
    <3> QED
      BY <2>1, <3>2, <3>7, ShownChanges
  <2> QED
    BY <1>3, <2>2, <2>3 DEF HandleJoinRoom
<1>4. ASSUME NEW p \in Post, NEW b \in Browser, BroadcastTo(p, b) PROVE ShownInv'
  <2> DEFINE e == [type |-> "message", post |-> p]
  <2>1. stored' = stored /\ view' = view /\ todo[p] # {} /\ SendJSON(b, e)
    BY <1>4 DEF BroadcastTo, browserVars
  <2>2. e \in Event /\ e.type = "message" /\ e.post = p
    BY DEF Event
  <2> HIDE DEF e
  <2>3. /\ \A c \in Browser : c # b => Coming(c)' = Coming(c)
        /\ Coming(b)' = Shown(Coming(b), e) \/ Coming(b)' = Coming(b)
    BY <1>1, <2>1, <2>2, ComingOfSend
  <2>4. Coming(b) \in View
    BY <1>1, ComingIsView
  <2> DEFINE w == Shown(Coming(b), e)
  <2>5. w = Append(IF Coming(b) = NoView THEN <<>> ELSE Coming(b), p) /\ w # NoView
    BY <2>2, <2>4, ShownIsView
  <2>6. Posts(Coming(b)) \subseteq ToSet(stored) /\ InOrder(Coming(b))
    BY DEF ShownInv, ShownIsStored, ShownInOrder
  <2>7. Posts(w) \subseteq ToSet(stored) /\ InOrder(w)
    <3> HIDE DEF w
    <3> QED
      BY <2>1, <2>4, <2>5, <2>6, BroadcastInOrder
  <2> QED
    BY <2>1, <2>3, <2>6, <2>7, ShownChanges
<1>5. ASSUME NEW b \in Browser, NEW p \in Post, HandleMessage(b, p) PROVE ShownInv'
  <2>1. \A c \in Browser : Coming(c)' = Coming(c)
    BY <1>5, ComingUnchanged DEF HandleMessage, browserVars
  <2>2. CASE stored' = stored
    BY <2>1, <2>2, ShownSame
  <2>3. CASE stored' = Append(stored, p)
    <3>1. /\ inbox[b] \in Seq(Request) /\ inbox[b] # <<>>
          /\ Head(inbox[b]).type = "message" /\ Head(inbox[b]).post = p
      BY <1>1, <1>5 DEF TypeOK, HandleMessage, Handles
    <3>2. 1 \in DOMAIN inbox[b] /\ Head(inbox[b]) = inbox[b][1]
      BY <3>1
    <3>3. stage[p] = "queued"
      BY <3>1, <3>2 DEF HandlerInv, InboxIsQueued
    <3> QED
      BY <2>1, <2>3, <3>3, ShownSaved
  <2> QED
    BY <1>5, <2>2, <2>3 DEF HandleMessage, SaveMessage
<1>6. ASSUME NEW m \in Peer, NEW p \in Post, InjectFromMesh(m, p) PROVE ShownInv'
  <2>1. \A c \in Browser : Coming(c)' = Coming(c)
    BY <1>6, ComingUnchanged DEF InjectFromMesh, browserVars
  <2> QED
    BY <1>6, <2>1, ShownSaved DEF InjectFromMesh, SaveMessage
<1>7. ASSUME NEW b \in Browser, Receive(b) PROVE ShownInv'
  <2>1. stored' = stored
    BY <1>7 DEF Receive, serverVars
  <2> QED
    BY <1>1, <1>7, <2>1, ComingOfReceive, ShownSame
<1>8. ASSUME UNCHANGED <<stored, view, send>> PROVE ShownInv'
  BY <1>8, ComingUnchanged, ShownSame
<1>9. ASSUME NEW b \in Browser, User(b) PROVE ShownInv'
  <2>1. CASE SwitchToRoom(b)
    BY <1>8, <2>1 DEF SwitchToRoom, serverVars
  <2>2. ASSUME NEW p \in Post, SendMessage(b, p) PROVE ShownInv'
    BY <1>8, <2>2 DEF SendMessage, serverVars, browserVars
  <2> QED
    BY <1>2, <1>9, <2>1, <2>2 DEF User
<1>10. ASSUME NEW b \in Browser, HandleLeaveRoom(b) PROVE ShownInv'
  BY <1>8, <1>10 DEF HandleLeaveRoom, browserVars
<1>11. ASSUME NEW p \in Post, Broadcast(p) PROVE ShownInv'
  BY <1>8, <1>11 DEF Broadcast, browserVars
<1>12. CASE UNCHANGED vars
  BY <1>8, <1>12 DEF vars
<1> QED
  BY <1>3, <1>4, <1>5, <1>6, <1>7, <1>9, <1>10, <1>11, <1>12 DEF Next, Handle, Deliver

\* What is shown stays in order.
THEOREM ShownInvariant == Spec => []ShownInv
<1>1. Init /\ HandlerInv => ShownInv
  <2> SUFFICES ASSUME Init, HandlerInv PROVE ShownInv
    OBVIOUS
  <2>1. \A b \in Browser : Coming(b) = NoView
    <3> SUFFICES ASSUME NEW b \in Browser PROVE Coming(b) = NoView
      OBVIOUS
    <3>1. view[b] = NoView /\ send[b] = <<>> /\ <<>> \in Seq(Event) /\ Len(<<>>) = 0
      BY DEF Init
    <3> QED
      BY <3>1, AfterEquations DEF Coming
  <2> QED
    BY <2>1 DEF ShownInv, ShownIsStored, ShownInOrder, InOrder, Posts
<1>2. HandlerInv /\ ShownInv /\ [Next]_vars => ShownInv'
  BY ShownStep
<1> QED
  BY <1>1, <1>2, HandlerInvariant, PTL DEF Spec

\* A post that is shown has a first place.
LEMMA FirstPlace ==
    ASSUME NEW v \in Seq(Post), NEW p \in Posts(v)
    PROVE  FirstIn(v, p) \in DOMAIN v /\ v[FirstIn(v, p)] = p
<1> DEFINE T == {i \in DOMAIN v : v[i] = p}
<1>1. v # NoView
  BY ViewAssumption
<1>2. T \in SUBSET Nat /\ T # {}
  BY <1>1 DEF Posts, ToSet
<1>3. PICK x \in T : \A y \in T : x <= y
  <2> HIDE DEF T
  <2> QED
    BY <1>2, LeastNumber
<1>4. \A j \in 1..(x - 1) : v[j] # p
  <2> SUFFICES ASSUME NEW j \in 1..(x - 1), v[j] = p PROVE FALSE
    OBVIOUS
  <2>1. x \in 1..Len(v) /\ j \in 1..Len(v) /\ j < x
    BY <1>3
  <2>2. j \in T
    BY <2>1
  <2> QED
    BY <1>3, <2>1, <2>2
<1>5. \E i \in DOMAIN v : v[i] = p /\ \A j \in 1..(i - 1) : v[j] # p
  BY <1>3, <1>4
<1> QED
  BY <1>5 DEF FirstIn

\* The posts of one author appear first in the order the server got them, for
\* every member, across joins, histories and concurrent broadcasts of others,
\* for any number of browsers, peers and posts.
THEOREM AuthorOrderHolds == Spec => []AuthorOrder
<1>1. HandlerInv /\ ShownInv => AuthorOrder
  <2> SUFFICES ASSUME HandlerInv, ShownInv, NEW b \in members,
                      NEW i \in DOMAIN stored, NEW j \in DOMAIN stored, i < j,
                      Author[stored[i]] = Author[stored[j]],
                      stored[i] \in Posts(Coming(b)), stored[j] \in Posts(Coming(b))
               PROVE  FirstIn(Coming(b), stored[i]) < FirstIn(Coming(b), stored[j])
    BY DEF AuthorOrder
  <2>1. b \in Browser /\ stored \in Seq(Post)
    BY DEF HandlerInv, TypeOK
  <2> DEFINE v == Coming(b)
             k == FirstIn(v, stored[i])
             l == FirstIn(v, stored[j])
  <2>2. v # NoView /\ v \in Seq(Post)
    <3>1. v \in View
      BY <2>1, ComingIsView DEF HandlerInv
    <3> QED
      BY <3>1 DEF Posts, View
  <2>3. InOrder(v)
    BY <2>1 DEF ShownInv, ShownInOrder
  <2> HIDE DEF v
  <2>4. /\ k \in DOMAIN v /\ v[k] = stored[i]
        /\ l \in DOMAIN v /\ v[l] = stored[j]
    <3>1. stored[i] \in Posts(v) /\ stored[j] \in Posts(v)
      BY DEF v
    <3> QED
      BY <2>2, <3>1, FirstPlace
  <2> HIDE DEF k, l
  <2>5. i \in Nat /\ j \in Nat /\ k \in Nat /\ l \in Nat
    BY <2>1, <2>2, <2>4
  <2>6. k # l
    <3>1. stored[i] # stored[j]
      BY <2>5 DEF HandlerInv, StoredOnce
    <3> QED
      BY <2>4, <3>1
  <2>7. ~(l < k)
    <3>1. l < k => j <= i
      BY <2>2, <2>3, <2>4 DEF InOrder
    <3> QED
      BY <2>5, <3>1
  <2>8. k < l
    BY <2>5, <2>6, <2>7
  <2> QED
    BY <2>8 DEF k, l, v
<1> QED
  BY <1>1, HandlerInvariant, ShownInvariant, PTL

(***************************************************************************)
(* No gap.                                                                 *)
(***************************************************************************)

\* The post is shown to b, or its broadcast has not begun or not reached b.
Covered(b, p) == p \in Posts(Coming(b)) \/ stage[p] = "saved" \/ b \in todo[p]

\* A member that is not leaving covers what it covered.
LEMMA GapFrame ==
    ASSUME TypeOK, NoGap, stored' = stored, members' \subseteq Browser,
           \A b \in members' : b \notin dropped' /\ ~IsLeaving(b)' =>
               /\ b \in members /\ b \notin dropped /\ ~IsLeaving(b)
               /\ joinedAt'[b] = joinedAt[b]
               /\ \A p \in ToSet(stored) : Covered(b, p) => Covered(b, p)'
    PROVE  NoGap'
<1> SUFFICES ASSUME NEW b \in members', b \notin dropped', ~IsLeaving(b)',
                    NEW i \in DOMAIN stored, i > joinedAt'[b] - Limit
             PROVE  Covered(b, stored[i])'
  BY DEF NoGap, Covered
<1>1. Covered(b, stored[i])
  BY DEF NoGap, Covered
<1>2. stored[i] \in ToSet(stored)
  BY DEF ToSet
<1> QED
  BY <1>1, <1>2

\* A request that is taken, if not to leave, does not hide one to leave.
LEMMA PopKeepsLeaving ==
    ASSUME TypeOK, NEW b \in Browser, inbox[b] # <<>>, Pop(b), NEW c \in Browser,
           c = b => Head(inbox[b]).type # "leave_room", IsLeaving(c)
    PROVE  IsLeaving(c)'
<1>1. /\ inbox[b] \in Seq(Request) /\ Head(inbox[b]) = inbox[b][1]
      /\ inbox'[b] = Tail(inbox[b])
      /\ \A x \in Browser : x # b => inbox'[x] = inbox[x]
  BY DEF TypeOK, Pop
<1>2. PICK i \in DOMAIN inbox[c] : inbox[c][i].type = "leave_room"
  BY DEF IsLeaving
<1>3. CASE c = b
  <2>1. i # 1 /\ i \in 1..Len(inbox[b])
    BY <1>1, <1>2, <1>3
  <2>2. i - 1 \in DOMAIN Tail(inbox[b]) /\ Tail(inbox[b])[i - 1] = inbox[b][i]
    BY <1>1, <2>1
  <2>3. i - 1 \in DOMAIN inbox'[c] /\ inbox'[c][i - 1].type = "leave_room"
    BY <1>1, <1>2, <1>3, <2>2
  <2> QED
    BY <2>3 DEF IsLeaving
<1>4. CASE c # b
  BY <1>1, <1>2, <1>4 DEF IsLeaving
<1> QED
  BY <1>3, <1>4

\* A request more does not hide one to leave.
LEMMA AskKeepsLeaving ==
    ASSUME TypeOK, NEW b \in Browser, NEW r \in Request,
           inbox' = [inbox EXCEPT ![b] = Append(@, r)], NEW c \in Browser, IsLeaving(c)
    PROVE  IsLeaving(c)'
<1>1. PICK i \in DOMAIN inbox[c] : inbox[c][i].type = "leave_room"
  BY DEF IsLeaving
<1>2. i \in DOMAIN inbox'[c] /\ inbox'[c][i] = inbox[c][i]
  BY <1>1, AskEffect
<1> QED
  BY <1>1, <1>2 DEF IsLeaving

\* What a user does closes no gap and opens none: who leaves is leaving.
LEMMA UserGap ==
    ASSUME TypeOK, StoredOnce, NoGap, NEW b \in Browser, User(b)
    PROVE  NoGap'
<1>1. stored \in Seq(Post) /\ stored' = stored /\ members' = members
      /\ joinedAt' = joinedAt /\ dropped' = dropped /\ todo' = todo
      /\ members \subseteq Browser
  BY DEF TypeOK, User, SwitchToRoom, LeaveRoom, SendMessage, serverVars
<1>2. PICK r \in Request : inbox' = [inbox EXCEPT ![b] = Append(@, r)]
  <2>1. /\ [type |-> "join_room"] \in Request /\ [type |-> "leave_room"] \in Request
        /\ \A p \in Post : [type |-> "message", post |-> p] \in Request
    BY DEF Request
  <2> QED
    BY <2>1 DEF User, SwitchToRoom, LeaveRoom, SendMessage
<1>3. \A c \in Browser : IsLeaving(c) => IsLeaving(c)'
  BY <1>2, AskKeepsLeaving
<1>4. \A p \in ToSet(stored) : stage'[p] = stage[p]
  <2>1. \A p \in ToSet(stored) : stage[p] # "new"
    BY DEF StoredOnce, ToSet
  <2>2. ASSUME NEW p \in Post, SendMessage(b, p)
        PROVE  \A q \in ToSet(stored) : stage'[q] = stage[q]
    <3>1. stage[p] = "new" /\ stage' = [stage EXCEPT ![p] = "queued"]
      BY <2>2 DEF SendMessage
    <3>2. ToSet(stored) \subseteq Post
      BY <1>1 DEF ToSet
    <3> QED
      BY <2>1, <3>1, <3>2 DEF TypeOK
  <2>3. CASE SwitchToRoom(b) \/ LeaveRoom(b)
    BY <2>3 DEF SwitchToRoom, LeaveRoom
  <2> QED
    BY <2>2, <2>3 DEF User
<1>5. ASSUME NEW c \in Browser, ~IsLeaving(c)' PROVE Coming(c)' = Coming(c)
  <2>1. CASE LeaveRoom(b)
    <3>1. c # b
      <4>1. /\ [type |-> "leave_room"] \in Request
            /\ inbox' = [inbox EXCEPT ![b] = Append(@, [type |-> "leave_room"])]
        BY <2>1 DEF LeaveRoom, Request
      <4>2. inbox[b] \in Seq(Request) /\ inbox'[b] = Append(inbox[b], [type |-> "leave_room"])
        BY <4>1 DEF TypeOK
      <4>3. /\ Len(inbox[b]) + 1 \in DOMAIN inbox'[b]
            /\ inbox'[b][Len(inbox[b]) + 1] = [type |-> "leave_room"]
        BY <4>1, <4>2
      <4>4. IsLeaving(b)'
        BY <4>3 DEF IsLeaving
      <4> QED
        BY <1>5, <4>4
    <3> QED
      BY <2>1, <3>1, ComingOfLeave
  <2>2. CASE ~LeaveRoom(b)
    <3>1. view' = view /\ send' = send
      BY <2>2 DEF User, SwitchToRoom, SendMessage, browserVars
    <3> QED
      BY <3>1, ComingUnchanged
  <2> QED
    BY <2>1, <2>2
<1>6. \A c \in Browser : ~IsLeaving(c)' =>
          \A p \in ToSet(stored) : Covered(c, p) => Covered(c, p)'
  BY <1>1, <1>4, <1>5 DEF Covered
<1> QED
  BY <1>1, <1>3, <1>6, GapFrame

\* A new member has the history, which reaches to the end of the store.
LEMMA JoinGap ==
    ASSUME HandlerInv, NoGap, NEW b \in Browser, HandleJoinRoom(b)
    PROVE  NoGap'
<1> DEFINE e == [type |-> "joined", history |-> History]
<1>1. /\ TypeOK /\ stored' = stored /\ stage' = stage /\ todo' = todo /\ view' = view
      /\ inbox[b] # <<>> /\ Head(inbox[b]).type = "join_room" /\ Pop(b)
      /\ members \subseteq Browser
  BY DEF HandlerInv, TypeOK, HandleJoinRoom, Handles, browserVars
<1>2. \A c \in Browser : IsLeaving(c) => IsLeaving(c)'
  BY <1>1, PopKeepsLeaving
<1>3. CASE b \in members
  <2>1. UNCHANGED <<members, joinedAt, send, dropped>>
    BY <1>3 DEF HandleJoinRoom
  <2>2. \A c \in Browser : Coming(c)' = Coming(c)
    BY <1>1, <2>1, ComingUnchanged
  <2>3. \A c \in Browser, p \in ToSet(stored) : Covered(c, p) => Covered(c, p)'
    BY <1>1, <2>2 DEF Covered
  <2> QED
    BY <1>1, <1>2, <2>1, <2>3, GapFrame
<1>4. CASE b \notin members
  <2>1. /\ members' = members \cup {b} /\ SendJSON(b, e)
        /\ joinedAt' = [joinedAt EXCEPT ![b] = Len(stored)]
    BY <1>4 DEF HandleJoinRoom
  <2>2. e \in Event /\ e.type = "joined" /\ e.history = History
    BY HistoryInOrder
  <2> HIDE DEF e
  <2>3. /\ \A c \in Browser : c # b => Coming(c)' = Coming(c)
        /\ \/ Coming(b)' = Shown(Coming(b), e)
           \/ Coming(b)' = Coming(b) /\ b \in dropped'
        /\ dropped \subseteq dropped'
    BY <1>1, <2>1, <2>2, ComingOfSend, SendEffect
  <2>4. /\ joinedAt'[b] = Len(stored)
        /\ \A c \in Browser : c # b => joinedAt'[c] = joinedAt[c]
    BY <1>1, <2>1 DEF TypeOK
  <2> SUFFICES ASSUME NEW c \in members', c \notin dropped', ~IsLeaving(c)',
                      NEW i \in DOMAIN stored, i > joinedAt'[c] - Limit
               PROVE  Covered(c, stored[i])'
    BY <1>1 DEF NoGap, Covered
  <2>5. CASE c # b
    <3>1. c \in members /\ c \in Browser /\ c \notin dropped /\ ~IsLeaving(c)
      BY <1>1, <1>2, <2>1, <2>3, <2>5
    <3>2. Covered(c, stored[i])
      BY <2>4, <2>5, <3>1 DEF NoGap, Covered
    <3> QED
      BY <1>1, <2>3, <2>5, <3>1, <3>2 DEF Covered
  <2>6. CASE c = b
    <3>1. Coming(b)' = Shown(Coming(b), e) /\ Coming(b) \in View
      BY <1>1, <2>3, <2>6, ComingIsView
    <3>2. stored # <<>>
      BY <1>1
    <3>3. Coming(b)' = History
      BY <2>2, <3>1, <3>2, ShownIsView, HistoryInOrder
    <3>4. stored[i] \in Posts(History)
      BY <2>4, <2>6, HistoryInOrder
    <3>5. Posts(Coming(b))' = Posts(Coming(b)')
      BY DEF Posts
    <3>6. stored[i] \in Posts(Coming(c))'
      BY <2>6, <3>3, <3>4, <3>5
    <3> QED
      BY <1>1, <3>6 DEF Covered
  <2> QED
    BY <2>5, <2>6
<1> QED
  BY <1>3, <1>4

\* Who has left is no member.
LEMMA LeaveGap ==
    ASSUME TypeOK, NoGap, NEW b \in Browser, HandleLeaveRoom(b)
    PROVE  NoGap'
<1>1. /\ UNCHANGED <<stored, stage, todo, view, send, dropped, joinedAt>>
      /\ members' = members \ {b} /\ members \subseteq Browser
      /\ Pop(b) /\ inbox[b] # <<>>
  BY DEF TypeOK, HandleLeaveRoom, Handles, browserVars
<1>2. \A c \in Browser : c # b => inbox'[c] = inbox[c]
  BY <1>1 DEF TypeOK, Pop
<1>3. \A c \in Browser : c # b => (IsLeaving(c)' <=> IsLeaving(c))
  BY <1>2 DEF IsLeaving
<1>4. \A c \in Browser, p \in ToSet(stored) : Covered(c, p) => Covered(c, p)'
  BY <1>1, ComingUnchanged DEF Covered
<1> QED
  BY <1>1, <1>3, <1>4, GapFrame

\* A post that is saved is still to be broadcast.
LEMMA SaveGap ==
    ASSUME TypeOK, NoGap, NEW p \in Post, SaveMessage(p),
           UNCHANGED <<members, todo, view, send, dropped, joinedAt>>,
           \A c \in Browser : IsLeaving(c) => IsLeaving(c)'
    PROVE  NoGap'
<1>1. /\ stored' = Append(stored, p) /\ stored \in Seq(Post) /\ members \subseteq Browser
      /\ \A q \in Post : stage'[q] = IF q = p THEN "saved" ELSE stage[q]
  BY DEF TypeOK, SaveMessage
<1>2. \A i \in DOMAIN stored' :
         \/ stored'[i] = p
         \/ i \in DOMAIN stored /\ stored'[i] = stored[i] /\ stored[i] \in Post
  BY <1>1
<1>3. \A c \in Browser : Coming(c)' = Coming(c)
  BY ComingUnchanged
<1>4. ASSUME NEW c \in members, c \notin dropped, ~IsLeaving(c)',
             NEW i \in DOMAIN stored', i > joinedAt[c] - Limit
      PROVE  \/ stored'[i] \in Posts(Coming(c)')
             \/ stage'[stored'[i]] = "saved"
             \/ c \in todo[stored'[i]]
  <2>1. CASE stored'[i] = p
    BY <1>1, <2>1
  <2>2. CASE i \in DOMAIN stored /\ stored'[i] = stored[i] /\ stored[i] \in Post
    <3>1. Covered(c, stored[i]) /\ c \in Browser
      BY <1>1, <1>4, <2>2 DEF NoGap, Covered
    <3>2. Coming(c)' = Coming(c)
      BY <1>3, <3>1
    <3> QED
      BY <1>1, <2>2, <3>1, <3>2 DEF Covered
  <2> QED
    BY <1>2, <1>4, <2>1, <2>2
<1>5. \A c : Posts(Coming(c))' = Posts(Coming(c)')
  BY DEF Posts
<1> QED
  BY <1>4, <1>5 DEF NoGap

\* A post from a browser is saved or refused.
LEMMA HandleMessageGap ==
    ASSUME HandlerInv, NoGap, NEW b \in Browser, NEW p \in Post, HandleMessage(b, p)
    PROVE  NoGap'
<1>1. /\ TypeOK /\ inbox[b] # <<>> /\ Head(inbox[b]).type = "message"
      /\ Head(inbox[b]).post = p /\ Pop(b)
      /\ UNCHANGED <<members, todo, view, send, dropped, joinedAt>>
      /\ members \subseteq Browser
  BY DEF HandlerInv, TypeOK, HandleMessage, Handles, browserVars
<1>2. \A c \in Browser : IsLeaving(c) => IsLeaving(c)'
  BY <1>1, PopKeepsLeaving
<1>3. CASE SaveMessage(p)
  BY <1>1, <1>2, <1>3, SaveGap DEF HandlerInv
<1>4. CASE stage' = [stage EXCEPT ![p] = "lost"] /\ stored' = stored
  <2>1. inbox[b] \in Seq(Request) /\ 1 \in DOMAIN inbox[b] /\ Head(inbox[b]) = inbox[b][1]
    BY <1>1 DEF TypeOK
  <2>2. stage[p] = "queued"
    BY <1>1, <2>1 DEF HandlerInv, InboxIsQueued
  <2>3. ASSUME NEW q \in ToSet(stored) PROVE stage'[q] = stage[q]
    <3>1. q \in Post /\ q # p
      <4>1. stored \in Seq(Post)
        BY <1>1 DEF TypeOK
      <4> QED
        BY <2>2, <4>1 DEF HandlerInv, StoredOnce, ToSet
    <3> QED
      BY <1>1, <1>4, <3>1 DEF TypeOK
  <2>4. \A c \in Browser, q \in ToSet(stored) : Covered(c, q) => Covered(c, q)'
    BY <1>1, <2>3, ComingUnchanged DEF Covered
  <2> QED
    BY <1>1, <1>2, <1>4, <2>4, GapFrame
<1> QED
  BY <1>3, <1>4 DEF HandleMessage

\* A broadcast goes to every member, and what reaches a member is shown to it.
LEMMA DeliverGap ==
    ASSUME HandlerInv, NoGap, NEW p \in Post, Deliver(p)
    PROVE  NoGap'
<1>1. /\ TypeOK /\ members \subseteq Browser
      /\ UNCHANGED <<stored, view, members, inbox, joinedAt>>
  BY DEF HandlerInv, TypeOK, Deliver, Broadcast, BroadcastTo, browserVars
<1>2. ToSet(stored) \subseteq Post
  <2>1. stored \in Seq(Post)
    BY <1>1 DEF TypeOK
  <2> QED
    BY <2>1 DEF ToSet
<1>3. \A c \in Browser : IsLeaving(c)' <=> IsLeaving(c)
  BY <1>1 DEF IsLeaving
<1>4. CASE Broadcast(p)
  <2>1. /\ send' = send /\ dropped' = dropped /\ stage[p] = "saved"
        /\ \A q \in Post : q # p => stage'[q] = stage[q] /\ todo'[q] = todo[q]
        /\ todo'[p] = members
    BY <1>1, <1>4 DEF TypeOK, Broadcast
  <2>2. \A c \in Browser : Coming(c)' = Coming(c)
    BY <1>1, <2>1, ComingUnchanged
  <2>3. \A c \in members, q \in ToSet(stored) : Covered(c, q) => Covered(c, q)'
    BY <1>1, <1>2, <2>1, <2>2 DEF Covered
  <2> QED
    BY <1>1, <1>3, <2>1, <2>3, GapFrame
<1>5. ASSUME NEW b \in Browser, BroadcastTo(p, b) PROVE NoGap'
  <2> DEFINE e == [type |-> "message", post |-> p]
  <2>1. /\ stage' = stage /\ SendJSON(b, e) /\ todo[p] # {} /\ b \in todo[p]
        /\ \A q \in Post : todo'[q] = IF q = p THEN todo[p] \ {b} ELSE todo[q]
    BY <1>1, <1>5 DEF TypeOK, BroadcastTo
  <2>2. e \in Event /\ e.type = "message" /\ e.post = p
    BY DEF Event
  <2> HIDE DEF e
  <2>3. /\ \A c \in Browser : c # b => Coming(c)' = Coming(c)
        /\ \/ Coming(b)' = Shown(Coming(b), e)
           \/ Coming(b)' = Coming(b) /\ b \in dropped'
        /\ dropped \subseteq dropped'
    BY <1>1, <2>1, <2>2, ComingOfSend, SendEffect
  <2>4. Coming(b) \in View
    BY <1>1, ComingIsView
  <2>5. /\ Posts(Coming(b)) \subseteq Posts(Shown(Coming(b), e))
        /\ p \in Posts(Shown(Coming(b), e))
    <3> DEFINE v == Coming(b)
               w == Shown(v, e)
               x == IF v = NoView THEN <<>> ELSE v
    <3>1. w = Append(x, p) /\ w # NoView /\ x \in Seq(Post)
      <4>1. w = Append(x, p) /\ w # NoView
        BY <2>2, <2>4, ShownIsView
      <4>2. x \in Seq(Post)
        BY <2>4 DEF View
      <4> QED
        BY <4>1, <4>2
    <3>2. Posts(v) = {x[k] : k \in DOMAIN x} /\ Posts(w) = {w[k] : k \in DOMAIN w}
      BY <3>1 DEF Posts, ToSet
    <3> HIDE DEF v, w, x
    <3>3. /\ \A k \in DOMAIN x : k \in DOMAIN w /\ w[k] = x[k]
          /\ Len(x) + 1 \in DOMAIN w /\ w[Len(x) + 1] = p
      BY <3>1
    <3>4. Posts(v) \subseteq Posts(w) /\ p \in Posts(w)
      BY <3>2, <3>3
    <3> QED
      BY <3>4 DEF v, w
  <2>6. ASSUME NEW c \in members, c \notin dropped', NEW q \in ToSet(stored), Covered(c, q)
        PROVE  Covered(c, q)'
    <3>1. CASE c # b
      <4>1. Coming(c)' = Coming(c) /\ (c \in todo[q] => c \in todo'[q])
        BY <1>1, <1>2, <2>1, <2>3, <3>1
      <4> QED
        BY <2>1, <2>6, <4>1 DEF Covered
    <3>2. CASE c = b
      <4>1. Posts(Coming(b)) \subseteq Posts(Coming(b)') /\ p \in Posts(Coming(b)')
        BY <2>3, <2>5, <2>6, <3>2
      <4>2. b \in todo[q] => b \in todo'[q] \/ q = p
        BY <1>2, <2>1
      <4>3. Posts(Coming(b))' = Posts(Coming(b)')
        BY DEF Posts
      <4> QED
        BY <2>1, <2>6, <3>2, <4>1, <4>2, <4>3 DEF Covered
    <3> QED
      BY <3>1, <3>2
  <2> QED
    BY <1>1, <1>3, <2>3, <2>6, GapFrame
<1> QED
  BY <1>4, <1>5 DEF Deliver

\* No post falls between a history and the broadcasts: a member whose channel
\* was never full is shown the last Limit posts before it joined and every post
\* saved since, for any number of browsers, peers and posts.
THEOREM NoGapHolds == Spec => []NoGap
<1>1. Init => NoGap
  BY DEF Init, NoGap
<1>2. HandlerInv /\ NoGap /\ [Next]_vars => NoGap'
  <2> SUFFICES ASSUME HandlerInv, NoGap, [Next]_vars PROVE NoGap'
    OBVIOUS
  <2>1. TypeOK /\ StoredOnce
    BY DEF HandlerInv
  <2>2. ASSUME NEW b \in Browser, Receive(b) PROVE NoGap'
    <3>1. UNCHANGED <<stored, stage, members, todo, inbox, joinedAt, dropped>>
      BY <2>2 DEF Receive, serverVars
    <3>2. \A c \in Browser, p \in ToSet(stored) : Covered(c, p) => Covered(c, p)'
      BY <2>1, <2>2, <3>1, ComingOfReceive DEF Covered
    <3>3. \A c \in Browser : IsLeaving(c)' <=> IsLeaving(c)
      BY <3>1 DEF IsLeaving
    <3>4. members \subseteq Browser
      BY <2>1 DEF TypeOK
    <3> QED
      BY <2>1, <3>1, <3>2, <3>3, <3>4, GapFrame
  <2>3. ASSUME NEW m \in Peer, NEW p \in Post, InjectFromMesh(m, p) PROVE NoGap'
    <3>1. SaveMessage(p) /\ UNCHANGED <<members, todo, view, send, dropped, joinedAt, inbox>>
      BY <2>3 DEF InjectFromMesh, browserVars
    <3>2. \A c \in Browser : IsLeaving(c) => IsLeaving(c)'
      BY <3>1 DEF IsLeaving
    <3> QED
      BY <2>1, <3>1, <3>2, SaveGap
  <2>4. CASE UNCHANGED vars
    <3>1. \A c \in Browser : Coming(c)' = Coming(c) /\ (IsLeaving(c)' <=> IsLeaving(c))
      BY <2>4, ComingUnchanged DEF vars, IsLeaving
    <3>2. \A c \in Browser, p \in ToSet(stored) : Covered(c, p) => Covered(c, p)'
      BY <2>4, <3>1 DEF vars, Covered
    <3>3. members \subseteq Browser
      BY <2>1 DEF TypeOK
    <3> QED
      BY <2>1, <2>4, <3>1, <3>2, <3>3, GapFrame DEF vars
  <2> QED
    BY <2>1, <2>2, <2>3, <2>4, UserGap, JoinGap, LeaveGap, HandleMessageGap, DeliverGap
       DEF Next, Handle
<1> QED
  BY <1>1, <1>2, HandlerInvariant, PTL DEF Spec
=============================================================================
