--------------------------- MODULE TreeFrame_proofs ---------------------------
(* What is proved about the insertion mode of TreeConstruction and the stack of open   *)
(* elements: that the html and body elements are where the rules look for them, that   *)
(* the mode is the one that the stack calls for, and that the note of the cells holds. *)
(*                                                                                     *)
(* The elements whose names resetting the insertion mode looks at are the frame of the *)
(* stack.  Each handler is shown to leave the frame as the next mode needs it, if the  *)
(* dispatcher does that the handler gives the tokens to that it makes up (KeepsShape). *)
EXTENDS TreeConstruction_proofs

-------------------------------------------------------------------------------
(* The frame of the document on the stack *)

\* The names that the insertion mode depends on.
Framed == Resetting \cup {"html"}

\* The names of the elements in which one of that name is opened.
Parents(name) ==
    CASE name \in {"select", "table"}                -> {"body", "caption"} \cup Cells
      [] name \in {"caption", "colgroup"} \cup Sections -> {"table"}
      [] name = "tr"                                 -> Sections
      [] name \in Cells                              -> {"tr"}
      [] OTHER                                       -> {}

\* Of the first n elements of the stack, the last of the frame has one of the names.
Within(open, n, names) ==
    \E k \in 2 .. n : /\ open[k].name \in names \cap Resetting
                     /\ \A m \in k + 1 .. n : open[m].name \notin Resetting

\* The html element is the first, and no other is one.
HtmlFirst(open) ==
    /\ Len(open) >= 1 /\ open[1].name = "html"
    /\ \A i \in 2 .. Len(open) : open[i].name # "html"

\* The body is the second, and each element of the frame above it is in one of its parents.
Tower(open) ==
    /\ Len(open) >= 2 /\ open[2].name = "body"
    /\ \A i \in 3 .. Len(open) :
          open[i].name \in Resetting => Within(open, i - 1, Parents(open[i].name))

\* The frame is as it should be, and it ends with one of the names.
Level(names, open) == HtmlFirst(open) /\ Tower(open) /\ Within(open, Len(open), names)

\* The names of the frame, and what has no parents.
LEMMA FrameNames ==
    /\ "html" \notin Resetting /\ "body" \in Resetting
    /\ Parents("body") = {} /\ Parents("head") = {} /\ Parents("frameset") = {}
    /\ \A name : Parents(name) \subseteq Resetting \ {"select"}
BY DEF Resetting, Parents, Cells, Sections

\* Only the names count.
LEMMA WithinSame ==
    ASSUME NEW open, NEW r, NEW n \in Nat, NEW names, Within(open, n, names),
           \A k \in 1 .. n : r[k].name = open[k].name
    PROVE  Within(r, n, names)
<1>1. PICK k \in 2 .. n : /\ open[k].name \in names \cap Resetting
                         /\ \A m \in k + 1 .. n : open[m].name \notin Resetting
  BY DEF Within
<1>2. r[k].name \in names \cap Resetting /\ \A m \in k + 1 .. n : r[m].name \notin Resetting
  BY <1>1
<1> QED BY <1>2 DEF Within

\* Above the body there is none of the elements that are opened once.
LEMMA NoBodyAbove ==
    ASSUME NEW names, NEW open, Level(names, open), NEW i \in 3 .. Len(open)
    PROVE  open[i].name \notin {"body", "head", "frameset", "html"}
<1>1. open[i].name \in {"body", "head", "frameset"} => Within(open, i - 1, {})
  BY FrameNames DEF Level, Tower, Resetting
<1>2. ~Within(open, i - 1, {})
  BY DEF Within
<1>3. open[i].name # "html"
  BY DEF Level, HtmlFirst
<1> QED BY <1>1, <1>2, <1>3

\* Elements that are not of the frame leave the end of the stack.
LEMMA LevelCut ==
    ASSUME NEW names, NEW open \in Seq(Elements), Level(names, open), NEW n \in 0 .. Len(open),
           \A k \in n + 1 .. Len(open) : open[k].name \notin Resetting,
           NEW r \in Seq(Elements), Len(r) = n, \A k \in 1 .. n : r[k] = open[k]
    PROVE  Level(names, r)
<1>1. Len(open) \in Nat /\ Len(open) >= 2 /\ open[2].name \in Resetting
  BY FrameNames DEF Level, Tower
<1>2. n >= 2
  BY <1>1
<1>3. HtmlFirst(r)
  BY <1>1, <1>2 DEF Level, HtmlFirst
<1>4. Tower(r)
  <2>1. ASSUME NEW i \in 3 .. n, r[i].name \in Resetting PROVE Within(r, i - 1, Parents(r[i].name))
    <3>1. Within(open, i - 1, Parents(open[i].name)) /\ r[i] = open[i]
      BY <2>1, <1>1 DEF Level, Tower
    <3> QED BY <3>1, WithinSame, <1>1
  <2> QED BY <2>1, <1>1, <1>2 DEF Tower, Level
<1>5. Within(r, n, names)
  <2>1. PICK k \in 2 .. Len(open) :
            /\ open[k].name \in names \cap Resetting
            /\ \A m \in k + 1 .. Len(open) : open[m].name \notin Resetting
    BY DEF Level, Within
  <2>2. Level(names, open) => k <= n \/ open[k].name \notin Resetting
    BY <1>1
  <2> QED BY <2>1, <2>2, <1>1 DEF Within
<1> QED BY <1>3, <1>4, <1>5 DEF Level

\* Below an element of the frame the stack is as it should be for its parents.
LEMMA LevelBelow ==
    ASSUME NEW names, NEW open \in Seq(Elements), Level(names, open), NEW k \in 3 .. Len(open),
           open[k].name \in Resetting,
           NEW r \in Seq(Elements), Len(r) = k - 1, \A j \in 1 .. k - 1 : r[j] = open[j]
    PROVE  Level(Parents(open[k].name), r)
<1>1. Len(open) \in Nat /\ k - 1 >= 2 /\ k - 1 \in Nat
  OBVIOUS
<1>2. HtmlFirst(r)
  BY <1>1 DEF Level, HtmlFirst
<1>3. Tower(r)
  <2>1. ASSUME NEW i \in 3 .. k - 1, r[i].name \in Resetting
        PROVE  Within(r, i - 1, Parents(r[i].name))
    <3>1. Within(open, i - 1, Parents(open[i].name)) /\ r[i] = open[i]
      BY <2>1, <1>1 DEF Level, Tower
    <3> QED BY <3>1, WithinSame, <1>1
  <2> QED BY <2>1, <1>1 DEF Tower, Level
<1>4. Within(open, k - 1, Parents(open[k].name))
  BY DEF Level, Tower
<1>5. Within(r, k - 1, Parents(open[k].name))
  BY <1>1, <1>4, WithinSame
<1> QED BY <1>2, <1>3, <1>5 DEF Level

\* An element that is not of the frame goes,
LEMMA WithinRemoved ==
    ASSUME NEW open \in Seq(Elements), NEW i \in 3 .. Len(open), open[i].name \notin Framed,
           NEW r \in Seq(Elements), Len(r) = Len(open) - 1,
           \A k \in 1 .. Len(r) : r[k] = IF k < i THEN open[k] ELSE open[k + 1],
           NEW n \in 2 .. Len(open), NEW names, Within(open, n, names)
    PROVE  Within(r, IF n < i THEN n ELSE n - 1, names)
<1>1. PICK k \in 2 .. n : /\ open[k].name \in names \cap Resetting
                          /\ \A m \in k + 1 .. n : open[m].name \notin Resetting
  BY DEF Within
<1>2. Len(open) \in Nat /\ k # i
  BY <1>1 DEF Framed
<1>3. CASE n < i
  <2>1. r[k] = open[k] /\ \A m \in k + 1 .. n : r[m] = open[m]
    BY <1>1, <1>2, <1>3
  <2> QED BY <2>1, <1>1, <1>3 DEF Within
<1>4. CASE n >= i
  <2>1. PICK j : j = IF k < i THEN k ELSE k - 1
    OBVIOUS
  <2>2. j \in 2 .. n - 1 /\ r[j] = open[k]
    <3>1. CASE k < i
      <4>1. k \in 2 .. n - 1 /\ k \in 1 .. Len(r)
        BY <3>1, <1>2, <1>4
      <4>2. r[k] = open[k]
        BY <4>1, <3>1
      <4> QED BY <4>1, <4>2, <3>1, <2>1
    <3>2. CASE k >= i
      <4>1. k - 1 \in 2 .. n - 1 /\ k - 1 \in 1 .. Len(r) /\ ~(k - 1 < i) /\ (k - 1) + 1 = k
        BY <3>2, <1>2, <1>4
      <4>2. r[k - 1] = open[k]
        BY <4>1
      <4>3. ~(k < i)
        BY <3>2, <1>2
      <4> QED BY <4>1, <4>2, <4>3, <2>1
    <3> QED BY <3>1, <3>2, <1>2
  <2>3. ASSUME NEW m \in j + 1 .. n - 1 PROVE r[m].name \notin Resetting
    <3>1. CASE m < i
      <4>1. r[m] = open[m] /\ m \in k + 1 .. n
        BY <3>1, <2>1, <1>2, <1>4
      <4> QED BY <4>1, <1>1
    <3>2. CASE m >= i
      <4>1. r[m] = open[m + 1] /\ m + 1 \in k + 1 .. n
        BY <3>2, <2>1, <1>2, <1>4
      <4> QED BY <4>1, <1>1
    <3> QED BY <3>1, <3>2, <2>2
  <2>4. Within(r, n - 1, names)
    BY <2>2, <2>3, <1>1 DEF Within
  <2> QED BY <2>4, <1>4
<1> QED BY <1>3, <1>4

\* from anywhere in the stack,
LEMMA LevelRemoved ==
    ASSUME NEW names, NEW open \in Seq(Elements), Level(names, open), NEW i \in 1 .. Len(open),
           open[i].name \notin Framed, NEW r, r = RemoveAt(open, i)
    PROVE  Level(names, r)
<1>1. /\ r \in Seq(Elements) /\ Len(r) = Len(open) - 1
      /\ \A k \in 1 .. Len(r) : r[k] = IF k < i THEN open[k] ELSE open[k + 1]
  <2>1. PICK S : S = Elements
    OBVIOUS
  <2>2. /\ r \in Seq(S) /\ Len(r) = Len(open) - 1
        /\ \A k \in 1 .. Len(r) : r[k] = IF k < i THEN open[k] ELSE open[k + 1]
    <3>1. open \in Seq(S)
      BY <2>1
    <3> QED BY ONLY <3>1, i \in 1 .. Len(open), r = RemoveAt(open, i), RemoveAtIs
  <2> QED BY <2>1, <2>2
<1>2. Len(open) \in Nat /\ Len(open) >= 2
  BY DEF Level, Tower
<1>3. i # 1 /\ i # 2
  BY FrameNames DEF Level, HtmlFirst, Tower, Framed
<1>4. i \in 3 .. Len(open)
  BY <1>2, <1>3
<1>5. HtmlFirst(r)
  BY <1>1, <1>2, <1>4 DEF Level, HtmlFirst
<1>6. Tower(r)
  <2>1. Len(r) >= 2 /\ r[2].name = "body"
    BY <1>1, <1>2, <1>4 DEF Level, Tower
  <2>2. ASSUME NEW k \in 3 .. Len(r), r[k].name \in Resetting
        PROVE  Within(r, k - 1, Parents(r[k].name))
    <3>1. CASE k < i
      <4>1. r[k] = open[k] /\ k \in 3 .. Len(open)
        BY <3>1, <1>1, <1>2
      <4>2. Within(open, k - 1, Parents(open[k].name))
        BY <4>1, <2>2 DEF Level, Tower
      <4>3. k - 1 \in 2 .. Len(open) /\ k - 1 < i
        BY <3>1, <1>1, <1>2
      <4>4. Within(r, k - 1, Parents(open[k].name))
        BY <4>2, <4>3, <1>1, <1>4, WithinRemoved
      <4> QED BY <4>1, <4>4
    <3>2. CASE k >= i
      <4>1. r[k] = open[k + 1] /\ k + 1 \in 3 .. Len(open) /\ k \in 2 .. Len(open)
        BY <3>2, <1>1, <1>2
      <4>2. Within(open, (k + 1) - 1, Parents(open[k + 1].name))
        BY <4>1, <2>2 DEF Level, Tower
      <4>3. Within(open, k, Parents(open[k + 1].name)) /\ ~(k < i)
        BY <4>2, <3>2
      <4>4. Within(r, k - 1, Parents(open[k + 1].name))
        BY <4>1, <4>3, <1>1, <1>4, WithinRemoved
      <4> QED BY <4>1, <4>4
    <3> QED BY <3>1, <3>2, <1>4
  <2> QED BY <2>1, <2>2 DEF Tower
<1>7. Within(r, Len(r), names)
  <2>1. Within(open, Len(open), names) /\ Len(open) \in 2 .. Len(open) /\ ~(Len(open) < i)
    BY <1>2, <1>4 DEF Level
  <2> QED BY <2>1, <1>1, <1>4, WithinRemoved
<1> QED BY <1>5, <1>6, <1>7 DEF Level

\* or comes,
LEMMA WithinInserted ==
    ASSUME NEW open \in Seq(Elements), NEW i \in 3 .. Len(open) + 1, NEW e, e.name \notin Framed,
           NEW r \in Seq(Elements), Len(r) = Len(open) + 1,
           \A k \in 1 .. Len(r) :
               r[k] = IF k < i THEN open[k] ELSE IF k = i THEN e ELSE open[k - 1],
           NEW n \in 2 .. Len(open), NEW names, Within(open, n, names)
    PROVE  /\ Within(r, IF n < i THEN n ELSE n + 1, names)
           /\ n + 1 = i => Within(r, i, names)
<1>1. PICK k \in 2 .. n : /\ open[k].name \in names \cap Resetting
                          /\ \A m \in k + 1 .. n : open[m].name \notin Resetting
  BY DEF Within
<1>2. Len(open) \in Nat /\ e.name \notin Resetting
  BY DEF Framed
<1>3. ASSUME n < i PROVE Within(r, n, names)
  <2>1. r[k] = open[k] /\ \A m \in k + 1 .. n : r[m] = open[m]
    BY <1>1, <1>2, <1>3
  <2> QED BY <2>1, <1>1, <1>3 DEF Within
<1>4. ASSUME n + 1 >= i PROVE Within(r, n + 1, names)
  <2>1. PICK j : j = IF k < i THEN k ELSE k + 1
    OBVIOUS
  <2>2. j \in 2 .. n + 1 /\ r[j] = open[k]
    BY <2>1, <1>2, <1>4
  <2>3. ASSUME NEW m \in j + 1 .. n + 1 PROVE r[m].name \notin Resetting
    <3>1. CASE m < i
      <4>1. r[m] = open[m] /\ m \in k + 1 .. n
        BY <3>1, <2>1, <1>2, <1>4
      <4> QED BY <4>1, <1>1
    <3>2. CASE m = i
      <4>1. r[m] = e
        BY <3>2, <1>2, <1>4
      <4> QED BY <4>1, <1>2
    <3>3. CASE m > i
      <4>1. r[m] = open[m - 1] /\ m - 1 \in k + 1 .. n
        BY <3>3, <2>1, <1>2, <1>4
      <4> QED BY <4>1, <1>1
    <3> QED BY <3>1, <3>2, <3>3, <2>2
  <2> QED BY <2>2, <2>3, <1>1 DEF Within
<1> QED BY <1>3, <1>4

\* anywhere above the body.
LEMMA LevelInserted ==
    ASSUME NEW names, NEW open \in Seq(Elements), Level(names, open), NEW i \in 3 .. Len(open) + 1,
           NEW e \in Elements, e.name \notin Framed, NEW r, r = InsertAt(open, i, e)
    PROVE  Level(names, r)
<1>1. /\ r \in Seq(Elements) /\ Len(r) = Len(open) + 1
      /\ \A k \in 1 .. Len(r) :
             r[k] = IF k < i THEN open[k] ELSE IF k = i THEN e ELSE open[k - 1]
  <2>1. i \in 1 .. Len(open) + 1
    OBVIOUS
  <2> QED BY <2>1, InsertAtIs
<1>2. Len(open) \in Nat /\ Len(open) >= 2
  BY DEF Level, Tower
<1>3. HtmlFirst(r)
  <2>1. open[1].name = "html" /\ \A k \in 2 .. Len(open) : open[k].name # "html"
    BY DEF Level, HtmlFirst
  <2>2. Len(r) >= 1 /\ r[1].name = "html"
    BY <2>1, <1>1, <1>2
  <2>3. ASSUME NEW k \in 2 .. Len(r) PROVE r[k].name # "html"
    <3>1. CASE k < i
      BY <3>1, <2>1, <1>1, <1>2
    <3>2. CASE k = i
      BY <3>2, <1>1 DEF Framed
    <3>3. CASE k > i
      <4>1. r[k] = open[k - 1] /\ k - 1 \in 2 .. Len(open)
        BY <3>3, <1>1, <1>2
      <4> QED BY <4>1, <2>1
    <3> QED BY <3>1, <3>2, <3>3
  <2> QED BY <2>2, <2>3 DEF HtmlFirst
<1>4. Tower(r)
  <2>1. Len(r) >= 2 /\ r[2].name = "body"
    BY <1>1, <1>2 DEF Level, Tower
  <2>2. ASSUME NEW k \in 3 .. Len(r), r[k].name \in Resetting
        PROVE  Within(r, k - 1, Parents(r[k].name))
    <3>1. CASE k < i
      <4>1. r[k] = open[k] /\ k \in 3 .. Len(open)
        BY <3>1, <1>1, <1>2
      <4>2. Within(open, k - 1, Parents(open[k].name))
        BY <4>1, <2>2 DEF Level, Tower
      <4>3. k - 1 \in 2 .. Len(open) /\ k - 1 < i
        BY <3>1, <1>1, <1>2
      <4>4. PICK n, some : n = k - 1 /\ some = Parents(open[k].name)
        OBVIOUS
      <4>5. n \in 2 .. Len(open) /\ n < i /\ Within(open, n, some)
        BY <4>2, <4>3, <4>4
      <4>6. Within(r, IF n < i THEN n ELSE n + 1, some)
        BY <4>5, <1>1, WithinInserted
      <4> QED BY <4>1, <4>4, <4>5, <4>6
    <3>2. CASE k = i
      BY <3>2, <2>2, <1>1 DEF Framed
    <3>3. CASE k > i
      <4>1. r[k] = open[k - 1] /\ k - 1 \in 3 .. Len(open) /\ k - 2 \in 2 .. Len(open)
        BY <3>3, <1>1, <1>2
      <4>2. Within(open, k - 2, Parents(open[k - 1].name))
        <5>1. (k - 1) - 1 = k - 2
          OBVIOUS
        <5> QED BY <4>1, <5>1, <2>2 DEF Level, Tower
      <4>3. Within(r, k - 1, Parents(open[k - 1].name))
        <5>1. PICK n : n = k - 2
          OBVIOUS
        <5>2. n \in 2 .. Len(open) /\ n + 1 = k - 1 /\ Within(open, n, Parents(open[k - 1].name))
          BY <5>1, <4>1, <4>2
        <5>5. PICK some : some = Parents(open[k - 1].name)
          OBVIOUS
        <5>6. Within(open, n, some)
          BY <5>2, <5>5
        <5>7. /\ Within(r, IF n < i THEN n ELSE n + 1, some)
              /\ n + 1 = i => Within(r, i, some)
          BY <5>2, <5>6, <1>1, WithinInserted
        <5>3. /\ Within(r, IF n < i THEN n ELSE n + 1, Parents(open[k - 1].name))
              /\ n + 1 = i => Within(r, i, Parents(open[k - 1].name))
          BY <5>5, <5>7
        <5>4. n < i => n + 1 = i
          BY <5>1, <5>2, <3>3, <1>1, <1>2
        <5> QED BY <5>2, <5>3, <5>4
      <4> QED BY <4>1, <4>3
    <3> QED BY <3>1, <3>2, <3>3
  <2> QED BY <2>1, <2>2 DEF Tower
<1>5. Within(r, Len(r), names)
  <2>1. Within(open, Len(open), names) /\ Len(open) \in 2 .. Len(open)
    BY <1>2 DEF Level
  <2>2. CASE Len(open) < i
    <3>1. Len(open) + 1 = i /\ Len(r) = i
      BY <2>2, <1>1
    <3> QED BY <2>1, <3>1, <1>1, WithinInserted
  <2>3. CASE ~(Len(open) < i)
    <3>1. Within(r, IF Len(open) < i THEN Len(open) ELSE Len(open) + 1, names)
      BY <2>1, <1>1, WithinInserted
    <3> QED BY <2>3, <3>1, <1>1
  <2> QED BY <2>2, <2>3
<1> QED BY <1>3, <1>4, <1>5 DEF Level

\* Elements that are not of the frame are opened.
LEMMA LevelMore ==
    ASSUME NEW names, NEW open \in Seq(Elements), Level(names, open), NEW b \in Seq(Elements),
           \A i \in 1 .. Len(b) : b[i].name \notin Framed, NEW r, r = open \o b
    PROVE  Level(names, r)
<1>1. /\ r \in Seq(Elements) /\ Len(r) = Len(open) + Len(b)
      /\ \A k \in 1 .. Len(r) : r[k] = IF k <= Len(open) THEN open[k] ELSE b[k - Len(open)]
  BY ConcatIs
<1>2. Len(open) \in Nat /\ Len(open) >= 2 /\ Len(b) \in Nat
  BY DEF Level, Tower
<1>3. ASSUME NEW k \in Len(open) + 1 .. Len(r) PROVE r[k].name \notin Framed
  <2>1. r[k] = b[k - Len(open)] /\ k - Len(open) \in 1 .. Len(b)
    BY <1>1, <1>2
  <2> QED BY <2>1
<1>4. \A k \in 1 .. Len(open) : r[k] = open[k]
  BY <1>1, <1>2
<1>5. HtmlFirst(r)
  BY <1>1, <1>2, <1>3, <1>4 DEF Level, HtmlFirst, Framed
<1>6. Tower(r)
  <2>1. Len(r) >= 2 /\ r[2].name = "body"
    BY <1>1, <1>2, <1>4 DEF Level, Tower
  <2>2. ASSUME NEW k \in 3 .. Len(r), r[k].name \in Resetting
        PROVE  Within(r, k - 1, Parents(r[k].name))
    <3>1. k \in 3 .. Len(open) /\ r[k] = open[k]
      BY <2>2, <1>1, <1>2, <1>3, <1>4 DEF Framed
    <3>2. Within(open, k - 1, Parents(open[k].name))
      BY <3>1, <2>2 DEF Level, Tower
    <3>3. k - 1 \in Nat /\ \A j \in 1 .. k - 1 : r[j].name = open[j].name
      BY <3>1, <1>2, <1>4
    <3> QED BY <3>1, <3>2, <3>3, WithinSame
  <2> QED BY <2>1, <2>2 DEF Tower
<1>7. Within(r, Len(r), names)
  <2>1. PICK k \in 2 .. Len(open) :
            /\ open[k].name \in names \cap Resetting
            /\ \A m \in k + 1 .. Len(open) : open[m].name \notin Resetting
    BY DEF Level, Within
  <2>2. r[k].name \in names \cap Resetting /\ k \in 2 .. Len(r)
    BY <2>1, <1>1, <1>2, <1>4
  <2>3. ASSUME NEW m \in k + 1 .. Len(r) PROVE r[m].name \notin Resetting
    BY <2>1, <1>1, <1>2, <1>3, <1>4 DEF Framed
  <2> QED BY <2>2, <2>3 DEF Within
<1> QED BY <1>5, <1>6, <1>7 DEF Level

\* One element is opened: of the frame, when the last of the frame is one of its parents.
LEMMA LevelPushed ==
    ASSUME NEW names, NEW open \in Seq(Elements), Level(names, open), NEW e \in Elements,
           NEW r, r = Append(open, e)
    PROVE  /\ e.name \notin Framed => Level(names, r)
           /\ e.name \in Resetting /\ names \cap Resetting \subseteq Parents(e.name) =>
                  Level({e.name}, r)
<1>1. /\ r \in Seq(Elements) /\ Len(r) = Len(open) + 1 /\ r[Len(open) + 1] = e
      /\ \A k \in 1 .. Len(open) : r[k] = open[k]
  OBVIOUS
<1>2. Len(open) \in Nat /\ Len(open) >= 2
  BY DEF Level, Tower
<1>3. ASSUME e.name # "html" PROVE HtmlFirst(r)
  BY <1>1, <1>2, <1>3 DEF Level, HtmlFirst
<1>4. ASSUME e.name \in Resetting => Within(open, Len(open), Parents(e.name)) PROVE Tower(r)
  <2>1. Len(r) >= 2 /\ r[2].name = "body"
    BY <1>1, <1>2 DEF Level, Tower
  <2>2. ASSUME NEW k \in 3 .. Len(r), r[k].name \in Resetting
        PROVE  Within(r, k - 1, Parents(r[k].name))
    <3>1. Within(open, k - 1, Parents(r[k].name))
      <4>1. CASE k <= Len(open)
        BY <4>1, <2>2, <1>1, <1>2 DEF Level, Tower
      <4>2. CASE k = Len(open) + 1
        <5>1. k - 1 = Len(open) /\ r[k] = e
          BY <4>2, <1>1, <1>2
        <5> QED BY <5>1, <2>2, <1>4
      <4> QED BY <4>1, <4>2, <1>1, <1>2
    <3>2. k - 1 \in Nat /\ \A j \in 1 .. k - 1 : r[j] = open[j]
      BY <1>1, <1>2
    <3> QED BY <3>1, <3>2, WithinSame
  <2> QED BY <2>1, <2>2 DEF Tower
<1>5. PICK k \in 2 .. Len(open) :
          /\ open[k].name \in names \cap Resetting
          /\ \A m \in k + 1 .. Len(open) : open[m].name \notin Resetting
  BY DEF Level, Within
<1>6. ASSUME e.name \notin Framed PROVE Level(names, r)
  <2>1. HtmlFirst(r) /\ Tower(r)
    BY <1>3, <1>4, <1>6 DEF Framed
  <2>2. Within(r, Len(r), names)
    <3>1. \A m \in k + 1 .. Len(r) : r[m].name \notin Resetting
      BY <1>1, <1>2, <1>5, <1>6 DEF Framed
    <3> QED BY <3>1, <1>1, <1>2, <1>5 DEF Within
  <2> QED BY <2>1, <2>2 DEF Level
<1>7. ASSUME e.name \in Resetting, names \cap Resetting \subseteq Parents(e.name)
      PROVE  Level({e.name}, r)
  <2>1. Within(open, Len(open), Parents(e.name))
    BY <1>5, <1>7 DEF Within
  <2>2. HtmlFirst(r) /\ Tower(r)
    BY <1>3, <1>4, <1>7, <2>1, FrameNames
  <2>3. Within(r, Len(r), {e.name})
    BY <1>1, <1>2, <1>7 DEF Within
  <2> QED BY <2>2, <2>3 DEF Level
<1> QED BY <1>6, <1>7

\* Elements change places with others of their names.
LEMMA LevelRenamed ==
    ASSUME NEW names, NEW open \in Seq(Elements), Level(names, open),
           NEW r \in Seq(Elements), Len(r) = Len(open),
           \A k \in 1 .. Len(open) : r[k].name = open[k].name
    PROVE  Level(names, r)
<1>1. Len(open) \in Nat /\ Len(open) >= 2
  BY DEF Level, Tower
<1>2. HtmlFirst(r)
  BY <1>1 DEF Level, HtmlFirst
<1>3. Tower(r)
  <2>1. ASSUME NEW k \in 3 .. Len(r), r[k].name \in Resetting
        PROVE  Within(r, k - 1, Parents(r[k].name))
    <3>1. Within(open, k - 1, Parents(r[k].name))
      BY <2>1, <1>1 DEF Level, Tower
    <3> QED BY <3>1, <1>1, WithinSame
  <2> QED BY <2>1, <1>1 DEF Level, Tower
<1>4. Within(r, Len(r), names)
  BY <1>1, WithinSame DEF Level
<1> QED BY <1>2, <1>3, <1>4 DEF Level

\* The last element of the frame has one of the names.
LEMMA LastFramed ==
    ASSUME NEW names, NEW s, s.open \in Seq(Elements), Level(names, s.open),
           NEW i, i = LastNamed(s, Resetting)
    PROVE  /\ i \in 2 .. Len(s.open) /\ s.open[i].name \in names \cap Resetting
           /\ \A j \in i + 1 .. Len(s.open) : s.open[j].name \notin Resetting
<1>1. /\ i \in 0 .. Len(s.open) /\ (i > 0 => s.open[i].name \in Resetting)
      /\ \A k \in i + 1 .. Len(s.open) : s.open[k].name \notin Resetting
  BY LastNamedIs
<1>2. PICK k \in 2 .. Len(s.open) :
          /\ s.open[k].name \in names \cap Resetting
          /\ \A m \in k + 1 .. Len(s.open) : s.open[m].name \notin Resetting
  BY DEF Level, Within
<1>3. i = k
  BY <1>1, <1>2
<1> QED BY <1>1, <1>2, <1>3

\* What has none of the scope above it is above all of the frame, if the frame ends with the scope.
LEMMA AboveFrame ==
    ASSUME NEW names, NEW open \in Seq(Elements), Level(names, open), NEW i \in 1 .. Len(open),
           open[i].name \notin Framed,
           NEW scope, names \cap Resetting \subseteq scope \cup {"body"},
           \A j \in i + 1 .. Len(open) : open[j].name \notin scope
    PROVE  \A j \in i .. Len(open) : open[j].name \notin Resetting
<1>1. PICK k \in 2 .. Len(open) :
          /\ open[k].name \in names \cap Resetting
          /\ \A m \in k + 1 .. Len(open) : open[m].name \notin Resetting
  BY DEF Level, Within
<1>2. Len(open) \in Nat /\ i # 1 /\ i # 2
  BY FrameNames DEF Level, HtmlFirst, Tower, Framed
<1>3. k < i
  <2>1. k # i
    BY <1>1 DEF Framed
  <2>2. ASSUME k > i PROVE FALSE
    <3>1. open[k].name = "body" /\ k \in 3 .. Len(open)
      BY <2>2, <1>1, <1>2
    <3> QED BY <3>1, NoBodyAbove
  <2> QED BY <2>1, <2>2
<1> QED BY <1>1, <1>2, <1>3

-------------------------------------------------------------------------------
(* The stack that each mode needs *)

\* The names of which one is the last of the frame in a mode,
Holders(m) ==
    CASE m \in {"in_body", "after_body", "after_after_body"} -> {"body"}
      [] m \in {"in_select", "in_select_in_table"}           -> {"select"}
      [] m = "in_table"                                      -> {"table"}
      [] m = "in_caption"                                    -> {"caption"}
      [] m = "in_column_group"                               -> {"colgroup"}
      [] m = "in_table_body"                                 -> Sections
      [] m = "in_row"                                        -> {"tr"}
      [] m = "in_cell"                                       -> Cells

\* which is so in these modes.
Leveled == {"in_body", "after_body", "after_after_body", "in_select", "in_select_in_table",
    "in_table", "in_caption", "in_column_group", "in_table_body", "in_row", "in_cell"}

\* The modes in which any number of elements may be open.
Steady == (Leveled \ {"in_column_group"})
    \cup {"in_frameset", "after_frameset", "after_after_frameset"}

\* The stack as it should be in a mode.
Standing(m, open) ==
    /\ m \in Modes \ Remembering
    /\ IF m \in {"initial", "before_html"} THEN Len(open) = 0 ELSE HtmlFirst(open)
    /\ m \in {"before_head", "after_head"} => Len(open) = 1
    /\ m = "in_head" => Len(open) = 2
    /\ m = "in_head_noscript" => Len(open) = 3
    /\ m \in Leveled => Level(Holders(m), open)
    /\ m = "in_column_group" => Last(open).name = "colgroup"

\* The form element pointer is a form, if it is anything.
FormNamed(s) == s.form.name \in {"none", "form"}

\* The failures after which nothing is asked of the stack: the bookmark, too many dispatches,
\* and the start tags that pop what they have not looked at.
Lawful == {"bookmark", "overflow", "passed", "astray"}

\* The mode is still that one, and the stack as it should be in it.
Stands(m, s) ==
    IF s.failure = "none" THEN s.mode = m /\ FormNamed(s) /\ Standing(m, s.open)
    ELSE s.failure \in Lawful

\* and the two lists are as they should be.
Fits(m, s) == Sane(s) /\ Stands(m, s)

\* Of the modes, and of the names that they need.
LEMMA HoldersAre ==
    /\ Leveled \subseteq Modes \ Remembering /\ Steady \subseteq Modes \ Remembering
    /\ \A m \in Leveled : Holders(m) \subseteq Resetting
    /\ Steady \cap {"initial", "before_html", "before_head", "after_head", "in_head",
                    "in_head_noscript", "in_column_group"} = {}
<1>1. ASSUME NEW m \in Leveled PROVE Holders(m) \subseteq Resetting
  BY DEF Leveled, Holders, Resetting, Sections, Cells
<1>2. Leveled \subseteq Modes \ Remembering /\ Steady \subseteq Modes \ Remembering
  BY DEF Leveled, Steady, Modes, Remembering
<1> QED BY <1>1, <1>2 DEF Leveled, Steady

\* In a steady mode the frame is all that counts.
LEMMA StandingSteady ==
    ASSUME NEW m \in Steady, NEW open
    PROVE  Standing(m, open) <=> HtmlFirst(open) /\ (m \in Leveled => Level(Holders(m), open))
BY HoldersAre DEF Standing

\* The fields that the mode depends on stay.
LEMMA FitsFrame ==
    ASSUME NEW m, NEW s, Fits(m, s), NEW r, Sane(r), r.failure = s.failure,
           r.mode = s.mode, r.form = s.form, r.open = s.open
    PROVE  Fits(m, r)
BY DEF Fits, Stands, FormNamed

\* Nothing is asked of what has failed.
LEMMA FailedFits ==
    ASSUME NEW m, NEW r, Sane(r), r.failure \in Lawful
    PROVE  Fits(m, r)
BY DEF Fits, Stands, Lawful

\* Only the stack changes.
LEMMA FitsOpen ==
    ASSUME NEW m, NEW s, Fits(m, s), NEW r, Sane(r), r.failure = s.failure,
           r.mode = s.mode, r.form = s.form,
           s.failure = "none" /\ Standing(m, s.open) => Standing(m, r.open)
    PROVE  Fits(m, r)
BY DEF Fits, Stands, FormNamed

\* What the fields are when one of them is changed.
LEMMA FailIs ==
    ASSUME NEW s \in Trees, NEW why \in Failures, why # "none"
    PROVE  /\ Fail(s, why).failure # "none" /\ Fail(s, why).open = s.open
           /\ Fail(s, why).failure = IF s.failure = "none" THEN why ELSE s.failure
           /\ Fail(s, why).mode = s.mode /\ Fail(s, why).form = s.form
<1>1. PICK f : f = IF s.failure = "none" THEN why ELSE s.failure
  OBVIOUS
<1>2. f # "none" /\ Fail(s, why) = [s EXCEPT !.failure = f]
  BY <1>1 DEF Fail
<1> QED BY <1>1, <1>2 DEF Trees

\* One of those failures, or any after another,
LEMMA FailFits ==
    ASSUME NEW m, NEW s, Fits(m, s), NEW why,
           \/ why \in Lawful
           \/ s.failure # "none" /\ why \in Failures /\ why # "none"
    PROVE  Fits(m, Fail(s, why))
<1>1. why \in Failures /\ why # "none"
  BY DEF Lawful, Failures
<1>2. Sane(s) /\ s \in Trees /\ Sane(Fail(s, why))
  BY <1>1, FailSane, SaneIs DEF Fits
<1>3. Fail(s, why).failure = IF s.failure = "none" THEN why ELSE s.failure
  BY <1>1, <1>2, FailIs
<1>4. Fail(s, why).failure \in Lawful
  BY <1>3 DEF Fits, Stands
<1> QED BY <1>2, <1>4, FailedFits

\* and the flags of the constructor may come in any mode,
LEMMA FlagsFit ==
    ASSUME NEW m, NEW s, Fits(m, s), NEW b \in BOOLEAN
    PROVE  /\ Fits(m, [s EXCEPT !.frameset_ok = b])
           /\ Fits(m, [s EXCEPT !.ignore_line_feed = b])
           /\ Fits(m, [s EXCEPT !.quirks = b])
           /\ Fits(m, [s EXCEPT !.ignored = b])
           /\ Fits(m, [s EXCEPT !.reprocess = b])
<1>1. Sane(s) /\ s \in Trees
  BY SaneIs DEF Fits
<1>2. ASSUME NEW r \in {[s EXCEPT !.frameset_ok = b], [s EXCEPT !.ignore_line_feed = b],
                        [s EXCEPT !.quirks = b], [s EXCEPT !.ignored = b],
                        [s EXCEPT !.reprocess = b]}
      PROVE  Fits(m, r)
  <2>1. Sane(r)
    BY <1>1, FlagsSane
  <2>2. r.failure = s.failure /\ r.mode = s.mode /\ r.form = s.form /\ r.open = s.open
    BY <1>1 DEF Trees
  <2> QED BY <2>1, <2>2, FitsFrame
<1> QED BY <1>2

\* and so may its pointers and the content the tokenizer is asked for.
LEMMA FieldsFit ==
    ASSUME NEW m, NEW s, Fits(m, s)
    PROVE  /\ \A c \in TS!Contents : Fits(m, [s EXCEPT !.content = c])
           /\ \A p \in SUBSET {"space", "line feed", "text"} : Fits(m, [s EXCEPT !.pending = p])
           /\ \A e \in Elements : e.name \in {"none", "form"} => Fits(m, [s EXCEPT !.form = e])
           /\ \A e \in Elements : e.name = "head" => Fits(m, [s EXCEPT !.head = e])
<1>1. Sane(s) /\ s \in Trees
  BY SaneIs DEF Fits
<1>2. ASSUME NEW c \in TS!Contents PROVE Fits(m, [s EXCEPT !.content = c])
  <2>1. PICK r : r = [s EXCEPT !.content = c]
    OBVIOUS
  <2>2. Sane(r)
    BY <2>1, <1>1, ContentSane
  <2>3. r.failure = s.failure /\ r.mode = s.mode /\ r.form = s.form /\ r.open = s.open
    BY <2>1, <1>1 DEF Trees
  <2> QED BY <2>1, <2>2, <2>3, FitsFrame
<1>3. ASSUME NEW p \in SUBSET {"space", "line feed", "text"}
      PROVE  Fits(m, [s EXCEPT !.pending = p])
  <2>1. PICK r : r = [s EXCEPT !.pending = p]
    OBVIOUS
  <2>2. Sane(r)
    BY <2>1, <1>1, PendingSane
  <2>3. r.failure = s.failure /\ r.mode = s.mode /\ r.form = s.form /\ r.open = s.open
    BY <2>1, <1>1 DEF Trees
  <2> QED BY <2>1, <2>2, <2>3, FitsFrame
<1>4. ASSUME NEW e \in Elements, e.name \in {"none", "form"} PROVE Fits(m, [s EXCEPT !.form = e])
  <2>1. PICK r : r = [s EXCEPT !.form = e]
    OBVIOUS
  <2>2. Sane(r)
    BY <2>1, <1>1, FormSane
  <2>3. r.failure = s.failure /\ r.mode = s.mode /\ r.form = e /\ r.open = s.open
    BY <2>1, <1>1 DEF Trees
  <2> QED BY <2>1, <2>2, <2>3, <1>4 DEF Fits, Stands, FormNamed
<1>5. ASSUME NEW e \in Elements, e.name = "head" PROVE Fits(m, [s EXCEPT !.head = e])
  <2>1. PICK r : r = [s EXCEPT !.head = e]
    OBVIOUS
  <2>2. Sane(r)
    BY <2>1, <1>1, <1>5, HeadSane
  <2>3. r.failure = s.failure /\ r.mode = s.mode /\ r.form = s.form /\ r.open = s.open
    BY <2>1, <1>1 DEF Trees
  <2> QED BY <2>1, <2>2, <2>3, FitsFrame
<1> QED BY <1>2, <1>3, <1>4, <1>5

\* Nor does it matter what becomes of the token
LEMMA AgainFits ==
    ASSUME NEW m, NEW s, Fits(m, s)
    PROVE  /\ Fits(m, Again(s)) /\ Fits(m, OnBehalf(s)) /\ Fits(m, AgainUnlessIgnored(s))
           /\ Fits(m, Ignored(s))
           /\ Fits(m, [s EXCEPT !.ignored = FALSE, !.reprocess = FALSE])
           /\ Fits(m, [s EXCEPT !.ignore_line_feed = TRUE, !.frameset_ok = FALSE])
<1>1. Fits(m, Again(s)) /\ Fits(m, OnBehalf(s)) /\ Fits(m, Ignored(s))
  BY FlagsFit DEF Again, OnBehalf, Ignored
<1>2. ASSUME NEW b \in BOOLEAN PROVE Fits(m, [s EXCEPT !.ignored = FALSE, !.reprocess = b])
  <2>1. PICK r : r = [s EXCEPT !.ignored = FALSE]
    OBVIOUS
  <2>2. [s EXCEPT !.ignored = FALSE, !.reprocess = b] = [r EXCEPT !.reprocess = b]
    BY <2>1
  <2> QED BY <2>1, <2>2, FlagsFit
<1>3. Fits(m, AgainUnlessIgnored(s))
  <2>1. (~s.ignored) \in BOOLEAN
    OBVIOUS
  <2> QED BY <2>1, <1>2 DEF AgainUnlessIgnored
<1>4. Fits(m, [s EXCEPT !.ignore_line_feed = TRUE, !.frameset_ok = FALSE])
  <2>1. PICK r : r = [s EXCEPT !.ignore_line_feed = TRUE]
    OBVIOUS
  <2>2. [s EXCEPT !.ignore_line_feed = TRUE, !.frameset_ok = FALSE]
            = [r EXCEPT !.frameset_ok = FALSE]
    BY <2>1
  <2> QED BY <2>1, <2>2, FlagsFit
<1> QED BY <1>1, <1>2, <1>3, <1>4

\* There is a current node, if nothing has failed.
Planted(s) == s.failure = "none" => s.open # <<>>

\* Of a stack with the html element there is one,
LEMMA StandsPlanted ==
    ASSUME NEW m, m \notin {"initial", "before_html"}, NEW s, s.open \in Seq(Elements),
           \/ Stands(m, s)
           \/ s.failure = "none" => HtmlFirst(s.open)
    PROVE  Planted(s)
BY DEF Stands, Standing, HtmlFirst, Planted

\* and then it is written to.
LEMMA WriteStays ==
    ASSUME NEW s \in Trees, Planted(s)
    PROVE  /\ Write(s).failure = s.failure /\ Write(s).open = s.open
           /\ Write(s).mode = s.mode /\ Write(s).form = s.form
           /\ s.failure = "none" => Write(s) = s
<1>1. CASE s.failure = "none"
  BY <1>1 DEF Write, Planted
<1>2. CASE s.failure # "none"
  BY <1>2, FailIs, FailuresHave DEF Write
<1> QED BY <1>1, <1>2

\* So it is wherever the stack fits a mode of the document.
LEMMA FitsPlanted ==
    ASSUME NEW m, m \notin {"initial", "before_html"}, NEW s, Fits(m, s)
    PROVE  Planted(s)
BY StandsPlanted, SaneIs DEF Fits

\* What is written leaves all as it was.
LEMMA WriteFits ==
    ASSUME NEW m, m \notin {"initial", "before_html"}, NEW s, Fits(m, s)
    PROVE  Fits(m, Write(s))
<1>1. Sane(s) /\ s \in Trees /\ s.open \in Seq(Elements) /\ Planted(s)
  BY StandsPlanted, SaneIs DEF Fits
<1>2. Sane(Write(s))
  BY <1>1, WriteSane
<1> QED BY <1>1, <1>2, WriteStays, FitsFrame

-------------------------------------------------------------------------------
(* Elements that are not of the frame *)

\* In a steady mode elements that are not of the frame may be closed
LEMMA StandingCut ==
    ASSUME NEW m \in Steady, NEW open \in Seq(Elements), Standing(m, open),
           NEW n \in 0 .. Len(open), \A k \in n + 1 .. Len(open) : open[k].name \notin Framed,
           NEW r \in Seq(Elements), Len(r) = n, \A k \in 1 .. n : r[k] = open[k]
    PROVE  Standing(m, r)
<1>1. HtmlFirst(open) /\ (m \in Leveled => Level(Holders(m), open))
  BY StandingSteady
<1>2. Len(open) \in Nat
  OBVIOUS
<1>3. n >= 1
  BY <1>1, <1>2 DEF HtmlFirst, Framed
<1>4. HtmlFirst(r)
  BY <1>1, <1>2, <1>3 DEF HtmlFirst
<1>5. ASSUME m \in Leveled PROVE Level(Holders(m), r)
  <2>1. \A k \in n + 1 .. Len(open) : open[k].name \notin Resetting
    BY DEF Framed
  <2> QED BY <1>1, <1>5, <2>1, LevelCut
<1> QED BY <1>4, <1>5, StandingSteady

\* or opened,
LEMMA StandingMore ==
    ASSUME NEW m \in Steady, NEW open \in Seq(Elements), Standing(m, open),
           NEW b \in Seq(Elements), \A i \in 1 .. Len(b) : b[i].name \notin Framed,
           NEW r, r = open \o b
    PROVE  Standing(m, r)
<1>1. HtmlFirst(open) /\ (m \in Leveled => Level(Holders(m), open))
  BY StandingSteady
<1>2. /\ r \in Seq(Elements) /\ Len(r) = Len(open) + Len(b)
      /\ \A k \in 1 .. Len(r) : r[k] = IF k <= Len(open) THEN open[k] ELSE b[k - Len(open)]
  BY ConcatIs
<1>3. Len(open) \in Nat /\ Len(b) \in Nat /\ Len(open) >= 1
  BY <1>1 DEF HtmlFirst
<1>4. ASSUME NEW k \in 2 .. Len(r) PROVE r[k].name # "html"
  <2>1. CASE k <= Len(open)
    BY <2>1, <1>1, <1>2 DEF HtmlFirst
  <2>2. CASE k > Len(open)
    <3>1. r[k] = b[k - Len(open)] /\ k - Len(open) \in 1 .. Len(b)
      BY <2>2, <1>2, <1>3
    <3> QED BY <3>1 DEF Framed
  <2> QED BY <2>1, <2>2, <1>3
<1>5. HtmlFirst(r)
  BY <1>1, <1>2, <1>3, <1>4 DEF HtmlFirst
<1>6. m \in Leveled => Level(Holders(m), r)
  BY <1>1, LevelMore
<1> QED BY <1>5, <1>6, StandingSteady

\* one at a time,
LEMMA StandingPushed ==
    ASSUME NEW m \in Steady, NEW open \in Seq(Elements), Standing(m, open),
           NEW e \in Elements, e.name \notin Framed, NEW r, r = Append(open, e)
    PROVE  Standing(m, r)
<1>1. PICK b : b = <<e>>
  OBVIOUS
<1>2. b \in Seq(Elements) /\ Len(b) = 1 /\ b[1] = e /\ r = open \o b
  BY <1>1, AppendIsConcat
<1>3. \A i \in 1 .. Len(b) : b[i].name \notin Framed
  BY <1>2
<1> QED BY <1>2, <1>3, StandingMore

\* or removed.
LEMMA StandingRemoved ==
    ASSUME NEW m \in Steady, NEW open \in Seq(Elements), Standing(m, open),
           NEW i \in 1 .. Len(open), open[i].name \notin Framed, NEW r, r = RemoveAt(open, i)
    PROVE  Standing(m, r)
<1>1. HtmlFirst(open) /\ (m \in Leveled => Level(Holders(m), open))
  BY StandingSteady
<1>2. /\ r \in Seq(Elements) /\ Len(r) = Len(open) - 1
      /\ \A k \in 1 .. Len(r) : r[k] = IF k < i THEN open[k] ELSE open[k + 1]
  BY RemoveAtIs
<1>3. Len(open) \in Nat /\ Len(open) >= 1 /\ i # 1
  BY <1>1 DEF HtmlFirst, Framed
<1>4. HtmlFirst(r)
  <2>1. i > 1 /\ Len(r) >= 1 /\ r[1] = open[1]
    BY <1>2, <1>3
  <2>2. ASSUME NEW k \in 2 .. Len(r) PROVE r[k].name # "html"
    <3>1. PICK j : j = IF k < i THEN k ELSE k + 1
      OBVIOUS
    <3>2. r[k] = open[j] /\ j \in 2 .. Len(open)
      BY <3>1, <1>2, <1>3
    <3> QED BY <3>2, <1>1 DEF HtmlFirst
  <2> QED BY <2>1, <2>2, <1>1 DEF HtmlFirst
<1>5. m \in Leveled => Level(Holders(m), r)
  BY <1>1, LevelRemoved
<1> QED BY <1>4, <1>5, StandingSteady

\* The stack below a newly opened element.
LEMMA FrontOfAppend ==
    ASSUME NEW o \in Seq(Elements), NEW e \in Elements, NEW r, r = Append(o, e)
    PROVE  SubSeq(r, 1, Len(r) - 1) = o
<1>1. r \in Seq(Elements) /\ Len(r) = Len(o) + 1 /\ \A k \in 1 .. Len(o) : r[k] = o[k]
  OBVIOUS
<1>2. PICK f : f = SubSeq(r, 1, Len(r) - 1)
  OBVIOUS
<1>3. Len(o) \in Nat /\ Len(r) - 1 = Len(o) /\ Len(o) \in 0 .. Len(r)
  BY <1>1
<1>4. f = SubSeq(r, 1, Len(o))
  BY <1>2, <1>3
<1>5. f \in Seq(Elements) /\ Len(f) = Len(o) /\ \A k \in 1 .. Len(o) : f[k] = r[k]
  BY <1>1, <1>3, <1>4, FrontIs
<1>6. f = o
  BY <1>1, <1>5, SeqEqual
<1> QED BY <1>2, <1>6

\* What changes in the state when an element is inserted.
LEMMA InsertedIs ==
    ASSUME NEW s, Sane(s), NEW name \in Names, NEW r, r = insert_an_HTML_element(s, name)
    PROVE  /\ Whole(r) /\ r.mode = s.mode /\ r.form = s.form /\ r.formatting = s.formatting
           /\ Planted(s) => r.failure = s.failure
           /\ Last(r.open) \in Elements /\ Last(r.open).name = name
           /\ r.open = Append(s.open, Last(r.open)) /\ r.open # <<>>
<1>1. PICK e : e = create_an_element_for_a_token(s, name)
  OBVIOUS
<1>2. /\ Whole(r) /\ r.formatting = s.formatting
      /\ r.open = Append(s.open, e) /\ r.open # <<>> /\ Last(r.open) = e
  BY <1>1, InsertIs
<1>3. e \in Elements /\ e.name = name
  BY <1>1, SaneIs, CreateIs
<1>4. PICK w : w = Write(s)
  OBVIOUS
<1>5. /\ w \in Trees /\ w.mode = s.mode /\ w.form = s.form
      /\ Planted(s) => w.failure = s.failure
  <2>1. s \in Trees /\ Sane(w)
    BY <1>4, SaneIs, WriteSane
  <2>2. w.mode = s.mode /\ w.form = s.form
    BY <2>1, <1>4, FailIs, FailuresHave DEF Write
  <2>3. Planted(s) => w.failure = s.failure
    BY <2>1, <1>4, WriteStays
  <2> QED BY <2>1, <2>2, <2>3, SaneIs
<1>6. r = [w EXCEPT !.open = Append(w.open, e)]
  BY <1>1, <1>4 DEF insert_an_HTML_element, Push
<1>7. r.mode = s.mode /\ r.form = s.form /\ r.failure = w.failure
  BY <1>5, <1>6 DEF Trees
<1> QED BY <1>2, <1>3, <1>5, <1>7

\* An element that is not of the frame is opened,
LEMMA InsertStands ==
    ASSUME NEW m \in Steady, NEW s, Fits(m, s), NEW name \in Names, name \notin Framed
    PROVE  Stands(m, insert_an_HTML_element(s, name))
<1>1. PICK r : r = insert_an_HTML_element(s, name)
  OBVIOUS
<1>2. /\ r.mode = s.mode /\ r.form = s.form /\ r.failure = s.failure
      /\ Last(r.open) \in Elements /\ Last(r.open).name = name
      /\ r.open = Append(s.open, Last(r.open))
  <2>1. Planted(s)
    BY FitsPlanted DEF Steady, Leveled
  <2> QED BY <2>1, <1>1, InsertedIs DEF Fits
<1>3. s.failure = "none" => Standing(m, r.open)
  BY <1>2, StandingPushed, SaneIs DEF Fits, Stands
<1> QED BY <1>1, <1>2, <1>3 DEF Fits, Stands, FormNamed

\* If it is none that puts a marker into the list,
LEMMA CoveringsFramed == Coverings \subseteq Embedded \cup Framed
BY DEF Coverings, Framed, Resetting, Cells

\* the lists stay as they should be, too.
LEMMA InsertFits ==
    ASSUME NEW m \in Steady, NEW s, Fits(m, s), NEW name \in Names,
           name \notin Framed \cup Embedded
    PROVE  Fits(m, insert_an_HTML_element(s, name))
<1>1. Sane(insert_an_HTML_element(s, name))
  BY InsertSane, CoveringsFramed DEF Fits
<1> QED BY <1>1, InsertStands DEF Fits

\* What changes in the state when the last element is closed.
LEMMA PopIs ==
    ASSUME NEW s \in Trees
    PROVE  /\ Pop(s).mode = s.mode /\ Pop(s).form = s.form
           /\ Pop(s).failure = "none" => s.failure = "none" /\ s.open # <<>>
           /\ Planted(s) => Pop(s).failure = s.failure
           /\ s.open # <<>> => /\ Pop(s).open = SubSeq(s.open, 1, Len(s.open) - 1)
                               /\ Pop(s).failure = s.failure
<1>1. CASE s.open = <<>>
  BY <1>1, FailIs, FailuresHave DEF Pop, Planted
<1>2. CASE s.open # <<>>
  BY <1>2 DEF Pop, Shrunk, Trees
<1> QED BY <1>1, <1>2

\* An element that is opened and closed again leaves the stack as it was.
LEMMA InsertAndPopFits ==
    ASSUME NEW m, m \notin {"initial", "before_html"}, NEW s, Fits(m, s),
           NEW name \in Names, name \notin Framed \cup Embedded
    PROVE  Fits(m, InsertAndPop(s, name))
<1>1. Planted(s) /\ Sane(s) /\ name \notin Coverings
  BY CoveringsFramed, FitsPlanted DEF Fits
<1>2. PICK r : r = insert_an_HTML_element(s, name)
  OBVIOUS
<1>3. PICK u : u = Pop(r)
  OBVIOUS
<1>4. Sane(u)
  BY <1>1, <1>2, <1>3, InsertAndPopSane DEF InsertAndPop
<1>5. /\ r \in Trees /\ r.mode = s.mode /\ r.form = s.form
      /\ r.failure = s.failure
      /\ Last(r.open) \in Elements /\ r.open = Append(s.open, Last(r.open)) /\ r.open # <<>>
  BY <1>1, <1>2, InsertedIs DEF Whole
<1>6. /\ u.mode = r.mode /\ u.form = r.form /\ u.failure = r.failure
      /\ u.open = SubSeq(r.open, 1, Len(r.open) - 1)
  BY <1>3, <1>5, PopIs
<1>7. u.open = s.open
  BY <1>1, <1>5, <1>6, FrontOfAppend, SaneIs
<1> QED BY <1>2, <1>3, <1>4, <1>5, <1>6, <1>7, FitsFrame DEF InsertAndPop

\* Only the first n elements of the stack are left, and nothing else has changed that
\* the mode depends on.
CutTo(s, r, n) ==
    /\ Sane(r) /\ r.failure = s.failure /\ r.mode = s.mode /\ r.form = s.form
    /\ r.open \in Seq(Elements) /\ Len(r.open) = n /\ n \in 0 .. Len(s.open)
    /\ \A k \in 1 .. n : r.open[k] = s.open[k]

\* Closing the last elements one by one,
LEMMA ShrunkIs ==
    ASSUME NEW s, Sane(s), NEW n \in 0 .. Len(s.open)
    PROVE  CutTo(s, Shrunk(s, n), n)
<1>1. PICK r : r = Shrunk(s, n)
  OBVIOUS
<1>2. /\ Sane(r) /\ r.failure = s.failure /\ Len(r.open) = n
      /\ \A k \in 1 .. n : r.open[k] = s.open[k]
      /\ r.form = s.form
  BY <1>1, ShrunkSane
<1>3. r.mode = s.mode
  <2>1. s \in Trees
    BY SaneIs
  <2> QED BY <2>1, <1>1 DEF Shrunk, Trees
<1>4. r.open \in Seq(Elements)
  BY <1>2, SaneIs
<1> QED BY <1>1, <1>2, <1>3, <1>4 DEF CutTo

\* and then some more.
LEMMA CutAgain ==
    ASSUME NEW s, NEW r, NEW u, NEW i, NEW n, s.open \in Seq(Elements),
           CutTo(s, r, i), CutTo(r, u, n)
    PROVE  CutTo(s, u, n)
<1>1. i \in 0 .. Len(s.open) /\ n \in 0 .. i /\ Len(s.open) \in Nat
  BY DEF CutTo
<1>2. \A k \in 1 .. n : u.open[k] = s.open[k]
  BY <1>1 DEF CutTo
<1> QED BY <1>1, <1>2 DEF CutTo

\* If none of the frame is among them the mode stays.
LEMMA CutFits ==
    ASSUME NEW m \in Steady, NEW s, Fits(m, s), NEW r, NEW n, CutTo(s, r, n),
           s.failure = "none" /\ Standing(m, s.open) =>
               \A k \in n + 1 .. Len(s.open) : s.open[k].name \notin Framed
    PROVE  Fits(m, r)
<1>1. s.open \in Seq(Elements)
  BY SaneIs DEF Fits
<1>2. /\ Sane(r) /\ r.failure = s.failure /\ r.mode = s.mode /\ r.form = s.form
      /\ r.open \in Seq(Elements) /\ Len(r.open) = n /\ n \in 0 .. Len(s.open)
      /\ \A k \in 1 .. n : r.open[k] = s.open[k]
  BY DEF CutTo
<1>3. s.failure = "none" /\ Standing(m, s.open) => Standing(m, r.open)
  BY <1>1, <1>2, StandingCut
<1> QED BY <1>2, <1>3, FitsOpen

\* The current node is closed if it is none of the frame.
LEMMA PopFits ==
    ASSUME NEW m \in Steady, NEW s, Fits(m, s), NEW names, names \cap Framed = {},
           CurrentIs(s, names)
    PROVE  Fits(m, Pop(s))
<1>1. s.open \in Seq(Elements) /\ Len(s.open) \in Nat /\ s.open # <<>>
  BY SaneIs DEF Fits, CurrentIs
<1>2. Len(s.open) >= 1 /\ s.open[Len(s.open)].name \notin Framed
  BY <1>1 DEF CurrentIs, Last
<1>3. PICK n : n = Len(s.open) - 1
  OBVIOUS
<1>4. n \in 0 .. Len(s.open) /\ \A k \in n + 1 .. Len(s.open) : k = Len(s.open)
  BY <1>1, <1>2, <1>3
<1>5. Fits(m, Shrunk(s, n))
  <2>1. CutTo(s, Shrunk(s, n), n)
    BY <1>4, ShrunkIs DEF Fits
  <2> QED BY <2>1, <1>2, <1>4, CutFits
<1> QED BY <1>1, <1>3, <1>5 DEF Pop

\* The modes in which the rules of the body apply to any token.
Bodies == {"in_body", "in_caption", "in_cell"}

\* The modes in which the rules of a select apply.
Selects == {"in_select", "in_select_in_table"}

\* What those modes have in common.
LEMMA BodiesAre ==
    /\ Bodies \subseteq Steady \cap Leveled /\ Selects \subseteq Steady \cap Leveled
    /\ \A m \in Bodies : Holders(m) \subseteq Scope \cup {"body"} /\ Holders(m) \subseteq is_special
    /\ \A m \in Bodies : /\ Holders(m) \subseteq Parents("table")
                        /\ Holders(m) \subseteq Parents("select")
    /\ \A m \in Bodies \cup Selects : m \notin Remembering
<1>1. Bodies \subseteq Steady \cap Leveled /\ Selects \subseteq Steady \cap Leveled
  BY DEF Bodies, Selects, Steady, Leveled
<1>2. \A m \in Bodies : Holders(m) \subseteq {"body", "caption", "td", "th"}
  BY DEF Bodies, Holders, Cells
<1>3. {"body", "caption", "td", "th"} \subseteq Scope \cup {"body"}
  BY DEF Scope, Cells
<1>4. {"body", "caption", "td", "th"} \subseteq is_special
  BY DEF is_special, Cells, Columns
<1>5. {"body", "caption", "td", "th"} = Parents("table") /\ Parents("table") = Parents("select")
  <2>1. Parents("table") = {"body", "caption"} \cup Cells
    BY DEF Parents, Sections, Cells
  <2>2. Parents("select") = {"body", "caption"} \cup Cells
    BY DEF Parents, Sections, Cells
  <2> QED BY <2>1, <2>2 DEF Cells
<1>6. \A m \in Bodies \cup Selects : m \notin Remembering
  BY DEF Bodies, Selects, Remembering
<1> QED BY <1>1, <1>2, <1>3, <1>4, <1>5, <1>6

\* No element of the frame may be left out.
LEMMA ImpliedFramed == ImpliedEnd \cap Framed = {}
BY DEF ImpliedEnd, Framed, Resetting, Cells, Sections

\* Generating implied end tags closes some of the last elements.
LEMMA ImpliedIs ==
    ASSUME NEW s, Sane(s), NEW except, NEW k \in 1 .. Len(s.open),
           s.open[k].name \notin ImpliedEnd \ except
    PROVE  \E n \in k .. Len(s.open) :
               /\ CutTo(s, generate_implied_end_tags(s, except), n)
               /\ \A j \in n + 1 .. Len(s.open) : s.open[j].name \notin Framed
<1> DEFINE I == {n \in DOMAIN s.open : s.open[n].name \notin ImpliedEnd \ except}
<1>1. PICK i : i = Max({0} \cup I)
  OBVIOUS
<1>2. s.open \in Seq(Elements) /\ Len(s.open) \in Nat /\ DOMAIN s.open = 1 .. Len(s.open)
  BY SaneIs
<1>3. I \in SUBSET (1 .. Len(s.open)) /\ k \in I
  BY <1>2
<1>4. generate_implied_end_tags(s, except) =
          IF i = 0 THEN Fail(Shrunk(s, 0), "null") ELSE Shrunk(s, i)
  BY <1>1 DEF generate_implied_end_tags
<1>5. \A j \in 1 .. Len(s.open) : j \notin I => s.open[j].name \notin Framed
  BY <1>2, ImpliedFramed
<1> HIDE DEF I
<1>6. i \in 0 .. Len(s.open) /\ (\A m \in 1 .. Len(s.open) : m > i => m \notin I)
  BY <1>1, <1>2, <1>3, LastOf
<1>7. i \in k .. Len(s.open) /\ generate_implied_end_tags(s, except) = Shrunk(s, i)
  BY <1>2, <1>3, <1>4, <1>6
<1>8. CutTo(s, generate_implied_end_tags(s, except), i)
  BY <1>6, <1>7, ShrunkIs
<1>9. \A j \in i + 1 .. Len(s.open) : s.open[j].name \notin Framed
  <2>1. ASSUME NEW j \in i + 1 .. Len(s.open) PROVE s.open[j].name \notin Framed
    <3>1. j \in 1 .. Len(s.open) /\ j > i
      BY <1>2, <1>6
    <3> QED BY <3>1, <1>5, <1>6
  <2> QED BY <2>1
<1> QED BY <1>7, <1>8, <1>9

\* A failure stays one.
LEMMA ImpliedFails ==
    ASSUME NEW s, Sane(s), s.failure # "none", NEW except
    PROVE  generate_implied_end_tags(s, except).failure = s.failure
<1>1. PICK i : i = Max({0} \cup {n \in DOMAIN s.open : s.open[n].name \notin ImpliedEnd \ except})
  OBVIOUS
<1>2. generate_implied_end_tags(s, except) =
          IF i = 0 THEN Fail(Shrunk(s, 0), "null") ELSE Shrunk(s, i)
  BY <1>1 DEF generate_implied_end_tags
<1>3. \A n : Shrunk(s, n).failure = s.failure
  <2>1. s \in Trees
    BY SaneIs
  <2> QED BY <2>1 DEF Shrunk, Trees
<1>4. Fail(Shrunk(s, 0), "null").failure = s.failure
  <2>1. PICK u : u = Shrunk(s, 0)
    OBVIOUS
  <2>2. u \in Trees /\ u.failure = s.failure
    <3>1. 0 \in 0 .. Len(s.open)
      BY SaneIs
    <3> QED BY <3>1, <2>1, <1>3, ShrunkSane, SaneIs
  <2>3. Fail(u, "null").failure = u.failure
    BY <2>2, FailIs, FailuresHave
  <2> QED BY <2>1, <2>2, <2>3
<1> QED BY <1>2, <1>3, <1>4

\* So the mode stays.
LEMMA ImpliedFits ==
    ASSUME NEW m \in Steady, NEW s, Fits(m, s), NEW except
    PROVE  Fits(m, generate_implied_end_tags(s, except))
<1>1. PICK r : r = generate_implied_end_tags(s, except)
  OBVIOUS
<1>2. Sane(s) /\ Sane(r)
  BY <1>1, ImpliedSane DEF Fits
<1>3. CASE s.failure = "none"
  <2>1. HtmlFirst(s.open)
    BY <1>3, StandingSteady DEF Fits, Stands
  <2>2. PICK k : k = 1
    OBVIOUS
  <2>3. s.open \in Seq(Elements) /\ Len(s.open) \in Nat
    BY <1>2, SaneIs
  <2>4. k \in 1 .. Len(s.open) /\ s.open[k].name \notin ImpliedEnd \ except
    BY <2>1, <2>2, <2>3, ImpliedFramed DEF HtmlFirst, Framed
  <2>5. PICK n \in k .. Len(s.open) :
            CutTo(s, r, n) /\ \A j \in n + 1 .. Len(s.open) : s.open[j].name \notin Framed
    BY <1>1, <1>2, <2>4, ImpliedIs
  <2> QED BY <1>1, <2>5, CutFits
<1>4. CASE s.failure # "none"
  <2>1. s.failure \in Lawful
    BY <1>4 DEF Fits, Stands
  <2> QED BY <2>1, <1>1, <1>2, <1>4, ImpliedFails, FailedFits
<1> QED BY <1>3, <1>4

\* What an end tag that closes through its element leaves.
LEMMA EndThroughIs ==
    ASSUME NEW s, Sane(s), NEW names, NEW implied, names \cap (ImpliedEnd \ implied) = {},
           NEW i, i = LastNamed(s, names), i > 0
    PROVE  CutTo(s, EndThrough(s, names, implied), i - 1)
<1>1. s.open \in Seq(Elements) /\ Len(s.open) \in Nat
  BY SaneIs
<1>2. /\ i \in 1 .. Len(s.open) /\ s.open[i].name \in names
      /\ \A k \in i + 1 .. Len(s.open) : s.open[k].name \notin names
  BY <1>1, LastNamedSane
<1>3. PICK g : g = generate_implied_end_tags(s, implied)
  OBVIOUS
<1>4. PICK n \in i .. Len(s.open) : CutTo(s, g, n)
  <2>1. s.open[i].name \notin ImpliedEnd \ implied
    BY <1>2
  <2> QED BY <2>1, <1>2, <1>3, ImpliedIs
<1>5. /\ Sane(g) /\ g.open \in Seq(Elements) /\ Len(g.open) = n
      /\ \A j \in 1 .. n : g.open[j] = s.open[j]
  BY <1>4 DEF CutTo
<1>6. PICK j : j = LastNamed(g, names)
  OBVIOUS
<1>7. /\ j \in 0 .. n /\ (j > 0 => g.open[j].name \in names)
      /\ \A k \in j + 1 .. n : g.open[k].name \notin names
  BY <1>5, <1>6, LastNamedSane
<1>8. j = i
  <2>1. g.open[i].name \in names /\ i \in 1 .. n
    BY <1>2, <1>4, <1>5
  <2>2. ~(j < i)
    BY <2>1, <1>4, <1>7
  <2>3. ~(j > i)
    <3>1. ASSUME j > i PROVE FALSE
      <4>1. j \in i + 1 .. Len(s.open) /\ s.open[j].name \in names
        BY <3>1, <1>2, <1>4, <1>5, <1>7
      <4> QED BY <4>1, <1>2
    <3> QED BY <3>1
  <2> QED BY <2>2, <2>3, <1>2, <1>4, <1>7
<1>9. PICK h : h = i - 1
  OBVIOUS
<1>10. EndThrough(s, names, implied) = Shrunk(g, h)
  BY <1>2, <1>3, <1>6, <1>8, <1>9 DEF EndThrough, PopThrough
<1>11. CutTo(g, Shrunk(g, h), h)
  <2>1. h \in 0 .. Len(g.open)
    BY <1>2, <1>4, <1>5, <1>9
  <2> QED BY <2>1, <1>5, ShrunkIs
<1>12. CutTo(s, Shrunk(g, h), h)
  BY <1>1, <1>4, <1>11, CutAgain
<1> QED BY <1>9, <1>10, <1>12

\* From an element on that is of no frame and has none of the scope above it.
LEMMA CutAbove ==
    ASSUME NEW m \in Bodies, NEW s, Fits(m, s), NEW i \in 1 .. Len(s.open),
           s.open[i].name \notin Framed, NEW scope, Holders(m) \subseteq scope \cup {"body"},
           \A k \in i + 1 .. Len(s.open) : s.open[k].name \notin scope,
           NEW r, CutTo(s, r, i - 1)
    PROVE  Fits(m, r)
<1>1. Sane(s) /\ s.open \in Seq(Elements) /\ Len(s.open) \in Nat
  BY SaneIs DEF Fits
<1>2. PICK n : n = i - 1
  OBVIOUS
<1>3. CutTo(s, r, n)
  BY <1>2
<1>4. ASSUME Standing(m, s.open)
      PROVE  \A k \in n + 1 .. Len(s.open) : s.open[k].name \notin Framed
  <2>1. Level(Holders(m), s.open)
    BY <1>4, BodiesAre, StandingSteady
  <2>2. Holders(m) \cap Resetting \subseteq scope \cup {"body"}
    OBVIOUS
  <2>3. \A k \in i .. Len(s.open) : s.open[k].name \notin Resetting
    BY <1>1, <2>1, <2>2, AboveFrame
  <2>4. \A k \in i .. Len(s.open) : s.open[k].name # "html"
    <3>1. i # 1 /\ HtmlFirst(s.open)
      BY <2>1 DEF Level, HtmlFirst, Framed
    <3> QED BY <3>1 DEF HtmlFirst
  <2>5. n + 1 = i
    BY <1>2
  <2> QED BY <2>3, <2>4, <2>5 DEF Framed
<1> QED BY <1>3, <1>4, BodiesAre, CutFits

\* An end tag in scope that is none of the frame closes none of it.
LEMMA EndThroughFits ==
    ASSUME NEW m \in Bodies, NEW s, Fits(m, s), NEW names, names \cap Framed = {},
           NEW implied, names \cap (ImpliedEnd \ implied) = {},
           NEW scope, Scope \subseteq scope, has_element_in_specific_scope(s, names, scope)
    PROVE  Fits(m, EndThrough(s, names, implied))
<1>1. Sane(s) /\ s.open \in Seq(Elements) /\ Len(s.open) \in Nat
  BY SaneIs DEF Fits
<1>2. PICK i : i = LastNamed(s, names \cup scope)
  OBVIOUS
<1>3. /\ i \in 1 .. Len(s.open) /\ s.open[i].name \in names
      /\ \A k \in i + 1 .. Len(s.open) : s.open[k].name \notin names \cup scope
  <2>1. /\ i \in 0 .. Len(s.open)
        /\ \A k \in i + 1 .. Len(s.open) : s.open[k].name \notin names \cup scope
    BY <1>1, <1>2, LastNamedSane
  <2>2. i > 0 /\ s.open[i].name \in names
    BY <1>2 DEF has_element_in_specific_scope
  <2> QED BY <2>1, <2>2
<1>4. PICK j : j = LastNamed(s, names)
  OBVIOUS
<1>5. j = i
  <2>1. /\ j \in 0 .. Len(s.open) /\ (j > 0 => s.open[j].name \in names)
        /\ \A k \in j + 1 .. Len(s.open) : s.open[k].name \notin names
    BY <1>1, <1>4, LastNamedSane
  <2>2. ~(j < i) /\ ~(j > i)
    BY <2>1, <1>3
  <2> QED BY <2>1, <2>2, <1>3
<1>6. CutTo(s, EndThrough(s, names, implied), i - 1)
  <2>1. i > 0 /\ i = LastNamed(s, names)
    BY <1>3, <1>4, <1>5
  <2> QED BY <2>1, <1>1, EndThroughIs
<1>7. Holders(m) \subseteq scope \cup {"body"}
  BY BodiesAre
<1> QED BY <1>3, <1>6, <1>7, CutAbove

-------------------------------------------------------------------------------
(* The formatting elements *)

\* No element of the list of active formatting elements is of the frame,
LEMMA ListableFramed == Listable \cap (Framed \cup Embedded) = {} /\ Listable \cap ImpliedEnd = {}
BY DEF Listable, FormattingNames, Framed, Resetting, Cells, Sections, Embedded, ImpliedEnd

\* and all those that are of it are special.
LEMMA SpecialFrame == Framed \subseteq is_special
BY DEF Framed, Resetting, is_special, Columns

\* An element that is not of the frame leaves the stack.
LEMMA RemoveOpenFits ==
    ASSUME NEW m \in Steady, NEW s, Fits(m, s), NEW e, e.name \notin Framed
    PROVE  Fits(m, remove_node_from_the_stack_of_open_elements(s, e))
<1>1. PICK i : i = Position(s.open, e)
  OBVIOUS
<1>2. PICK r : r = remove_node_from_the_stack_of_open_elements(s, e)
  OBVIOUS
<1>3. Sane(s) /\ Sane(r) /\ s \in Trees /\ s.open \in Seq(Elements) /\ Len(s.open) \in Nat
  BY <1>2, RemoveOpenSane, SaneIs DEF Fits
<1>4. CASE i = 0
  <2>1. r = s
    BY <1>1, <1>2, <1>4 DEF remove_node_from_the_stack_of_open_elements
  <2> QED BY <2>1, <1>2
<1>5. CASE i # 0
  <2>1. i \in 1 .. Len(s.open) /\ s.open[i] = e
    BY <1>1, <1>3, <1>5, PositionIs
  <2>2. PICK o : o = RemoveAt(s.open, i)
    OBVIOUS
  <2>3. r = [s EXCEPT !.open = o]
    BY <1>1, <1>2, <1>5, <2>2 DEF remove_node_from_the_stack_of_open_elements
  <2>4. r.open = o /\ r.mode = s.mode /\ r.form = s.form /\ r.failure = s.failure
    BY <2>3, <1>3 DEF Trees
  <2>5. Standing(m, s.open) => Standing(m, r.open)
    BY <2>1, <2>2, <2>4, <1>3, StandingRemoved
  <2> QED BY <2>4, <2>5, <1>2, <1>3, FitsOpen
<1> QED BY <1>4, <1>5

\* While there is a marker too many, there is one to clear the list up to.
LEMMA SlackMarked ==
    ASSUME NEW s, Sane(s), Slack(s), s.failure = "none"
    PROVE  LastMarker(s) # 0
<1>1. s.open \in Seq(Elements) /\ s.formatting \in Seq(Elements)
  BY SaneIs
<1>2. PICK i : i = LastMarker(s)
  OBVIOUS
<1>3. \A k \in i + 1 .. Len(s.formatting) : s.formatting[k] # Marker
  BY <1>1, <1>2, LastMarkerIs
<1>4. ASSUME i = 0 PROVE FALSE
  <2>1. At(s.formatting, {Marker}) = {}
    BY <1>1, <1>3, <1>4 DEF At
  <2>2. Markers(s.formatting) = 0
    BY <2>1, FS_EmptySet DEF Markers
  <2>3. Covers(s.open) \in Nat /\ Covers(s.open) + 1 <= Markers(s.formatting)
    BY <1>1, CoversIsNat DEF Slack
  <2> QED BY <2>2, <2>3
<1> QED BY <1>2, <1>4

\* So only the list is cut.
LEMMA ClearStays ==
    ASSUME NEW s, Sane(s), Slack(s),
           NEW r, r = clear_the_list_of_active_formatting_elements_up_to_the_last_marker(s)
    PROVE  /\ r.failure = s.failure /\ r.open = s.open
           /\ r.mode = s.mode /\ r.original = s.original /\ r.form = s.form
<1>1. s \in Trees
  BY SaneIs
<1>2. CASE LastMarker(s) # 0
  <2>1. PICK x : x = SubSeq(s.formatting, 1, LastMarker(s) - 1)
    OBVIOUS
  <2>2. r = [s EXCEPT !.formatting = x]
    BY <1>2, <2>1 DEF clear_the_list_of_active_formatting_elements_up_to_the_last_marker
  <2> QED BY <2>2, <1>1 DEF Trees
<1>3. CASE LastMarker(s) = 0
  <2>1. s.failure # "none"
    BY <1>3, SlackMarked
  <2>2. PICK u : u = [s EXCEPT !.formatting = <<>>]
    OBVIOUS
  <2>3. u.failure = s.failure /\ r = Fail(u, "no marker")
    BY <1>1, <1>3, <2>2
       DEF clear_the_list_of_active_formatting_elements_up_to_the_last_marker, Trees
  <2>4. r = [u EXCEPT !.failure = u.failure]
    BY <2>1, <2>3 DEF Fail
  <2> QED BY <2>2, <2>4, <1>1 DEF Trees
<1> QED BY <1>2, <1>3

\* What is done to the list of active formatting elements alone.
LEMMA ListStands ==
    ASSUME NEW m, NEW s \in Trees, Stands(m, s)
    PROVE  /\ \A x : Stands(m, [s EXCEPT !.formatting = x])
           /\ \A e : /\ Stands(m, remove_node_from_the_list_of_active_formatting_elements(s, e))
                     /\ Stands(m, push_onto_the_list_of_active_formatting_elements(s, e))
           /\ Stands(m, Marked(s))
           /\ Sane(s) /\ Slack(s) =>
                  Stands(m, clear_the_list_of_active_formatting_elements_up_to_the_last_marker(s))
<1>1. ASSUME NEW x PROVE Stands(m, [s EXCEPT !.formatting = x])
  <2>1. PICK r : r = [s EXCEPT !.formatting = x]
    OBVIOUS
  <2>2. r.open = s.open /\ r.mode = s.mode /\ r.form = s.form /\ r.failure = s.failure
    BY <2>1 DEF Trees
  <2> QED BY <2>1, <2>2 DEF Stands, FormNamed
<1>2. ASSUME NEW e
      PROVE  /\ Stands(m, remove_node_from_the_list_of_active_formatting_elements(s, e))
             /\ Stands(m, push_onto_the_list_of_active_formatting_elements(s, e))
  BY <1>1 DEF remove_node_from_the_list_of_active_formatting_elements,
              push_onto_the_list_of_active_formatting_elements
<1>3. Stands(m, Marked(s))
  BY <1>1 DEF Marked
<1>4. ASSUME Sane(s), Slack(s)
      PROVE  Stands(m, clear_the_list_of_active_formatting_elements_up_to_the_last_marker(s))
  <2>1. PICK r : r = clear_the_list_of_active_formatting_elements_up_to_the_last_marker(s)
    OBVIOUS
  <2>2. r.failure = s.failure /\ r.mode = s.mode /\ r.form = s.form /\ r.open = s.open
    BY <1>4, <2>1, ClearStays
  <2> QED BY <2>1, <2>2 DEF Stands, FormNamed
<1> QED BY <1>1, <1>2, <1>3, <1>4

\* An entry leaves the list.
LEMMA RemoveListedFits ==
    ASSUME NEW m, NEW s, Fits(m, s), NEW e, e # Marker
    PROVE  Fits(m, remove_node_from_the_list_of_active_formatting_elements(s, e))
BY RemoveListedSane, ListStands, SaneIs DEF Fits

\* Formatting elements are opened again
LEMMA ReconstructFits ==
    ASSUME NEW m \in Steady, NEW s, Fits(m, s)
    PROVE  Fits(m, reconstruct_the_active_formatting_elements(s))
<1> DEFINE I == {i \in DOMAIN s.formatting :
                    s.formatting[i] = Marker
                    \/ is_in_the_stack_of_open_elements(s, s.formatting[i])}
<1>1. /\ Sane(s) /\ s \in Trees /\ s.open \in Seq(Elements) /\ s.formatting \in Seq(Elements)
      /\ Len(s.open) \in Nat /\ Len(s.formatting) \in Nat /\ Lists(s.open, s.formatting)
      /\ DOMAIN s.formatting = 1 .. Len(s.formatting)
  BY SaneIs DEF Fits
<1>2. PICK from : from = Reopened(s)
  OBVIOUS
<1>3. I \in SUBSET (1 .. Len(s.formatting))
  BY <1>1
<1>4. from = Max({0} \cup I)
  BY <1>2 DEF Reopened
<1> HIDE DEF I
<1>5. from \in 0 .. Len(s.formatting) /\ \A k \in 1 .. Len(s.formatting) : k > from => k \notin I
  BY <1>1, <1>3, <1>4, LastOf
<1>6. ASSUME NEW k \in from + 1 .. Len(s.formatting)
      PROVE  s.formatting[k].name \in Names /\ s.formatting[k].name \in Listable
  <2>1. k \in 1 .. Len(s.formatting) /\ k \notin I
    BY <1>1, <1>5
  <2>2. s.formatting[k] # Marker /\ s.formatting[k] \in Elements
    BY <2>1, <1>1 DEF I
  <2> QED BY <2>1, <2>2, <1>1 DEF Lists, Kinds, Elements
<1>7. PICK n : n = Len(s.formatting) - from
  OBVIOUS
<1>8. n \in Nat /\ \A i \in 1 .. n : from + i \in from + 1 .. Len(s.formatting)
  BY <1>1, <1>5, <1>7
<1>9. PICK new : new = [i \in 1 .. n |-> [name |-> s.formatting[from + i].name,
                                          id   |-> Unused(s, i)]]
  OBVIOUS
<1>10. ASSUME NEW i \in 1 .. n PROVE new[i] \in Elements /\ new[i].name \notin Framed
  <2>1. PICK name : name = s.formatting[from + i].name
    OBVIOUS
  <2>2. name \in Names /\ name \in Listable
    BY <2>1, <1>6, <1>8
  <2>3. PICK e : e = [name |-> name, id |-> Unused(s, i)]
    OBVIOUS
  <2>4. new[i] = e
    BY <2>1, <2>3, <1>9
  <2>5. i \in Nat /\ i > 0
    OBVIOUS
  <2>6. e \in Elements /\ e.name = name
    BY <2>2, <2>3, <2>5, <1>1, CreatedIs
  <2> QED BY <2>2, <2>4, <2>6, ListableFramed
<1>11. new \in Seq(Elements) /\ Len(new) = n
  <2>1. new \in [1 .. n -> Elements]
    BY <1>9, <1>10
  <2> QED BY <2>1, <1>8, SequenceOf
<1>12. PICK r : r = reconstruct_the_active_formatting_elements(s)
  OBVIOUS
<1>13. Sane(r)
  BY <1>1, <1>12, ReconstructSane
<1>14. PICK w : w = Write(s)
  OBVIOUS
<1>15. /\ w \in Trees /\ w.open = s.open /\ w.mode = s.mode /\ w.form = s.form
       /\ w.failure = s.failure
  <2>1. Sane(w) /\ w.open = s.open
    BY <1>1, <1>14, WriteSane
  <2>2. Planted(s)
    BY FitsPlanted DEF Steady, Leveled
  <2> QED BY <2>1, <2>2, <1>1, <1>14, WriteStays, SaneIs
<1>16. r = IF new = <<>> THEN s
           ELSE [w EXCEPT !.open = w.open \o new,
                          !.formatting = SubSeq(w.formatting, 1, from) \o new]
  BY <1>2, <1>7, <1>9, <1>12, <1>14 DEF reconstruct_the_active_formatting_elements
<1>17. CASE new = <<>>
  BY <1>12, <1>16, <1>17
<1>18. CASE new # <<>>
  <2>1. r.open = s.open \o new /\ r.mode = s.mode /\ r.form = s.form /\ r.failure = w.failure
    BY <1>15, <1>16, <1>18 DEF Trees
  <2>2. Standing(m, s.open) => Standing(m, r.open)
    BY <2>1, <1>1, <1>10, <1>11, StandingMore
  <2> QED BY <2>1, <2>2, <1>12, <1>13, <1>15, FitsOpen
<1> QED BY <1>17, <1>18

\* or newly listed.
LEMMA InsertFormattingFits ==
    ASSUME NEW m \in Steady, NEW s, Fits(m, s), NEW name \in Names, name \in Listable
    PROVE  Fits(m, InsertFormatting(s, name))
<1>1. Sane(s) /\ Sane(InsertFormatting(s, name)) /\ name \notin Framed
  BY InsertFormattingSane, ListableFramed DEF Fits
<1>2. PICK r : r = insert_an_HTML_element(s, name)
  OBVIOUS
<1>3. Stands(m, r) /\ r \in Trees
  BY <1>1, <1>2, InsertStands, InsertedIs DEF Whole
<1>4. Stands(m, push_onto_the_list_of_active_formatting_elements(r, Last(r.open)))
  BY <1>3, ListStands
<1> QED BY <1>1, <1>2, <1>4 DEF Fits, InsertFormatting

\* Any other end tag, if it is none that the mode ends with.
LEMMA AnyOtherEndFits ==
    ASSUME NEW m \in Bodies, NEW s, Fits(m, s), NEW t, t.name \notin Holders(m) \cup {"html"}
    PROVE  Fits(m, any_other_end_tag_in_body(s, t))
<1>1. PICK i : i = LastNamed(s, {t.name} \cup is_special)
  OBVIOUS
<1>2. Sane(s) /\ s.open \in Seq(Elements) /\ Len(s.open) \in Nat
  BY SaneIs DEF Fits
<1>3. /\ i \in 0 .. Len(s.open)
      /\ \A k \in i + 1 .. Len(s.open) : s.open[k].name \notin {t.name} \cup is_special
  BY <1>1, <1>2, LastNamedSane
<1>4. any_other_end_tag_in_body(s, t) =
          IF i = 0 THEN Fail(s, "range")
          ELSE IF s.open[i].name = t.name
               THEN Shrunk(generate_implied_end_tags(s, {t.name}), i - 1)
               ELSE Ignored(s)
  BY <1>1 DEF any_other_end_tag_in_body
<1>5. CASE i = 0
  <2>1. ASSUME s.failure = "none" PROVE FALSE
    <3>1. HtmlFirst(s.open)
      BY <2>1, BodiesAre, StandingSteady DEF Fits, Stands
    <3>2. PICK k : k = 1
      OBVIOUS
    <3>3. k \in i + 1 .. Len(s.open) /\ s.open[k].name \in is_special
      BY <3>1, <3>2, <1>2, <1>5, SpecialFrame DEF HtmlFirst, Framed
    <3> QED BY <3>3, <1>3
  <2>2. Fits(m, Fail(s, "range"))
    BY <2>1, FailFits, FailuresHave
  <2>3. any_other_end_tag_in_body(s, t) = Fail(s, "range")
    BY <1>4, <1>5
  <2> QED BY <2>2, <2>3
<1>6. CASE i # 0 /\ s.open[i].name = t.name
  <2>1. i \in 1 .. Len(s.open) /\ s.open[i].name \notin ImpliedEnd \ {t.name}
    BY <1>3, <1>6
  <2>2. PICK g : g = generate_implied_end_tags(s, {t.name})
    OBVIOUS
  <2>3. PICK n \in i .. Len(s.open) : CutTo(s, g, n)
    BY <2>1, <2>2, <1>2, ImpliedIs
  <2>4. PICK h : h = i - 1
    OBVIOUS
  <2>5. CutTo(s, Shrunk(g, h), h)
    <3>1. Sane(g) /\ h \in 0 .. Len(g.open)
      BY <2>1, <2>3, <2>4 DEF CutTo
    <3> QED BY <3>1, <2>3, <1>2, ShrunkIs, CutAgain
  <2>6. any_other_end_tag_in_body(s, t) = Shrunk(g, h) /\ h + 1 = i
    BY <2>1, <2>2, <2>4, <1>4, <1>6
  <2>7. ASSUME s.failure = "none", Standing(m, s.open)
        PROVE  \A k \in h + 1 .. Len(s.open) : s.open[k].name \notin Framed
    <3>1. Level(Holders(m), s.open)
      BY <2>7, BodiesAre, StandingSteady
    <3>2. \A k \in i + 1 .. Len(s.open) : s.open[k].name \notin Framed
      BY <1>3, SpecialFrame
    <3>3. s.open[i].name \notin Framed
      <4>1. ASSUME t.name \in Resetting PROVE FALSE
        <5>1. PICK k \in 2 .. Len(s.open) :
                  /\ s.open[k].name \in Holders(m) \cap Resetting
                  /\ \A q \in k + 1 .. Len(s.open) : s.open[q].name \notin Resetting
          BY <3>1 DEF Level, Within
        <5>2. k = i
          BY <5>1, <4>1, <3>2, <2>1, <1>2, <1>6 DEF Framed
        <5> QED BY <5>1, <5>2, <1>6
      <4> QED BY <4>1, <1>6 DEF Framed
    <3> QED BY <3>2, <3>3, <2>1, <2>6
  <2>8. PICK r : r = any_other_end_tag_in_body(s, t)
    OBVIOUS
  <2>9. CutTo(s, r, h) /\ m \in Steady
    BY <2>5, <2>6, <2>8, BodiesAre
  <2>10. Fits(m, r)
    BY <2>7, <2>9, CutFits
  <2> QED BY <2>8, <2>10
<1>7. CASE i # 0 /\ s.open[i].name # t.name
  <2>1. any_other_end_tag_in_body(s, t) = Ignored(s)
    BY <1>4, <1>7
  <2>2. Fits(m, Ignored(s))
    BY AgainFits
  <2> QED BY <2>1, <2>2
<1> QED BY <1>5, <1>6, <1>7

\* The stack after a round that does not end the adoption agency algorithm: an element
\* that is not of the frame is removed or renewed, and one is put in another place.
LEMMA LevelMoved ==
    ASSUME NEW names, NEW open \in Seq(Elements), Level(names, open),
           NEW j \in 1 .. Len(open), NEW i \in 1 .. j - 1,
           open[i].name \notin Framed, open[j - 1].name \notin Framed,
           NEW u, \/ u = open
                  \/ u = RemoveAt(open, j - 1) /\ i # j - 1
                  \/ /\ u \in Seq(Elements) /\ Len(u) = Len(open)
                     /\ \A k \in 1 .. Len(open) : u[k].name = open[k].name,
           NEW e \in Elements, e.name \notin Framed,
           NEW o, o = RemoveAt(u, i), NEW r, r = InsertAt(o, Len(o) - (Len(open) - j) + 1, e)
    PROVE  Level(names, r)
<1>1. Len(open) \in Nat /\ i \in 1 .. Len(open) /\ j - 1 \in 1 .. Len(open)
  OBVIOUS
<1>2. i >= 3
  <2>1. i # 1 /\ i # 2
    BY DEF Level, HtmlFirst, Tower, Framed, Resetting
  <2> QED BY <2>1
<1>3. PICK p : p = Len(o) - (Len(open) - j) + 1
  OBVIOUS
<1>4. PICK q : q = j - 1
  OBVIOUS
<1>5. ASSUME u \in Seq(Elements), Level(names, u), i \in 1 .. Len(u), u[i].name \notin Framed,
             Len(u) - 1 - (Len(open) - j) + 1 \in 3 .. Len(u)
      PROVE  Level(names, r)
  <2>1. o \in Seq(Elements) /\ Len(o) = Len(u) - 1
    BY <1>5, RemoveAtIs
  <2>2. Level(names, o)
    BY <1>5, LevelRemoved
  <2>3. p \in 3 .. Len(o) + 1
    BY <2>1, <1>5, <1>3
  <2> QED BY <2>1, <2>2, <2>3, <1>3, LevelInserted
<1>6. CASE u = open
  <2>1. Len(u) - 1 - (Len(open) - j) + 1 = j /\ j \in 3 .. Len(u)
    BY <1>1, <1>2, <1>6
  <2> QED BY <2>1, <1>1, <1>5, <1>6
<1>7. CASE u = RemoveAt(open, j - 1) /\ i # j - 1
  <2>1. q \in 1 .. Len(open) /\ u = RemoveAt(open, q) /\ open[q].name \notin Framed /\ i < q
    BY <1>1, <1>4, <1>7
  <2>2. /\ u \in Seq(Elements) /\ Len(u) = Len(open) - 1
        /\ \A k \in 1 .. Len(u) : u[k] = IF k < q THEN open[k] ELSE open[k + 1]
    <3>1. q \in 1 .. Len(open) /\ u = RemoveAt(open, q)
      BY <2>1
    <3> QED BY <3>1, RemoveAtIs
  <2>3. Level(names, u)
    BY <2>1, LevelRemoved
  <2>4. i \in 1 .. Len(u) /\ u[i] = open[i]
    BY <2>1, <2>2, <1>1
  <2>5. Len(u) - 1 - (Len(open) - j) + 1 = q /\ q \in 3 .. Len(u)
    BY <2>1, <2>2, <1>1, <1>2, <1>4
  <2> QED BY <2>2, <2>3, <2>4, <2>5, <1>5
<1>8. CASE /\ u \in Seq(Elements) /\ Len(u) = Len(open)
           /\ \A k \in 1 .. Len(open) : u[k].name = open[k].name
  <2>1. Level(names, u)
    BY <1>8, LevelRenamed
  <2>2. Len(u) - 1 - (Len(open) - j) + 1 = j /\ j \in 3 .. Len(u)
    BY <1>1, <1>2, <1>8
  <2> QED BY <2>1, <2>2, <1>1, <1>5, <1>8
<1> QED BY <1>6, <1>7, <1>8

\* A round of the adoption agency algorithm that finds a furthest block,
LEMMA AdoptedStands ==
    ASSUME NEW m \in Bodies, NEW s, Fits(m, s), NEW k \in 1 .. Len(s.formatting),
           NEW j \in 1 .. Len(s.open), NEW i \in 1 .. j - 1,
           s.open[i] = s.formatting[k], s.formatting[k].name \in Listable,
           \A n \in i + 1 .. j - 1 : s.open[n].name \notin is_special
    PROVE  Stands(m, Adopted(s, k, i, j))
<1>1. /\ Sane(s) /\ s \in Trees /\ s.open \in Seq(Elements) /\ s.formatting \in Seq(Elements)
      /\ Len(s.open) \in Nat /\ Len(s.formatting) \in Nat
  BY SaneIs DEF Fits
<1>2. PICK above : above = s.open[j - 1]
  OBVIOUS
<1>3. PICK listed : listed = Position(s.formatting, above)
  OBVIOUS
<1>4. PICK clone : clone = create_an_element_for_a_token(s, above.name)
  OBVIOUS
<1>5. PICK u : u = IF listed = 0
                   THEN [s EXCEPT !.open = RemoveAt(s.open, j - 1)]
                   ELSE IF above = s.formatting[k] THEN s
                   ELSE [s EXCEPT !.open[j - 1] = clone, !.formatting[listed] = clone]
  OBVIOUS
<1>6. PICK mark : mark = IF listed = 0 \/ above = s.formatting[k] THEN k - 1 ELSE listed
  OBVIOUS
<1>7. PICK x : x = IF mark < k THEN mark + 1 ELSE mark
  OBVIOUS
<1>8. PICK e : e = create_an_element_for_a_token(u, s.formatting[k].name)
  OBVIOUS
<1>9. PICK o : o = RemoveAt(u.open, i)
  OBVIOUS
<1>10. PICK r : r = [u EXCEPT !.formatting = InsertAt(RemoveAt(u.formatting, k), x, e),
                              !.open = InsertAt(o, Len(o) - (Len(s.open) - j) + 1, e)]
  OBVIOUS
<1>11. Adopted(s, k, i, j) = r
  BY <1>2, <1>3, <1>4, <1>5, <1>6, <1>7, <1>8, <1>9, <1>10 DEF Adopted
<1>12. /\ j - 1 \in 1 .. Len(s.open) /\ above \in Elements /\ above.name \in Names
       /\ s.formatting[k] \in Elements /\ s.formatting[k].name \in Names
  <2>1. j - 1 \in 1 .. Len(s.open)
    BY <1>1
  <2>2. above \in Elements /\ s.formatting[k] \in Elements
    BY <2>1, <1>1, <1>2
  <2> QED BY <2>1, <2>2 DEF Elements
<1>13. listed \in 0 .. Len(s.formatting) /\ (above = s.formatting[k] => listed # 0)
  BY <1>1, <1>3, PositionIs
<1>14. clone \in Elements /\ clone.name = above.name
  BY <1>1, <1>4, <1>12, CreateIs
<1>15. /\ u \in Trees /\ u.mode = s.mode /\ u.form = s.form /\ u.failure = s.failure
       /\ \/ u.open = s.open
          \/ u.open = RemoveAt(s.open, j - 1) /\ i # j - 1
          \/ /\ u.open \in Seq(Elements) /\ Len(u.open) = Len(s.open)
             /\ \A n \in 1 .. Len(s.open) : u.open[n].name = s.open[n].name
  <2>1. CASE listed = 0
    <3>1. PICK rest : rest = RemoveAt(s.open, j - 1)
      OBVIOUS
    <3>2. rest \in Seq(Elements)
      BY <3>1, <1>1, <1>12, RemoveAtIs
    <3>3. u = [s EXCEPT !.open = rest]
      BY <3>1, <2>1, <1>5
    <3>4. /\ u \in Trees /\ u.open = rest /\ u.mode = s.mode /\ u.form = s.form
          /\ u.failure = s.failure
      BY <3>2, <3>3, <1>1 DEF Trees
    <3>5. i # j - 1
      BY <2>1, <1>2, <1>13
    <3> QED BY <3>1, <3>4, <3>5
  <2>2. CASE listed # 0 /\ above = s.formatting[k]
    BY <2>2, <1>1, <1>5
  <2>3. CASE listed # 0 /\ above # s.formatting[k]
    <3>1. PICK y : y = [s.open EXCEPT ![j - 1] = clone]
      OBVIOUS
    <3>2. PICK z : z = [s.formatting EXCEPT ![listed] = clone]
      OBVIOUS
    <3>3. /\ y \in Seq(Elements) /\ Len(y) = Len(s.open)
          /\ \A n \in 1 .. Len(s.open) : y[n].name = s.open[n].name
      <4>1. y \in Seq(Elements) /\ Len(y) = Len(s.open)
        BY <3>1, <1>1, <1>14, ExceptSeq
      <4>2. ASSUME NEW n \in 1 .. Len(s.open) PROVE y[n].name = s.open[n].name
        BY <3>1, <1>1, <1>2, <1>12, <1>14
      <4> QED BY <4>1, <4>2
    <3>4. z \in Seq(Elements)
      <4>1. listed \in 1 .. Len(s.formatting)
        BY <2>3, <1>1, <1>13
      <4> QED BY <4>1, <3>2, <1>1, <1>14, ExceptSeq
    <3>5. u = [s EXCEPT !.open = y, !.formatting = z]
      BY <3>1, <3>2, <2>3, <1>5
    <3>6. /\ u \in Trees /\ u.open = y /\ u.mode = s.mode /\ u.form = s.form
          /\ u.failure = s.failure
      BY <3>3, <3>4, <3>5, <1>1 DEF Trees
    <3> QED BY <3>3, <3>6
  <2> QED BY <2>1, <2>2, <2>3
<1>16. e \in Elements /\ e.name = s.formatting[k].name
  BY <1>8, <1>12, <1>15, CreateIs
<1>17. PICK open : open = InsertAt(o, Len(o) - (Len(s.open) - j) + 1, e)
  OBVIOUS
<1>18. r.open = open /\ r.mode = s.mode /\ r.form = s.form /\ r.failure = s.failure
  BY <1>10, <1>15, <1>17 DEF Trees
<1>19. ASSUME Standing(m, s.open) PROVE Standing(m, open)
  <2>1. Level(Holders(m), s.open)
    BY <1>19, BodiesAre, StandingSteady
  <2>2. s.open[i].name \notin Framed /\ e.name \notin Framed
    BY <1>16, ListableFramed
  <2>3. s.open[j - 1].name \notin Framed
    <3>1. CASE i = j - 1
      BY <3>1, <2>2
    <3>2. CASE i # j - 1
      <4>1. j - 1 \in i + 1 .. j - 1
        BY <3>2, <1>1
      <4> QED BY <4>1, SpecialFrame
    <3> QED BY <3>1, <3>2
  <2>4. PICK w : w = u.open
    OBVIOUS
  <2>5. Level(Holders(m), open)
    <3>1. /\ \/ w = s.open
             \/ w = RemoveAt(s.open, j - 1) /\ i # j - 1
             \/ /\ w \in Seq(Elements) /\ Len(w) = Len(s.open)
                /\ \A n \in 1 .. Len(s.open) : w[n].name = s.open[n].name
          /\ o = RemoveAt(w, i)
      BY <2>4, <1>9, <1>15
    <3> QED BY <3>1, <2>1, <2>2, <2>3, <1>1, <1>16, <1>17, LevelMoved
  <2> QED BY <2>5, BodiesAre, StandingSteady DEF Level
<1> QED BY <1>11, <1>18, <1>19 DEF Fits, Stands, FormNamed

\* any round,
LEMMA RoundStands ==
    ASSUME NEW m \in Bodies, NEW s, Fits(m, s), NEW t, t.name \in Listable
    PROVE  Stands(m, Round(s, t).tree)
<1>1. PICK named : named = {k \in SinceMarker(s) : s.formatting[k].name = t.name}
  OBVIOUS
<1>2. PICK k : k = Max(named)
  OBVIOUS
<1>3. PICK i : i = Position(s.open, s.formatting[k])
  OBVIOUS
<1>4. PICK blocks : blocks = {n \in i + 1 .. Len(s.open) : s.open[n].name \in is_special}
  OBVIOUS
<1>5. PICK forget : forget = [s EXCEPT !.formatting = RemoveAt(s.formatting, k)]
  OBVIOUS
<1>6. PICK j : j = Min(blocks)
  OBVIOUS
<1>7. PICK r : r = Round(s, t)
  OBVIOUS
<1>8. r = IF named = {} THEN [tree |-> any_other_end_tag_in_body(s, t), more |-> FALSE]
          ELSE IF i = 0 THEN [tree |-> forget, more |-> FALSE]
          ELSE IF ~has_element_in_scope(s, {s.formatting[k].name})
               THEN [tree |-> Ignored(s), more |-> FALSE]
          ELSE IF blocks = {} THEN [tree |-> Shrunk(forget, i - 1), more |-> FALSE]
          ELSE IF k = 1 THEN [tree |-> Fail(s, "bookmark"), more |-> FALSE]
          ELSE [tree |-> Adopted(s, k, i, j), more |-> TRUE]
  BY <1>1, <1>2, <1>3, <1>4, <1>5, <1>6, <1>7 DEF Round
<1>9. /\ Sane(s) /\ s \in Trees /\ s.open \in Seq(Elements) /\ s.formatting \in Seq(Elements)
      /\ Len(s.open) \in Nat /\ Len(s.formatting) \in Nat
  BY SaneIs DEF Fits
<1>10. CASE named = {}
  <2>1. r.tree = any_other_end_tag_in_body(s, t)
    BY <1>8, <1>10
  <2>2. t.name \notin Holders(m) \cup {"html"}
    BY BodiesAre, HoldersAre, ListableFramed DEF Framed
  <2> QED BY <2>1, <2>2, <1>7, AnyOtherEndFits DEF Fits
<1>11. CASE named # {}
  <2>1. \A q : q \in SinceMarker(s) <=> q \in 1 .. Len(s.formatting) /\ Latest(s.formatting, q)
    BY <1>9, SinceMarkerIs
  <2>2. named \in SUBSET (0 .. Len(s.formatting))
    BY <2>1, <1>1
  <2>3. k \in named
    BY <2>2, <1>2, <1>9, <1>11, Greatest
  <2>4. /\ k \in 1 .. Len(s.formatting) /\ Latest(s.formatting, k)
        /\ s.formatting[k].name = t.name
    BY <2>1, <2>3, <1>1
  <2>5. Fits(m, forget) /\ forget.open = s.open
    <3>1. Sane(forget) /\ forget.open = s.open
      BY <2>4, <1>5, <1>9, ForgetSane DEF Latest
    <3>2. Stands(m, forget)
      BY <1>5, <1>9, ListStands DEF Fits
    <3> QED BY <3>1, <3>2 DEF Fits
  <2>6. i \in 0 .. Len(s.open) /\ (i > 0 => s.open[i] = s.formatting[k])
    BY <1>3, <1>9, PositionIs
  <2>7. CASE i = 0
    <3>1. r.tree = forget
      BY <1>8, <1>11, <2>7
    <3> QED BY <3>1, <2>5, <1>7 DEF Fits
  <2>8. CASE i # 0 /\ ~has_element_in_scope(s, {s.formatting[k].name})
    <3>1. r.tree = Ignored(s)
      BY <1>8, <1>11, <2>8
    <3>2. Fits(m, Ignored(s))
      BY AgainFits
    <3> QED BY <3>1, <3>2, <1>7 DEF Fits
  <2>9. CASE i # 0 /\ has_element_in_scope(s, {s.formatting[k].name}) /\ blocks = {}
    <3>1. r.tree = Shrunk(forget, i - 1)
      BY <1>8, <1>11, <2>9
    <3>2. /\ i \in 1 .. Len(forget.open) /\ forget.open[i].name \notin Framed
          /\ \A n \in i + 1 .. Len(forget.open) : forget.open[n].name \notin is_special
      BY <2>4, <2>5, <2>6, <2>9, <1>4, <1>9, ListableFramed
    <3>3. PICK h : h = i - 1
      OBVIOUS
    <3>4. CutTo(forget, Shrunk(forget, h), h)
      <4>1. h \in 0 .. Len(forget.open)
        BY <3>2, <3>3, <2>5, <1>9
      <4> QED BY <4>1, <2>5, ShrunkIs DEF Fits
    <3>5. CutTo(forget, Shrunk(forget, h), i - 1)
      BY <3>3, <3>4
    <3>6. Holders(m) \subseteq is_special \cup {"body"}
      BY BodiesAre
    <3>7. Fits(m, Shrunk(forget, h))
      BY <3>2, <3>5, <3>6, <2>5, CutAbove
    <3> QED BY <3>1, <3>3, <3>7, <1>7 DEF Fits
  <2>10. CASE i # 0 /\ has_element_in_scope(s, {s.formatting[k].name}) /\ blocks # {} /\ k = 1
    <3>1. r.tree = Fail(s, "bookmark")
      BY <1>8, <1>11, <2>10
    <3>2. Fits(m, Fail(s, "bookmark"))
      <4>1. PICK why : why = "bookmark"
        OBVIOUS
      <4>2. why \in Lawful
        BY <4>1 DEF Lawful
      <4>3. Fits(m, Fail(s, why))
        BY <4>2, FailFits
      <4> QED BY <4>1, <4>3
    <3> QED BY <3>1, <3>2, <1>7 DEF Fits
  <2>11. CASE i # 0 /\ has_element_in_scope(s, {s.formatting[k].name}) /\ blocks # {} /\ k # 1
    <3>1. r.tree = Adopted(s, k, i, j)
      BY <1>8, <1>11, <2>11
    <3>2. i \in 1 .. Len(s.open) /\ s.open[i] = s.formatting[k]
      BY <2>6, <2>11, <1>9
    <3>3. blocks \in SUBSET Nat
      BY <3>2, <1>4, <1>9
    <3>4. j \in blocks /\ \A n \in blocks : j <= n
      BY <3>3, <2>11, <1>6, Least
    <3>5. j \in i + 1 .. Len(s.open)
      BY <3>4, <1>4
    <3>6. j \in 1 .. Len(s.open) /\ i \in 1 .. j - 1
      BY <3>2, <3>5, <1>9
    <3>7. ASSUME NEW n \in i + 1 .. j - 1 PROVE s.open[n].name \notin is_special
      <4>1. n \in i + 1 .. Len(s.open) /\ ~(j <= n)
        BY <3>5, <3>2, <1>9
      <4> QED BY <4>1, <3>4, <1>4
    <3>8. Stands(m, Adopted(s, k, i, j))
      BY <3>2, <3>6, <3>7, <2>4, AdoptedStands
    <3> QED BY <3>1, <3>8, <1>7
  <2> QED BY <2>7, <2>8, <2>9, <2>10, <2>11
<1> QED BY <1>10, <1>11

\* and all of them.
LEMMA AdoptionFits ==
    ASSUME NEW m \in Bodies, NEW s, Fits(m, s), NEW t, t.name \in Listable
    PROVE  Fits(m, adoption_agency_algorithm(s, t))
<1>1. ASSUME NEW r, Fits(m, r.tree) PROVE Fits(m, OneRound(r, t).tree)
  BY <1>1, RoundSane, RoundStands DEF OneRound, Fits
<1>2. ASSUME NEW r, Fits(m, r.tree) PROVE Fits(m, TwoRounds(r, t).tree)
  BY <1>1, <1>2 DEF TwoRounds
<1>3. ASSUME NEW r, Fits(m, r.tree) PROVE Fits(m, FourRounds(r, t).tree)
  BY <1>2, <1>3 DEF FourRounds
<1>4. PICK r : r = [tree |-> s, more |-> TRUE]
  OBVIOUS
<1>5. Fits(m, r.tree)
  BY <1>4
<1>6. Fits(m, FourRounds(r, t).tree)
  BY <1>3, <1>5
<1>7. Fits(m, FourRounds(FourRounds(r, t), t).tree)
  BY <1>3, <1>6
<1> QED BY <1>4, <1>7 DEF adoption_agency_algorithm

-------------------------------------------------------------------------------
(* The shape of the stack in each mode *)

\* The modes in which no element is open yet
Rootless == {"initial", "before_html"}

\* The stack as it should be in the mode, or in the one that is remembered; in text the
\* element that the text belongs to is open on top of it.
Shape(s) ==
    IF s.failure = "none"
    THEN /\ FormNamed(s)
         /\ s.mode \in Remembering => s.original \notin Rootless
         /\ s.mode = "text" =>
                /\ s.open # <<>> /\ s.open[Len(s.open)].name \notin Framed
                /\ Standing(s.original, SubSeq(s.open, 1, Len(s.open) - 1))
         /\ s.mode = "in_table_text" => Standing(s.original, s.open)
         /\ s.mode \notin Remembering => Standing(s.mode, s.open)
    ELSE s.failure \in Lawful

\* The stack is as it should be in a mode that may not have been switched to yet.
Ready(m, s) ==
    IF s.failure = "none" THEN FormNamed(s) /\ Standing(m, s.open) ELSE s.failure \in Lawful

\* A token that does not end the document.
Plain(t) == t.type # "eof"

\* The tags that the rules make up and go on after: they leave the frame alone.
Inner(t) ==
    \/ IsEnd(t, {"p", "li", "a", "nobr", "form", "label", "option", "optgroup"})
    \/ IsStart(t, {"p", "hr", "form", "label"})

\* What the rules of a mode make of a token.
Yields(m, r, t) == Shape(r) /\ (Inner(t) => Stands(m, r))

\* What a dispatcher makes of such a token has the shape for its mode again, and an inner tag
\* leaves the mode as it was.
KeepsShape(D) ==
    \A s \in Trees, t \in Tokens : Sane(s) /\ Plain(t) =>
        /\ Shape(s) => Shape(D[s][t])
        /\ \A m \in Bodies \cup Selects : Stands(m, s) /\ Inner(t) => Stands(m, D[s][t])

\* What stands in its mode has the shape for it,
LEMMA StandsShape ==
    ASSUME NEW m, NEW s, Stands(m, s)
    PROVE  Shape(s) /\ Ready(m, s) /\ \A t : Yields(m, s, t)
<1>1. Shape(s)
  BY DEF Stands, Shape, Standing, Remembering
<1> QED BY <1>1 DEF Stands, Ready, Yields

\* and so has what fits it.
LEMMA FitsShape ==
    ASSUME NEW m, NEW s, Fits(m, s)
    PROVE  Sane(s) /\ Stands(m, s) /\ Shape(s) /\ Ready(m, s) /\ \A t : Yields(m, s, t)
BY StandsShape DEF Fits

\* Only these fields count.
LEMMA ShapeFrame ==
    ASSUME NEW s, NEW r, r.failure = s.failure,
           r.mode = s.mode, r.original = s.original, r.form = s.form, r.open = s.open
    PROVE  /\ Shape(s) => Shape(r)
           /\ \A m : Stands(m, s) => Stands(m, r)
           /\ \A m, t : Yields(m, s, t) => Yields(m, r, t)
<1>1. Shape(s) => Shape(r)
  BY DEF Shape, FormNamed
<1>2. \A m : Stands(m, s) => Stands(m, r)
  BY DEF Stands, FormNamed
<1> QED BY <1>1, <1>2 DEF Yields

\* The flags may change in what the rules give back,
LEMMA FlagsYield ==
    ASSUME NEW s \in Trees, NEW m, NEW t, Yields(m, s, t)
    PROVE  /\ \A b \in BOOLEAN : /\ Yields(m, [s EXCEPT !.frameset_ok = b], t)
                                 /\ Yields(m, [s EXCEPT !.ignore_line_feed = b], t)
                                 /\ Yields(m, [s EXCEPT !.quirks = b], t)
           /\ Yields(m, Again(s), t) /\ Yields(m, OnBehalf(s), t)
           /\ Yields(m, AgainUnlessIgnored(s), t) /\ Yields(m, Ignored(s), t)
           /\ Yields(m, [s EXCEPT !.ignored = FALSE, !.reprocess = FALSE], t)
<1>1. ASSUME NEW r, \/ \E b \in BOOLEAN : r \in {[s EXCEPT !.frameset_ok = b],
                                                 [s EXCEPT !.ignore_line_feed = b],
                                                 [s EXCEPT !.quirks = b]}
                    \/ r \in {Again(s), OnBehalf(s), AgainUnlessIgnored(s), Ignored(s),
                              [s EXCEPT !.ignored = FALSE, !.reprocess = FALSE]}
      PROVE  Yields(m, r, t)
  <2>1. /\ r.failure = s.failure /\ r.mode = s.mode /\ r.original = s.original
        /\ r.form = s.form /\ r.open = s.open
    BY <1>1 DEF Trees, Again, OnBehalf, AgainUnlessIgnored, Ignored
  <2> QED BY <2>1, ShapeFrame
<1> QED BY <1>1

\* and in any state.
LEMMA FlagsShape ==
    ASSUME NEW s \in Trees, Shape(s)
    PROVE  /\ \A b \in BOOLEAN : /\ Shape([s EXCEPT !.frameset_ok = b])
                                 /\ Shape([s EXCEPT !.ignore_line_feed = b])
           /\ Shape(Again(s)) /\ Shape(OnBehalf(s))
           /\ Shape(AgainUnlessIgnored(s)) /\ Shape(Ignored(s))
           /\ Shape([s EXCEPT !.ignored = FALSE, !.reprocess = FALSE])
<1>1. PICK t : t = StartTag("br")
  OBVIOUS
<1>2. ~Inner(t)
  BY <1>1 DEF Inner, IsStart, IsEnd, StartTag
<1>3. \A r : Shape(r) <=> Yields("text", r, t)
  BY <1>2 DEF Yields
<1> QED BY <1>3, FlagsYield

\* What is ready for a mode stays so while these fields do.
LEMMA ReadyFrame ==
    ASSUME NEW m, NEW s, Ready(m, s), NEW r, r.failure = s.failure,
           r.form = s.form, r.open = s.open
    PROVE  Ready(m, r)
BY DEF Ready, FormNamed

\* A switch to the mode that the stack is ready for.
LEMMA SwitchShape ==
    ASSUME NEW s \in Trees, NEW m, Ready(m, s)
    PROVE  Shape(switch_the_insertion_mode(s, m)) /\ Stands(m, switch_the_insertion_mode(s, m))
<1>1. PICK r : r = switch_the_insertion_mode(s, m)
  OBVIOUS
<1>2. r = [s EXCEPT !.mode = m, !.original = IF m \in Remembering THEN s.mode ELSE s.original]
  BY <1>1 DEF switch_the_insertion_mode, Remembering
<1>3. r.mode = m /\ r.form = s.form /\ r.open = s.open /\ r.failure = s.failure
  BY <1>2 DEF Trees
<1>4. Stands(m, r)
  BY <1>3 DEF Ready, Stands, FormNamed
<1> QED BY <1>1, <1>4, StandsShape

\* What changes in the state when the formatting list gets a marker or loses one.
LEMMA MarkerFields ==
    ASSUME NEW s \in Trees, NEW r,
           \/ r = Marked(s)
           \/ Sane(s) /\ Slack(s)
              /\ r = clear_the_list_of_active_formatting_elements_up_to_the_last_marker(s)
    PROVE  /\ r.failure = s.failure
           /\ r.mode = s.mode /\ r.original = s.original /\ r.form = s.form /\ r.open = s.open
<1>1. CASE r = Marked(s)
  BY <1>1 DEF Marked, Trees
<1>2. CASE Sane(s) /\ Slack(s)
           /\ r = clear_the_list_of_active_formatting_elements_up_to_the_last_marker(s)
  BY <1>2, ClearStays
<1> QED BY <1>1, <1>2

\* A token that is made up is dispatched.
LEMMA MadeUpShape ==
    ASSUME NEW D, Keeps(D), KeepsShape(D), NEW s, Sane(s), Shape(s), NEW name \in Names
    PROVE  /\ Shape(act_as_if_an_end_tag_token_had_been_seen(D, s, name))
           /\ Shape(EndThenAgain(D, s, name))
           /\ Shape(act_as_if_a_start_tag_token_had_been_seen(D, s, name))
<1>1. s \in Trees /\ StartTag(name) \in Tokens /\ EndTag(name) \in Tokens
  BY SaneIs, TagsAre
<1>2. Plain(EndTag(name)) /\ Plain(StartTag(name))
  BY DEF Plain, StartTag, EndTag
<1>3. /\ Shape(D[s][EndTag(name)]) /\ D[s][EndTag(name)] \in Trees
      /\ Shape(D[s][StartTag(name)])
      /\ D[s][StartTag(name)] \in Trees
  BY <1>1, <1>2, SaneIs DEF KeepsShape, Keeps
<1> QED BY <1>3, FlagsShape DEF act_as_if_an_end_tag_token_had_been_seen, EndThenAgain,
     act_as_if_a_start_tag_token_had_been_seen

\* The rules go on where they were after one of the inner tags.
LEMMA InnerMadeUp ==
    ASSUME NEW D, Keeps(D), KeepsShape(D), NEW m \in Bodies \cup Selects, NEW s, Fits(m, s),
           NEW name
    PROVE  /\ name \in {"p", "li", "a", "nobr", "form", "label", "option", "optgroup"} =>
                  Fits(m, act_as_if_an_end_tag_token_had_been_seen(D, s, name))
           /\ name \in {"p", "hr", "form", "label"} =>
                  Fits(m, act_as_if_a_start_tag_token_had_been_seen(D, s, name))
<1>1. Sane(s) /\ Stands(m, s) /\ s \in Trees
  BY FitsShape, SaneIs
<1>2. ASSUME name \in {"p", "li", "a", "nobr", "form", "label", "option", "optgroup"}
      PROVE  Fits(m, act_as_if_an_end_tag_token_had_been_seen(D, s, name))
  <2>1. EndTag(name) \in Tokens
    BY <1>2, NamesHave, TagsAre
  <2>2. Plain(EndTag(name)) /\ Inner(EndTag(name))
    BY <1>2 DEF Plain, Inner, IsStart, IsEnd, EndTag
  <2>3. Sane(D[s][EndTag(name)]) /\ Stands(m, D[s][EndTag(name)])
    BY <1>1, <2>1, <2>2 DEF Keeps, KeepsShape
  <2>4. Fits(m, D[s][EndTag(name)])
    BY <2>3 DEF Fits
  <2> QED BY <2>4, AgainFits DEF act_as_if_an_end_tag_token_had_been_seen
<1>3. ASSUME name \in {"p", "hr", "form", "label"}
      PROVE  Fits(m, act_as_if_a_start_tag_token_had_been_seen(D, s, name))
  <2>1. StartTag(name) \in Tokens
    BY <1>3, NamesHave, TagsAre
  <2>2. Plain(StartTag(name)) /\ Inner(StartTag(name))
    BY <1>3 DEF Plain, Inner, IsStart, IsEnd, StartTag
  <2>3. Sane(D[s][StartTag(name)]) /\ Stands(m, D[s][StartTag(name)])
    BY <1>1, <2>1, <2>2 DEF Keeps, KeepsShape
  <2>4. Fits(m, D[s][StartTag(name)])
    BY <2>3 DEF Fits
  <2> QED BY <2>4, AgainFits DEF act_as_if_a_start_tag_token_had_been_seen
<1> QED BY <1>2, <1>3

\* An element of text is opened, and the mode remembered.
LEMMA GenericShape ==
    ASSUME NEW m, NEW s, Fits(m, s), m \notin Rootless, NEW name \in Names,
           name \notin Framed, NEW c
    PROVE  Shape(generic_element_parsing_algorithm(s, name, c))
<1>1. PICK r : r = insert_an_HTML_element(s, name)
  OBVIOUS
<1>2. /\ r \in Trees /\ r.mode = s.mode /\ r.form = s.form
      /\ r.failure = s.failure
      /\ Last(r.open) \in Elements /\ Last(r.open).name = name
      /\ r.open = Append(s.open, Last(r.open)) /\ r.open # <<>>
  <2>1. Planted(s)
    BY FitsPlanted DEF Rootless
  <2> QED BY <2>1, <1>1, InsertedIs DEF Fits, Whole
<1>3. PICK u : u = [r EXCEPT !.content = c]
  OBVIOUS
<1>4. PICK v : v = switch_the_insertion_mode(u, "text")
  OBVIOUS
<1>5. v = [u EXCEPT !.mode = "text", !.original = u.mode]
  BY <1>4 DEF switch_the_insertion_mode
<1>6. /\ v.mode = "text" /\ v.original = s.mode /\ v.form = s.form /\ v.open = r.open
      /\ v.failure = s.failure
  BY <1>2, <1>3, <1>5 DEF Trees
<1>7. SubSeq(r.open, 1, Len(r.open) - 1) = s.open
  BY <1>2, FrontOfAppend, SaneIs DEF Fits
<1>8. r.open[Len(r.open)].name = name
  BY <1>2 DEF Last
<1>9. Shape(v)
  BY <1>2, <1>6, <1>7, <1>8 DEF Shape, Fits, Stands, FormNamed, Remembering
<1> QED BY <1>1, <1>3, <1>4, <1>9 DEF generic_element_parsing_algorithm

\* If nothing has failed, the frame ends with one of the names.
Topped(names, s) ==
    IF s.failure = "none" THEN FormNamed(s) /\ Level(names, s.open) ELSE s.failure \in Lawful

\* The stack ends with the frame that a table or a select is in, which resetting finds.
LEMMA ResetShape ==
    ASSUME NEW s, Sane(s), Topped(Parents("table"), s)
    PROVE  Shape(reset_the_insertion_mode_appropriately(s))
<1>1. PICK i : i = LastNamed(s, Resetting)
  OBVIOUS
<1>2. PICK r : r = reset_the_insertion_mode_appropriately(s)
  OBVIOUS
<1>3. s \in Trees /\ s.open \in Seq(Elements)
  BY SaneIs
<1>4. r = IF i <= 1 THEN Fail(s, "null") ELSE [s EXCEPT !.mode = ResetMode(s.open[i].name)]
  BY <1>1, <1>2 DEF reset_the_insertion_mode_appropriately
<1>5. CASE s.failure # "none"
  <2>1. r.failure = s.failure
    <3>1. Fail(s, "null").failure = s.failure
      BY <1>3, <1>5, FailIs, FailuresHave
    <3>2. \A m : [s EXCEPT !.mode = m].failure = s.failure
      BY <1>3 DEF Trees
    <3> QED BY <3>1, <3>2, <1>4
  <2> QED BY <1>2, <1>5, <2>1 DEF Shape, Topped
<1>6. CASE s.failure = "none"
  <2>1. /\ i \in 2 .. Len(s.open) /\ s.open[i].name \in Parents("table") \cap Resetting
        /\ \A j \in i + 1 .. Len(s.open) : s.open[j].name \notin Resetting
    BY <1>1, <1>3, <1>6, LastFramed DEF Topped
  <2>2. PICK m : m = ResetMode(s.open[i].name)
    OBVIOUS
  <2>3. r.mode = m /\ r.form = s.form /\ r.open = s.open /\ r.failure = s.failure
    <3>1. r = [s EXCEPT !.mode = m]
      BY <1>4, <2>1, <2>2
    <3> QED BY <3>1, <1>3 DEF Trees
  <2>4. m \in Bodies /\ s.open[i].name \in Holders(m)
    <3>1. s.open[i].name \in {"body", "caption", "td", "th"}
      BY <2>1 DEF Parents, Cells, Sections
    <3> QED BY <3>1, <2>2 DEF ResetMode, Holders, Bodies, Cells, Sections
  <2>5. Level(Holders(m), s.open)
    BY <1>6, <2>1, <2>4 DEF Level, Within, Topped
  <2>6. Standing(m, s.open)
    <3>1. m \in Steady
      BY <2>4, BodiesAre
    <3> QED BY <2>5, <3>1, StandingSteady DEF Level
  <2>7. Stands(m, r)
    BY <1>6, <2>3, <2>6 DEF Stands, FormNamed, Topped
  <2> QED BY <1>2, <2>7, StandsShape
<1> QED BY <1>5, <1>6

\* The last element of the frame is the last of its names.
LEMMA TopNamed ==
    ASSUME NEW s, s.open \in Seq(Elements), NEW names, Level(names, s.open),
           NEW wanted, names \cap Resetting \subseteq wanted, wanted \subseteq Framed,
           NEW i, i = LastNamed(s, wanted)
    PROVE  /\ i \in 2 .. Len(s.open) /\ s.open[i].name \in names \cap Resetting
           /\ \A j \in i + 1 .. Len(s.open) : s.open[j].name \notin Framed
           /\ "body" \notin names => i \in 3 .. Len(s.open)
<1>1. PICK k : k = LastNamed(s, Resetting)
  OBVIOUS
<1>2. /\ k \in 2 .. Len(s.open) /\ s.open[k].name \in names \cap Resetting
      /\ \A j \in k + 1 .. Len(s.open) : s.open[j].name \notin Resetting
  BY <1>1, LastFramed
<1>3. Len(s.open) \in Nat /\ \A j \in k + 1 .. Len(s.open) : s.open[j].name \notin Framed
  <2>1. \A j \in 2 .. Len(s.open) : s.open[j].name # "html"
    BY DEF Level, HtmlFirst
  <2> QED BY <1>2, <2>1 DEF Framed
<1>4. /\ i \in 0 .. Len(s.open) /\ (i > 0 => s.open[i].name \in wanted)
      /\ \A j \in i + 1 .. Len(s.open) : s.open[j].name \notin wanted
  BY LastNamedIs
<1>5. i = k
  <2>1. ~(i < k)
    BY <1>2, <1>3, <1>4
  <2>2. ~(i > k)
    BY <1>2, <1>3, <1>4
  <2> QED BY <2>1, <2>2, <1>2, <1>4
<1>6. "body" \notin names => i # 2
  BY <1>2, <1>5 DEF Level, Tower
<1> QED BY <1>2, <1>3, <1>5, <1>6

\* Popping back to the last element of the frame, and through it.
LEMMA PopToTop ==
    ASSUME NEW s, Sane(s), NEW names, Level(names, s.open), "body" \notin names,
           NEW wanted, names \cap Resetting \subseteq wanted, wanted \subseteq Framed,
           NEW r, r = PopTo(s, wanted), NEW u, u = PopThrough(s, wanted)
    PROVE  \E i \in 3 .. Len(s.open) :
               /\ s.open[i].name \in names \cap Resetting
               /\ CutTo(s, r, i) /\ Level(names, r.open)
               /\ CutTo(s, u, i - 1) /\ Level(Parents(s.open[i].name), u.open)
               /\ CutTo(s, Pop(r), i - 1) /\ Level(Parents(s.open[i].name), Pop(r).open)
<1>1. PICK i : i = LastNamed(s, wanted)
  OBVIOUS
<1>2. s.open \in Seq(Elements) /\ Len(s.open) \in Nat
  BY SaneIs
<1>3. /\ i \in 3 .. Len(s.open) /\ s.open[i].name \in names \cap Resetting
      /\ \A j \in i + 1 .. Len(s.open) : s.open[j].name \notin Framed
  BY <1>1, <1>2, TopNamed
<1>4. r = Shrunk(s, i) /\ u = Shrunk(s, i - 1)
  BY <1>1, <1>3 DEF PopTo, PopThrough
<1>5. PICK h : h = i - 1
  OBVIOUS
<1>6. i \in 0 .. Len(s.open) /\ h \in 0 .. Len(s.open)
  BY <1>2, <1>3, <1>5
<1>7. CutTo(s, r, i)
  BY <1>4, <1>6, ShrunkIs
<1>8. CutTo(s, u, h)
  BY <1>4, <1>5, <1>6, ShrunkIs
<1>9. /\ r.open \in Seq(Elements) /\ Len(r.open) = i /\ \A k \in 1 .. i : r.open[k] = s.open[k]
      /\ Sane(r)
  BY <1>7 DEF CutTo
<1>10. Level(names, r.open)
  BY <1>2, <1>3, <1>6, <1>9, LevelCut DEF Framed
<1>11. CutTo(r, Pop(r), h)
  <2>1. r.open # <<>> /\ h \in 0 .. Len(r.open)
    BY <1>3, <1>5, <1>9
  <2>2. Pop(r) = Shrunk(r, h)
    BY <2>1, <1>5, <1>9 DEF Pop
  <2> QED BY <2>1, <2>2, <1>9, ShrunkIs
<1>12. CutTo(s, Pop(r), h)
  BY <1>2, <1>7, <1>11, CutAgain
<1>13. ASSUME NEW v, CutTo(s, v, h) PROVE Level(Parents(s.open[i].name), v.open)
  <2>1. /\ v.open \in Seq(Elements) /\ Len(v.open) = i - 1
        /\ \A j \in 1 .. i - 1 : v.open[j] = s.open[j]
    BY <1>5, <1>13 DEF CutTo
  <2>2. s.open[i].name \in Resetting
    BY <1>3
  <2> QED BY <2>1, <2>2, <1>2, <1>3, LevelBelow
<1>14. Level(Parents(s.open[i].name), u.open) /\ Level(Parents(s.open[i].name), Pop(r).open)
  BY <1>8, <1>12, <1>13
<1> QED BY <1>3, <1>5, <1>7, <1>8, <1>10, <1>12, <1>14

-------------------------------------------------------------------------------
(* The modes before the body *)

\* The entries of a list with one more.
LEMMA AppendIs ==
    ASSUME NEW o \in Seq(Elements), NEW e \in Elements, NEW r, r = Append(o, e)
    PROVE  /\ r \in Seq(Elements) /\ Len(r) = Len(o) + 1 /\ r[Len(o) + 1] = e
           /\ \A k \in 1 .. Len(o) : r[k] = o[k]
OBVIOUS

\* The rules of the mode initial.
LEMMA InitialShape ==
    ASSUME NEW s, Fits("initial", s), NEW t
    PROVE  Shape(initial(s, t))
<1>1. PICK r : r = switch_the_insertion_mode(s, "before_html")
  OBVIOUS
<1>2. Sane(s) /\ s \in Trees /\ Ready("initial", s) /\ Shape(s)
  BY FitsShape, SaneIs
<1>3. Ready("before_html", s)
  <2>1. Standing("initial", s.open) => Standing("before_html", s.open)
    BY DEF Standing, Modes, Remembering, Leveled
  <2> QED BY <2>1, <1>2 DEF Ready
<1>4. Sane(r) /\ Stands("before_html", r) /\ "before_html" \in Modes
  BY <1>1, <1>2, <1>3, SwitchShape, SwitchSane DEF Modes
<1>5. Fits("before_html", r)
  BY <1>4 DEF Fits
<1>6. ASSUME NEW b \in BOOLEAN
      PROVE  Shape([r EXCEPT !.quirks = b]) /\ Shape(Again([r EXCEPT !.quirks = b]))
  <2>1. Fits("before_html", [r EXCEPT !.quirks = b])
    BY <1>5, FlagsFit
  <2> QED BY <2>1, AgainFits, FitsShape
<1>7. (t.name # "html") \in BOOLEAN /\ Shape(Ignored(s))
  BY AgainFits, FitsShape
<1> QED BY <1>1, <1>2, <1>6, <1>7 DEF initial

\* The rules of the mode before_html.
LEMMA BeforeHtmlShape ==
    ASSUME NEW s, Fits("before_html", s), NEW t
    PROVE  Shape(before_html(s, t))
<1>1. PICK e : e = create_an_element_for_a_token(s, "html")
  OBVIOUS
<1>2. PICK r : r = Push(s, e)
  OBVIOUS
<1>3. Sane(s) /\ s \in Trees /\ s.open \in Seq(Elements) /\ Stands("before_html", s) /\ Shape(s)
  BY FitsShape, SaneIs
<1>4. e \in Elements /\ e.name = "html"
  <2>1. "html" \in Names
    BY NamesHave
  <2> QED BY <2>1, <1>1, <1>3, CreateIs
<1>5. r = [s EXCEPT !.open = Append(s.open, e)]
  BY <1>2 DEF Push
<1>6. /\ r.form = s.form /\ r.failure = s.failure /\ r.open = Append(s.open, e)
      /\ r \in Trees
  <2>1. PICK o : o = Append(s.open, e)
    OBVIOUS
  <2>2. o \in Seq(Elements)
    BY <2>1, <1>3, <1>4
  <2>3. r = [s EXCEPT !.open = o]
    BY <2>1, <1>5
  <2>4. r \in Trees /\ r.open = o /\ r.form = s.form /\ r.failure = s.failure
    BY <2>2, <2>3, <1>3, OpenTree
  <2> QED BY <2>1, <2>4
<1>7. Ready("before_head", r)
  <2>1. SUFFICES ASSUME r.failure = "none"
                 PROVE  FormNamed(r) /\ Standing("before_head", r.open)
    BY <1>3, <1>6 DEF Ready, Stands
  <2>2. FormNamed(r) /\ Len(s.open) = 0
    BY <2>1, <1>3, <1>6 DEF Stands, FormNamed, Standing
  <2>3. Len(r.open) = 1 /\ r.open[1].name = "html"
    BY <2>2, <1>3, <1>4, <1>6
  <2> QED BY <2>2, <2>3 DEF Standing, HtmlFirst, Modes, Remembering, Leveled
<1>8. Shape(HtmlOpened(s))
  BY <1>1, <1>2, <1>6, <1>7, SwitchShape DEF HtmlOpened
<1>9. Shape(Again(HtmlOpened(s)))
  <2>1. HtmlOpened(s) \in Trees
    BY <1>3, HtmlOpenedSane, SaneIs
  <2> QED BY <2>1, <1>8, FlagsShape
<1>10. Shape(Ignored(s))
  BY AgainFits, FitsShape
<1> QED BY <1>3, <1>8, <1>9, <1>10 DEF before_html

\* The rules of the mode before_head.
LEMMA BeforeHeadShape ==
    ASSUME NEW D, Keeps(D), KeepsShape(D), NEW s, Fits("before_head", s), NEW t
    PROVE  Shape(before_head(D, s, t))
<1>1. PICK r : r = insert_an_HTML_element(s, "head")
  OBVIOUS
<1>2. Sane(s) /\ s \in Trees /\ Stands("before_head", s) /\ Shape(s) /\ s.open \in Seq(Elements)
  BY FitsShape, SaneIs
<1>3. "head" \in Names
  BY NamesHave
<1>4. /\ r \in Trees /\ r.form = s.form /\ (r.failure = s.failure)
      /\ Last(r.open) \in Elements /\ Last(r.open).name = "head"
      /\ r.open = Append(s.open, Last(r.open))
  <2>1. Planted(s)
    BY FitsPlanted
  <2> QED BY <2>1, <1>1, <1>2, <1>3, InsertedIs DEF Whole
<1>5. PICK u : u = [r EXCEPT !.head = Last(r.open)]
  OBVIOUS
<1>6. u \in Trees /\ u.form = s.form /\ u.open = r.open /\ u.failure = r.failure
  BY <1>4, <1>5 DEF Trees
<1>7. Ready("in_head", u)
  <2>1. SUFFICES ASSUME u.failure = "none"
                 PROVE  FormNamed(u) /\ Standing("in_head", u.open)
    BY <1>2, <1>4, <1>6 DEF Ready, Stands
  <2>2. FormNamed(u) /\ Len(s.open) = 1 /\ HtmlFirst(s.open)
    BY <2>1, <1>2, <1>4, <1>6 DEF Stands, FormNamed, Standing
  <2>3. Len(u.open) = 2 /\ u.open[1] = s.open[1] /\ u.open[2].name = "head"
    <3>1. Len(u.open) = Len(s.open) + 1 /\ u.open[Len(s.open) + 1] = Last(r.open)
      BY <1>2, <1>4, <1>6, AppendIs
    <3>2. u.open[1] = s.open[1]
      BY <2>2, <1>2, <1>4, <1>6, AppendIs
    <3> QED BY <3>1, <3>2, <2>2, <1>4
  <2>4. HtmlFirst(u.open)
    BY <2>2, <2>3 DEF HtmlFirst
  <2> QED BY <2>2, <2>3, <2>4 DEF Standing, Modes, Remembering, Leveled
<1>8. Shape(switch_the_insertion_mode([r EXCEPT !.head = Last(r.open)], "in_head"))
  BY <1>5, <1>6, <1>7, SwitchShape
<1>9. Shape(Again(act_as_if_a_start_tag_token_had_been_seen(D, s, "head")))
  <2>1. Sane(act_as_if_a_start_tag_token_had_been_seen(D, s, "head"))
    BY <1>2, <1>3, MadeUpSane
  <2>2. Shape(act_as_if_a_start_tag_token_had_been_seen(D, s, "head"))
    BY <1>2, <1>3, MadeUpShape
  <2> QED BY <2>1, <2>2, SaneIs, FlagsShape
<1>10. Shape(Ignored(s)) /\ Shape(Write(s)) /\ Shape(HtmlStartTagInBody(s))
  BY <1>2, AgainFits, WriteFits, FitsShape DEF HtmlStartTagInBody
<1> QED BY <1>1, <1>8, <1>9, <1>10 DEF before_head

\* What belongs into the head is not of the frame.
LEMMA HeadContentFramed ==
    /\ HeadContent \cap (Framed \cup Embedded) = {}
    /\ {"textarea", "xmp", "iframe", "noembed"} \cap (Framed \cup Embedded) = {}
BY DEF HeadContent, Framed, Embedded, Resetting, Cells, Sections

\* What belongs into the head, whatever the mode is.
LEMMA HeadContentShape ==
    ASSUME NEW D, NEW m, NEW s, Fits(m, s), m \notin Rootless, NEW t \in Tokens,
           IsStart(t, HeadContent)
    PROVE  Shape(in_head(D, s, t))
<1>1. t.type = "start" /\ t.name \in HeadContent /\ t.name \in Names
  BY TokenIs DEF IsStart
<1>2. ~IsSpace(t) /\ \A names : ~IsEnd(t, names)
  BY <1>1 DEF IsSpace, IsEnd
<1>3. t.name \notin {"html", "noscript", "head"}
  BY <1>1 DEF HeadContent
<1>4. Shape(InsertAndPop(s, t.name))
  BY <1>1, HeadContentFramed, InsertAndPopFits, FitsShape DEF Rootless
<1>5. \A c : Shape(generic_element_parsing_algorithm(s, t.name, c))
  BY <1>1, HeadContentFramed, GenericShape
<1>6. t.name \in {"base", "basefont", "bgsound", "link", "meta", "title", "noframes", "style",
                  "script"}
  BY <1>1 DEF HeadContent
<1>7. \/ in_head(D, s, t) = InsertAndPop(s, t.name)
      \/ \E c : in_head(D, s, t) = generic_element_parsing_algorithm(s, t.name, c)
  <2>1. \/ in_head(D, s, t) = InsertAndPop(s, t.name)
        \/ in_head(D, s, t) = generic_element_parsing_algorithm(s, t.name, "RCDATA")
        \/ in_head(D, s, t) = generic_element_parsing_algorithm(s, t.name, "RAWTEXT")
        \/ in_head(D, s, t) = generic_element_parsing_algorithm(s, t.name, "script_data")
    BY <1>1, <1>2, <1>3, <1>6 DEF in_head, IsStart
  <2> QED BY <2>1
<1> QED BY <1>4, <1>5, <1>7

\* The rules of the mode in_head.
LEMMA InHeadShape ==
    ASSUME NEW D, Keeps(D), KeepsShape(D), NEW s, Fits("in_head", s), NEW t \in Tokens
    PROVE  Shape(in_head(D, s, t))
<1>1. Sane(s) /\ s \in Trees /\ Stands("in_head", s) /\ Shape(s) /\ s.open \in Seq(Elements)
  BY FitsShape, SaneIs
<1>2. t.name \in Names
  BY TokenIs
<1>3. Shape(Ignored(s)) /\ Shape(Write(s)) /\ Shape(HtmlStartTagInBody(s))
  BY <1>1, AgainFits, WriteFits, FitsShape DEF HtmlStartTagInBody
<1>4. ASSUME IsStart(t, HeadContent) PROVE Shape(in_head(D, s, t))
  BY <1>4, HeadContentShape DEF Rootless
<1>5. IsStart(t, {"noscript"}) =>
          Shape(switch_the_insertion_mode(insert_an_HTML_element(s, t.name), "in_head_noscript"))
  <2>1. SUFFICES ASSUME t.name = "noscript"
                 PROVE  Shape(switch_the_insertion_mode(
                                  insert_an_HTML_element(s, t.name), "in_head_noscript"))
    BY DEF IsStart
  <2>2. PICK r : r = insert_an_HTML_element(s, t.name)
    OBVIOUS
  <2>3. /\ r \in Trees /\ r.form = s.form /\ (r.failure = s.failure)
        /\ Last(r.open) \in Elements /\ Last(r.open).name = "noscript"
        /\ r.open = Append(s.open, Last(r.open))
    <3>1. Planted(s)
      BY FitsPlanted
    <3> QED BY <3>1, <2>1, <2>2, <1>1, <1>2, InsertedIs DEF Whole
  <2>4. Ready("in_head_noscript", r)
    <3>1. SUFFICES ASSUME r.failure = "none"
                   PROVE  FormNamed(r) /\ Standing("in_head_noscript", r.open)
      BY <1>1, <2>3 DEF Ready, Stands
    <3>2. FormNamed(r) /\ Len(s.open) = 2 /\ HtmlFirst(s.open)
      BY <3>1, <1>1, <2>3 DEF Stands, FormNamed, Standing
    <3>3. /\ Len(r.open) = 3 /\ r.open[1] = s.open[1] /\ r.open[2] = s.open[2]
          /\ r.open[3].name = "noscript"
      <4>1. Len(r.open) = Len(s.open) + 1 /\ r.open[Len(s.open) + 1] = Last(r.open)
        BY <1>1, <2>3, AppendIs
      <4>2. r.open[1] = s.open[1] /\ r.open[2] = s.open[2]
        BY <3>2, <1>1, <2>3, AppendIs
      <4> QED BY <4>1, <4>2, <3>2, <2>3
    <3>4. HtmlFirst(r.open)
      BY <3>2, <3>3 DEF HtmlFirst
    <3> QED BY <3>2, <3>3, <3>4 DEF Standing, Modes, Remembering, Leveled
  <2> QED BY <2>2, <2>3, <2>4, SwitchShape
<1>6. Shape(switch_the_insertion_mode(Pop(s), "after_head"))
  <2>1. Sane(Pop(s)) /\ Pop(s) \in Trees
    BY <1>1, PopSane, SaneIs
  <2>2. Ready("after_head", Pop(s))
    <3>1. SUFFICES ASSUME Pop(s).failure = "none"
                   PROVE  FormNamed(Pop(s)) /\ Standing("after_head", Pop(s).open)
      <4>1. Pop(s).failure = s.failure
        BY <1>1, FitsPlanted, PopIs
      <4> QED BY <4>1, <1>1 DEF Ready, Stands
    <3>2. /\ s.failure = "none" /\ s.open # <<>> /\ Pop(s).form = s.form
          /\ Pop(s).open = SubSeq(s.open, 1, Len(s.open) - 1)
      BY <3>1, <1>1, PopIs
    <3>3. FormNamed(Pop(s)) /\ Len(s.open) = 2 /\ HtmlFirst(s.open)
      BY <3>2, <1>1 DEF Stands, FormNamed, Standing
    <3>4. Len(s.open) - 1 = 1 /\ 1 \in 0 .. Len(s.open)
      BY <3>3
    <3>5. Len(Pop(s).open) = 1 /\ Pop(s).open[1] = s.open[1]
      <4>1. Pop(s).open = SubSeq(s.open, 1, 1)
        BY <3>2, <3>4
      <4> QED BY <4>1, <3>4, <1>1, FrontIs
    <3>6. HtmlFirst(Pop(s).open)
      BY <3>3, <3>5 DEF HtmlFirst
    <3> QED BY <3>3, <3>5, <3>6 DEF Standing, Modes, Remembering, Leveled
  <2> QED BY <2>1, <2>2, SwitchShape
<1>7. Shape(Again(act_as_if_an_end_tag_token_had_been_seen(D, s, "head")))
  <2>1. "head" \in Names
    BY NamesHave
  <2>2. Sane(act_as_if_an_end_tag_token_had_been_seen(D, s, "head"))
    BY <1>1, <2>1, MadeUpSane
  <2>3. Shape(act_as_if_an_end_tag_token_had_been_seen(D, s, "head"))
    BY <1>1, <2>1, MadeUpShape
  <2> QED BY <2>2, <2>3, SaneIs, FlagsShape
<1>8. CASE ~IsStart(t, HeadContent)
  <2>1. ~IsStart(t, {"base", "basefont", "bgsound", "link", "meta"}) /\ ~IsStart(t, {"title"})
        /\ ~IsStart(t, {"noframes", "style"}) /\ ~IsStart(t, {"script"})
    BY <1>8 DEF IsStart, HeadContent
  <2> QED BY <2>1, <1>3, <1>5, <1>6, <1>7 DEF in_head
<1> QED BY <1>4, <1>8

\* The rules of the mode in_head_noscript.
LEMMA InHeadNoscriptShape ==
    ASSUME NEW D, Keeps(D), KeepsShape(D), NEW s, Fits("in_head_noscript", s), NEW t \in Tokens
    PROVE  Shape(in_head_noscript(D, s, t))
<1>1. /\ Sane(s) /\ s \in Trees /\ Stands("in_head_noscript", s) /\ Shape(s)
      /\ s.open \in Seq(Elements)
  BY FitsShape, SaneIs
<1>2. Shape(Ignored(s)) /\ Shape(Write(s)) /\ Shape(HtmlStartTagInBody(s))
  BY <1>1, AgainFits, WriteFits, FitsShape DEF HtmlStartTagInBody
<1>3. (\/ IsStart(t, {"basefont", "bgsound", "link", "meta", "noframes", "style"})
       \/ IsSpace(t)
       \/ t.type = "comment") => Shape(OnBehalf(in_head(D, s, t)))
  <2>1. SUFFICES ASSUME \/ IsStart(t, {"basefont", "bgsound", "link", "meta", "noframes", "style"})
                        \/ IsSpace(t)
                        \/ t.type = "comment"
                 PROVE  Shape(OnBehalf(in_head(D, s, t)))
    OBVIOUS
  <2>2. Shape(in_head(D, s, t))
    <3>1. CASE IsStart(t, {"basefont", "bgsound", "link", "meta", "noframes", "style"})
      <4>1. IsStart(t, HeadContent)
        BY <3>1 DEF IsStart, HeadContent
      <4> QED BY <4>1, HeadContentShape DEF Rootless
    <3>2. CASE IsSpace(t) \/ t.type = "comment"
      <4>1. in_head(D, s, t) = Write(s)
        BY <3>2 DEF in_head, IsStart, IsEnd, IsSpace
      <4> QED BY <4>1, <1>2
    <3> QED BY <2>1, <3>1, <3>2
  <2>3. in_head(D, s, t) \in Trees
    BY <1>1, InHeadSane, SaneIs
  <2> QED BY <2>2, <2>3, FlagsShape
<1>4. Shape(switch_the_insertion_mode(Pop(s), "in_head"))
  <2>1. Sane(Pop(s)) /\ Pop(s) \in Trees
    BY <1>1, PopSane, SaneIs
  <2>2. Ready("in_head", Pop(s))
    <3>1. SUFFICES ASSUME Pop(s).failure = "none"
                   PROVE  FormNamed(Pop(s)) /\ Standing("in_head", Pop(s).open)
      <4>1. Pop(s).failure = s.failure
        BY <1>1, FitsPlanted, PopIs
      <4> QED BY <4>1, <1>1 DEF Ready, Stands
    <3>2. /\ s.failure = "none" /\ s.open # <<>> /\ Pop(s).form = s.form
          /\ Pop(s).open = SubSeq(s.open, 1, Len(s.open) - 1)
      BY <3>1, <1>1, PopIs
    <3>3. FormNamed(Pop(s)) /\ Len(s.open) = 3 /\ HtmlFirst(s.open)
      BY <3>2, <1>1 DEF Stands, FormNamed, Standing
    <3>4. Len(s.open) - 1 = 2 /\ 2 \in 0 .. Len(s.open)
      BY <3>3
    <3>5. Len(Pop(s).open) = 2 /\ \A k \in 1 .. 2 : Pop(s).open[k] = s.open[k]
      <4>1. Pop(s).open = SubSeq(s.open, 1, 2)
        BY <3>2, <3>4
      <4> QED BY <4>1, <3>4, <1>1, FrontIs
    <3>6. HtmlFirst(Pop(s).open)
      BY <3>3, <3>5 DEF HtmlFirst
    <3> QED BY <3>3, <3>5, <3>6 DEF Standing, Modes, Remembering, Leveled
  <2> QED BY <2>1, <2>2, SwitchShape
<1>5. Shape(Again(act_as_if_an_end_tag_token_had_been_seen(D, s, "noscript")))
  <2>1. "noscript" \in Names
    BY NamesHave
  <2>2. Sane(act_as_if_an_end_tag_token_had_been_seen(D, s, "noscript"))
    BY <1>1, <2>1, MadeUpSane
  <2>3. Shape(act_as_if_an_end_tag_token_had_been_seen(D, s, "noscript"))
    BY <1>1, <2>1, MadeUpShape
  <2> QED BY <2>2, <2>3, SaneIs, FlagsShape
<1> QED BY <1>2, <1>3, <1>4, <1>5 DEF in_head_noscript

\* Any other element may be opened above the html element.
LEMMA HtmlPushed ==
    ASSUME NEW open \in Seq(Elements), HtmlFirst(open), NEW e \in Elements, e.name # "html",
           NEW r, r = Append(open, e)
    PROVE  HtmlFirst(r)
<1>1. Len(r) = Len(open) + 1 /\ r[Len(open) + 1] = e /\ \A k \in 1 .. Len(open) : r[k] = open[k]
  BY AppendIs
<1>2. Len(open) \in Nat /\ Len(open) >= 1
  BY DEF HtmlFirst
<1> QED BY <1>1, <1>2 DEF HtmlFirst

\* The head element that is opened again for what belongs into it, and taken out afterwards.
LEMMA HeadAgainShape ==
    ASSUME NEW D, Keeps(D), NEW s, Fits("after_head", s), NEW t \in Tokens, IsStart(t, HeadContent)
    PROVE  Shape(remove_node_from_the_stack_of_open_elements(
                     OnBehalf(in_head(D, Push(s, s.head), t)), s.head))
<1>1. /\ Sane(s) /\ s \in Trees /\ Stands("after_head", s)
      /\ s.open \in Seq(Elements) /\ s.head \in Elements
  BY FitsShape, SaneIs
<1>2. PICK h : h = s.head
  OBVIOUS
<1>3. h \in Elements /\ h.name \in {"none", "head"}
  BY <1>1, <1>2 DEF Sane, Whole
<1>4. PICK u : u = Push(s, h)
  OBVIOUS
<1>5. PICK v : v = OnBehalf(in_head(D, u, t))
  OBVIOUS
<1>6. PICK w : w = remove_node_from_the_stack_of_open_elements(v, h)
  OBVIOUS
<1>7. Sane(u)
  BY <1>1, <1>2, <1>4, HeadAgainSane
<1>8. Sane(v) /\ Sane(w) /\ v \in Trees /\ v.open \in Seq(Elements)
  BY <1>5, <1>6, <1>7, InHeadSane, AgainSane, RemoveOpenSane, SaneIs
<1>9. PICK o : o = Append(s.open, h)
  OBVIOUS
<1>10. /\ u.open = o /\ u.mode = s.mode /\ u.form = s.form /\ u.failure = s.failure
       /\ o \in Seq(Elements)
  <2>1. u = [s EXCEPT !.open = o]
    BY <1>4, <1>9 DEF Push
  <2>2. o \in Seq(Elements)
    BY <1>1, <1>3, <1>9
  <2> QED BY <2>1, <2>2, <1>1 DEF Trees
<1>11. PICK i : i = Position(v.open, h)
  OBVIOUS
<1>12. w = IF i = 0 THEN v ELSE [v EXCEPT !.open = RemoveAt(v.open, i)]
  BY <1>6, <1>11 DEF remove_node_from_the_stack_of_open_elements
<1>13. /\ w.mode = v.mode /\ w.original = v.original /\ w.form = v.form /\ w.failure = v.failure
       /\ w.open = IF i = 0 THEN v.open ELSE RemoveAt(v.open, i)
  BY <1>8, <1>12 DEF Trees
<1>14. PICK y : y = in_head(D, u, t)
  OBVIOUS
<1>15. /\ v.mode = y.mode /\ v.original = y.original /\ v.form = y.form /\ v.open = y.open
       /\ v.failure = y.failure
  <2>1. y \in Trees
    BY <1>7, <1>14, InHeadSane, SaneIs
  <2> QED BY <2>1, <1>5, <1>14 DEF OnBehalf, Trees
<1>16. /\ t.type = "start" /\ t.name \in HeadContent /\ t.name \in Names
       /\ t.name \notin Framed \cup Embedded
  BY TokenIs, HeadContentFramed DEF IsStart
<1>17. PICK r : r = insert_an_HTML_element(u, t.name)
  OBVIOUS
<1>18. /\ r \in Trees /\ r.mode = s.mode /\ r.form = s.form
       /\ r.failure = s.failure
       /\ Last(r.open) \in Elements /\ Last(r.open).name = t.name
       /\ r.open = Append(o, Last(r.open)) /\ r.open # <<>>
  <2>1. Planted(u)
    <3>1. Len(o) = Len(s.open) + 1
      BY <1>1, <1>3, <1>9, AppendIs
    <3> QED BY <3>1, <1>1, <1>10 DEF Planted
  <2> QED BY <2>1, <1>7, <1>10, <1>16, <1>17, InsertedIs DEF Whole
<1>19. \/ y = Pop(r)
       \/ \E c : y = generic_element_parsing_algorithm(u, t.name, c)
  <2>1. ~IsSpace(t) /\ \A names : ~IsEnd(t, names)
    BY <1>16 DEF IsSpace, IsEnd
  <2>2. t.name \in {"base", "basefont", "bgsound", "link", "meta", "title", "noframes", "style",
                    "script"}
    BY <1>16 DEF HeadContent
  <2>3. \/ y = InsertAndPop(u, t.name)
        \/ y = generic_element_parsing_algorithm(u, t.name, "RCDATA")
        \/ y = generic_element_parsing_algorithm(u, t.name, "RAWTEXT")
        \/ y = generic_element_parsing_algorithm(u, t.name, "script_data")
    BY <2>1, <2>2, <1>14, <1>16 DEF in_head, IsStart
  <2> QED BY <2>3, <1>17 DEF InsertAndPop
<1>20. \/ /\ y.mode = s.mode /\ y.form = s.form /\ y.open = o
          /\ y.failure = s.failure
       \/ /\ y.mode = "text" /\ y.original = s.mode /\ y.form = s.form /\ y.open = r.open
          /\ y.failure = s.failure
  <2>1. CASE y = Pop(r)
    <3>1. SubSeq(r.open, 1, Len(r.open) - 1) = o
      BY <1>10, <1>18, FrontOfAppend
    <3>2. /\ y.mode = r.mode /\ y.form = r.form /\ y.failure = r.failure
          /\ y.open = SubSeq(r.open, 1, Len(r.open) - 1)
      BY <2>1, <1>18, PopIs
    <3> QED BY <3>1, <3>2, <1>18
  <2>2. CASE \E c : y = generic_element_parsing_algorithm(u, t.name, c)
    <3>1. PICK c : y = generic_element_parsing_algorithm(u, t.name, c)
      BY <2>2
    <3>2. PICK z : z = [r EXCEPT !.content = c]
      OBVIOUS
    <3>3. y = [z EXCEPT !.mode = "text", !.original = z.mode]
      BY <3>1, <3>2, <1>17 DEF generic_element_parsing_algorithm, switch_the_insertion_mode
    <3> QED BY <3>2, <3>3, <1>18 DEF Trees
  <2> QED BY <2>1, <2>2, <1>19
<1>21. SUFFICES ASSUME w.failure = "none" PROVE Shape(w)
  BY <1>1, <1>2, <1>4, <1>5, <1>6, <1>13, <1>15, <1>20 DEF Shape, Stands
<1>22. /\ s.failure = "none" /\ s.mode = "after_head" /\ FormNamed(s) /\ FormNamed(w)
       /\ HtmlFirst(s.open) /\ Len(s.open) = 1 /\ Standing("after_head", s.open)
  <2>1. s.failure = "none" /\ w.form = s.form
    BY <1>13, <1>21, <1>15, <1>20
  <2> QED BY <2>1, <1>1 DEF Stands, FormNamed, Standing
<1>23. Len(o) = 2 /\ o[1] = s.open[1] /\ o[2] = h /\ o[1].name = "html"
  <2>1. Len(o) = Len(s.open) + 1 /\ o[Len(s.open) + 1] = h /\ o[1] = s.open[1]
    BY <1>1, <1>3, <1>9, <1>22, AppendIs
  <2> QED BY <2>1, <1>22 DEF HtmlFirst
<1>24. ASSUME NEW list \in Seq(Elements), Len(list) >= 2, list[1].name = "html", list[2] = h
       PROVE  Position(list, h) = 2
  <2>1. PICK p : p = Position(list, h)
    OBVIOUS
  <2>2. /\ p \in 0 .. Len(list)
        /\ p > 0 => list[p] = h /\ \A k \in 1 .. p - 1 : list[k] # h
        /\ p = 0 => \A k \in 1 .. Len(list) : list[k] # h
    BY <2>1, PositionIs
  <2>3. Len(list) \in Nat /\ p # 0 /\ p # 1 /\ ~(p > 2)
    BY <2>2, <1>3, <1>24
  <2> QED BY <2>1, <2>2, <2>3
<1>25. CASE y.mode = s.mode /\ y.open = o
  <2>1. v.open = o /\ o \in Seq(Elements)
    BY <1>10, <1>15, <1>25
  <2>1a. Position(o, h) = 2
    BY <2>1, <1>23, <1>24
  <2>1b. i = 2
    BY <2>1, <2>1a, <1>11
  <2>2. w.open = RemoveAt(o, 2)
    BY <2>1b, <1>13, <1>15, <1>25
  <2>3. w.open \in Seq(Elements) /\ Len(w.open) = 1 /\ w.open[1] = s.open[1]
    <3>1. 2 \in 1 .. Len(o)
      BY <1>23
    <3>2. /\ w.open \in Seq(Elements) /\ Len(w.open) = Len(o) - 1
          /\ \A k \in 1 .. Len(w.open) : w.open[k] = IF k < 2 THEN o[k] ELSE o[k + 1]
      BY <2>2, <3>1, <1>10, RemoveAtIs
    <3> QED BY <3>2, <1>23
  <2>4. HtmlFirst(w.open)
    BY <2>3, <1>22 DEF HtmlFirst
  <2>5. Standing("after_head", w.open)
    BY <2>3, <2>4, <1>22 DEF Standing, Leveled
  <2>6. Stands("after_head", w)
    BY <2>5, <1>13, <1>15, <1>21, <1>22, <1>25 DEF Stands
  <2> QED BY <2>6, StandsShape
<1>26. CASE y.mode = "text" /\ y.original = s.mode /\ y.open = r.open
  <2>1. PICK e : e = Last(r.open)
    OBVIOUS
  <2>2. /\ r.open \in Seq(Elements) /\ Len(r.open) = 3 /\ r.open[3] = e /\ r.open[1].name = "html"
        /\ r.open[2] = h /\ r.open[1] = s.open[1] /\ e \in Elements /\ e.name = t.name
    <3>1. r.open = Append(o, e) /\ e \in Elements /\ e.name = t.name
      BY <2>1, <1>18
    <3>2. /\ r.open \in Seq(Elements) /\ Len(r.open) = Len(o) + 1 /\ r.open[Len(o) + 1] = e
          /\ \A k \in 1 .. Len(o) : r.open[k] = o[k]
      BY <3>1, <1>10, AppendIs
    <3> QED BY <3>1, <3>2, <1>23
  <2>3. i = 2
    BY <2>2, <1>11, <1>15, <1>24, <1>26
  <2>4. w.open = RemoveAt(r.open, 2)
    BY <2>3, <1>13, <1>15, <1>26
  <2>5. w.open \in Seq(Elements) /\ Len(w.open) = 2 /\ w.open[1] = s.open[1] /\ w.open[2] = e
    <3>1. 2 \in 1 .. Len(r.open)
      BY <2>2
    <3>2. PICK x : x = r.open
      OBVIOUS
    <3>3. PICK z : z = w.open
      OBVIOUS
    <3>4. x \in Seq(Elements) /\ 2 \in 1 .. Len(x) /\ z = RemoveAt(x, 2)
      BY <2>2, <2>4, <3>1, <3>2, <3>3
    <3>5. /\ z \in Seq(Elements) /\ Len(z) = Len(x) - 1
          /\ \A k \in 1 .. Len(z) : z[k] = IF k < 2 THEN x[k] ELSE x[k + 1]
      BY <3>4, RemoveAtIs
    <3> QED BY <3>2, <3>3, <3>5, <2>2
  <2>6. PICK f : f = SubSeq(w.open, 1, Len(w.open) - 1)
    OBVIOUS
  <2>7. Len(f) = 1 /\ f[1] = s.open[1]
    <3>1. f = SubSeq(w.open, 1, 1) /\ 1 \in 0 .. Len(w.open)
      BY <2>5, <2>6
    <3> QED BY <3>1, <2>5, FrontIs
  <2>8. HtmlFirst(f)
    BY <2>7, <1>22 DEF HtmlFirst
  <2>9. Standing("after_head", f)
    BY <2>7, <2>8, <1>22 DEF Standing, Leveled
  <2>10. w.open # <<>> /\ w.open[Len(w.open)].name \notin Framed
    BY <2>2, <2>5, <1>16
  <2>11. w.failure = "none"
    BY <1>21
  <2> QED BY <2>6, <2>9, <2>10, <2>11, <1>13, <1>15, <1>22, <1>26 DEF Shape, Remembering, Rootless
<1> QED BY <1>20, <1>25, <1>26

\* The rules of the mode after_head.
LEMMA AfterHeadShape ==
    ASSUME NEW D, Keeps(D), KeepsShape(D), NEW s, Fits("after_head", s), NEW t \in Tokens
    PROVE  Shape(after_head(D, s, t))
<1>1. Sane(s) /\ s \in Trees /\ Stands("after_head", s) /\ Shape(s) /\ s.open \in Seq(Elements)
  BY FitsShape, SaneIs
<1>2. Shape(Ignored(s)) /\ Shape(Write(s)) /\ Shape(HtmlStartTagInBody(s))
  BY <1>1, AgainFits, WriteFits, FitsShape DEF HtmlStartTagInBody
<1>3. PICK r : r = insert_an_HTML_element(s, t.name)
  OBVIOUS
<1>4. PICK e : e = Last(r.open)
  OBVIOUS
<1>5. /\ r \in Trees /\ r.form = s.form /\ (r.failure = s.failure)
      /\ e \in Elements /\ e.name = t.name /\ r.open = Append(s.open, e)
  <2>1. t.name \in Names
    BY TokenIs
  <2>2. /\ Whole(r) /\ r.form = s.form /\ (r.failure = s.failure)
        /\ Last(r.open) \in Elements /\ Last(r.open).name = t.name
        /\ r.open = Append(s.open, Last(r.open))
    <3>1. Planted(s)
      BY FitsPlanted
    <3> QED BY <3>1, <2>1, <1>1, <1>3, InsertedIs
  <2> QED BY <2>2, <1>4 DEF Whole
<1>6. /\ r.open \in Seq(Elements) /\ Len(r.open) = Len(s.open) + 1
      /\ r.open[Len(s.open) + 1] = e /\ \A k \in 1 .. Len(s.open) : r.open[k] = s.open[k]
  BY <1>1, <1>5, AppendIs
<1>7. ASSUME t.name = "body" PROVE Ready("in_body", r)
  <2>1. SUFFICES ASSUME r.failure = "none"
                 PROVE  FormNamed(r) /\ Standing("in_body", r.open)
    BY <1>1, <1>5 DEF Ready, Stands
  <2>2. FormNamed(r) /\ Len(s.open) = 1 /\ HtmlFirst(s.open)
    BY <2>1, <1>1, <1>5 DEF Stands, FormNamed, Standing
  <2>3. Len(r.open) = 2 /\ r.open[2].name = "body"
    BY <2>2, <1>5, <1>6, <1>7
  <2>4. HtmlFirst(r.open)
    BY <2>2, <1>1, <1>5, <1>7, HtmlPushed
  <2>5. Tower(r.open) /\ Within(r.open, Len(r.open), {"body"})
    BY <2>3, FrameNames DEF Tower, Within
  <2>6. Level(Holders("in_body"), r.open)
    BY <2>4, <2>5 DEF Level, Holders
  <2> QED BY <2>2, <2>4, <2>6, StandingSteady DEF Steady, Leveled
<1>8. IsStart(t, {"body"}) =>
          Shape([switch_the_insertion_mode(r, "in_body") EXCEPT !.frameset_ok = FALSE])
  <2>1. SUFFICES ASSUME t.name = "body"
                 PROVE  Shape([switch_the_insertion_mode(r, "in_body")
                                  EXCEPT !.frameset_ok = FALSE])
    BY DEF IsStart
  <2>2. Shape(switch_the_insertion_mode(r, "in_body"))
    BY <2>1, <1>5, <1>7, SwitchShape
  <2>3. switch_the_insertion_mode(r, "in_body") \in Trees
    BY <1>5 DEF switch_the_insertion_mode, Trees, Modes
  <2> QED BY <2>2, <2>3, FlagsShape
<1>9. IsStart(t, {"frameset"}) => Shape(switch_the_insertion_mode(r, "in_frameset"))
  <2>1. SUFFICES ASSUME t.name = "frameset" PROVE Ready("in_frameset", r)
    BY <1>5, SwitchShape DEF IsStart
  <2>2. SUFFICES ASSUME r.failure = "none"
                 PROVE  FormNamed(r) /\ Standing("in_frameset", r.open)
    BY <1>1, <1>5 DEF Ready, Stands
  <2>3. FormNamed(r) /\ HtmlFirst(s.open)
    BY <2>2, <1>1, <1>5 DEF Stands, FormNamed, Standing
  <2>4. HtmlFirst(r.open)
    BY <2>1, <2>3, <1>1, <1>5, HtmlPushed
  <2> QED BY <2>3, <2>4, StandingSteady DEF Steady, Leveled
<1>10. IsStart(t, HeadContent) =>
           Shape(remove_node_from_the_stack_of_open_elements(
                     OnBehalf(in_head(D, Push(s, s.head), t)), s.head))
  BY HeadAgainShape
<1>11. Shape(Again([act_as_if_a_start_tag_token_had_been_seen(D, s, "body")
                       EXCEPT !.frameset_ok = TRUE]))
  <2>1. PICK u : u = act_as_if_a_start_tag_token_had_been_seen(D, s, "body")
    OBVIOUS
  <2>2. "body" \in Names
    BY NamesHave
  <2>3. Shape(u) /\ Sane(u)
    BY <2>1, <2>2, <1>1, MadeUpShape, MadeUpSane
  <2>4. Shape([u EXCEPT !.frameset_ok = TRUE]) /\ Sane([u EXCEPT !.frameset_ok = TRUE])
    BY <2>3, SaneIs, FlagsShape, FlagsSane
  <2> QED BY <2>1, <2>4, SaneIs, FlagsShape
<1> QED BY <1>2, <1>3, <1>8, <1>9, <1>10, <1>11 DEF after_head

-------------------------------------------------------------------------------
(* The start tags of the body *)

\* The names of the tags that the rules of the body open or close inside the frame.
Flowing == Blocks \cup Headings \cup FormattingNames
    \cup {"p", "pre", "listing", "plaintext", "hr", "form", "li", "dd", "dt", "button", "a", "nobr",
          "area", "br", "embed", "img", "keygen", "wbr", "input", "menuitem", "param", "source",
          "track", "textarea", "xmp", "iframe", "noembed", "optgroup", "option", "rp", "rt"}

\* None of those is of the frame.
LEMMA FlowingFramed == Flowing \cap (Framed \cup Embedded) = {}
BY DEF Flowing, Blocks, Headings, FormattingNames, Framed, Embedded, Resetting, Cells, Sections

\* Closing an open p element before a tag leaves the frame as it was.
LEMMA ClosePFits ==
    ASSUME NEW D, Keeps(D), KeepsShape(D), NEW m \in Bodies, NEW s, Fits(m, s)
    PROVE  Fits(m, CloseP(D, s))
<1>1. Fits(m, act_as_if_an_end_tag_token_had_been_seen(D, s, "p"))
  BY InnerMadeUp
<1> QED BY <1>1 DEF CloseP

\* The start tags of StructureStart.
LEMMA StructureStartShape ==
    ASSUME NEW D, Keeps(D), KeepsShape(D), NEW m \in Bodies, NEW s, Fits(m, s), NEW t \in Tokens
    PROVE  Shape(StructureStart(D, s, t))
<1>1. Shape(s) /\ Sane(s) /\ s \in Trees
  BY FitsShape, SaneIs
<1>2. Shape(HtmlStartTagInBody(s)) /\ Shape(Ignored(s)) /\ Shape([s EXCEPT !.frameset_ok = FALSE])
  BY <1>1, FlagsShape DEF HtmlStartTagInBody
<1>3. IsStart(t, HeadContent) => Shape(OnBehalf(in_head(D, s, t)))
  BY <1>1, HeadContentShape, InHeadSane, SaneIs, FlagsShape DEF Bodies, Rootless
<1>4. s.open = <<>> => Shape(Fail(s, "empty"))
  <2>1. Planted(s)
    BY FitsPlanted, BodiesAre DEF Steady, Leveled
  <2>2. s.open = <<>> => s.failure # "none"
    BY <2>1 DEF Planted
  <2> QED BY <2>2, FailuresHave, FailFits, FitsShape
<1> QED BY <1>1, <1>2, <1>3, <1>4 DEF StructureStart

\* The start tags of BlockStart.
LEMMA BlockStartFits ==
    ASSUME NEW D, Keeps(D), KeepsShape(D), NEW m \in Bodies, NEW s, Fits(m, s), NEW t \in Tokens,
           t.name \in Blocks \cup Headings \cup {"p", "pre", "listing", "plaintext", "hr"}
    PROVE  Fits(m, BlockStart(D, s, t))
<1>1. t.name \in Names /\ t.name \notin Framed \cup Embedded /\ m \in Steady
  BY TokenIs, FlowingFramed, BodiesAre DEF Flowing
<1>2. PICK closed : closed = CloseP(D, s)
  OBVIOUS
<1>3. Fits(m, closed)
  BY <1>2, ClosePFits
<1>4. PICK r : r = insert_an_HTML_element(closed, t.name)
  OBVIOUS
<1>5. Fits(m, r)
  BY <1>1, <1>3, <1>4, InsertFits
<1>6. Fits(m, insert_an_HTML_element(
                  IF CurrentIs(closed, Headings) THEN Pop(closed) ELSE closed, t.name))
  <2>1. Headings \cap Framed = {}
    BY FlowingFramed DEF Flowing
  <2>2. CurrentIs(closed, Headings) => Fits(m, Pop(closed))
    BY <2>1, <1>1, <1>3, PopFits
  <2> QED BY <2>2, <1>1, <1>3, InsertFits
<1>7. Fits(m, [r EXCEPT !.ignore_line_feed = TRUE, !.frameset_ok = FALSE])
  BY <1>5, AgainFits
<1>8. Fits(m, [r EXCEPT !.content = "PLAINTEXT"])
  <2>1. "PLAINTEXT" \in TS!Contents
    BY DEF TS!Contents
  <2> QED BY <2>1, <1>5, FieldsFit
<1>9. Fits(m, [InsertAndPop(closed, t.name) EXCEPT !.frameset_ok = FALSE])
  BY <1>1, <1>3, InsertAndPopFits, FlagsFit DEF Steady, Leveled
<1> QED BY <1>2, <1>4, <1>5, <1>6, <1>7, <1>8, <1>9 DEF BlockStart

\* A form is opened, and pointed to.
LEMMA InsertFormFits ==
    ASSUME NEW m \in Steady, NEW s, Fits(m, s), NEW r, r = insert_an_HTML_element(s, "form")
    PROVE  Fits(m, [r EXCEPT !.form = Last(r.open)])
<1>1. "form" \in Names /\ "form" \notin Framed \cup Embedded
  BY NamesHave, FlowingFramed DEF Flowing
<1>2. Fits(m, r)
  BY <1>1, InsertFits
<1>3. PICK e : e = Last(r.open)
  OBVIOUS
<1>4. e \in Elements /\ e.name = "form"
  <2>1. Sane(s)
    BY FitsShape
  <2> QED BY <2>1, <1>1, <1>3, InsertedIs
<1> QED BY <1>2, <1>3, <1>4, FieldsFit

\* The start tags of FormStart.
LEMMA FormStartFits ==
    ASSUME NEW D, Keeps(D), KeepsShape(D), NEW m \in Bodies, NEW s, Fits(m, s), NEW t,
           t.name = "form"
    PROVE  Fits(m, FormStart(D, s, t))
<1>1. m \in Steady
  BY BodiesAre
<1>2. PICK r : r = insert_an_HTML_element(CloseP(D, s), "form")
  OBVIOUS
<1>3. Fits(m, [r EXCEPT !.form = Last(r.open)])
  BY <1>1, <1>2, ClosePFits, InsertFormFits
<1> QED BY <1>2, <1>3, AgainFits DEF FormStart

\* The start tags of ItemStart.
LEMMA ItemStartFits ==
    ASSUME NEW D, Keeps(D), KeepsShape(D), NEW m \in Bodies, NEW s, Fits(m, s), NEW t \in Tokens,
           t.name = "li"
    PROVE  Fits(m, ItemStart(D, s, t))
<1>1. t.name \in Names /\ t.name \notin Framed \cup Embedded /\ m \in Steady
  BY TokenIs, FlowingFramed, BodiesAre DEF Flowing
<1>2. Fits(m, act_as_if_an_end_tag_token_had_been_seen(D, s, "li"))
  BY InnerMadeUp
<1>3. ASSUME NEW r, Fits(m, r)
      PROVE  Fits(m, [insert_an_HTML_element(CloseP(D, r), t.name) EXCEPT !.frameset_ok = FALSE])
  BY <1>1, <1>3, ClosePFits, InsertFits, FlagsFit
<1> QED BY <1>2, <1>3 DEF ItemStart

\* Elements are popped that nobody looked at: the frame stays, or the failure says that not.
LEMMA PopUnseenFits ==
    ASSUME NEW m \in Bodies, NEW s, Fits(m, s), NEW n \in 0 .. Len(s.open)
    PROVE  Fits(m, PopUnseen(s, n))
<1>1. Sane(s) /\ m \in Steady /\ 0 \in 0 .. Len(s.open) /\ s.open \in Seq(Elements)
  BY SaneIs, BodiesAre DEF Fits
<1>2. CutTo(s, Shrunk(s, n), n) /\ CutTo(s, Shrunk(s, 0), 0)
  BY <1>1, ShrunkIs
<1>3. ASSUME NEW r, Sane(r), r.failure = s.failure, NEW why \in {"passed", "astray"}
      PROVE  Fits(m, Fail(r, why))
  <2>1. r \in Trees /\ Whole(r) /\ why \in Failures /\ why # "none"
    BY <1>3, SaneIs DEF Failures
  <2>2. Sane(Fail(r, why))
    BY <2>1, FailSane
  <2>3. Fail(r, why).failure = IF r.failure = "none" THEN why ELSE r.failure
    BY <2>1, FailIs
  <2>4. Fail(r, why).failure \in Lawful
    BY <2>3, <1>3 DEF Fits, Stands, Lawful
  <2> QED BY <2>2, <2>4, FailedFits
<1>4. CASE n = 0
  <2>1. Fits(m, Fail(Shrunk(s, 0), "passed"))
    BY <1>2, <1>3 DEF CutTo
  <2> QED BY <2>1, <1>4 DEF PopUnseen
<1>5. CASE n # 0 /\ \E i \in n + 1 .. Len(s.open) : s.open[i].name \in Resetting
  <2>1. Fits(m, Fail(Shrunk(s, n), "astray"))
    BY <1>2, <1>3 DEF CutTo
  <2> QED BY <2>1, <1>5 DEF PopUnseen
<1>6. CASE n # 0 /\ \A i \in n + 1 .. Len(s.open) : s.open[i].name \notin Resetting
  <2>1. ASSUME Standing(m, s.open), NEW k \in n + 1 .. Len(s.open)
        PROVE  s.open[k].name \notin Framed
    <3>1. HtmlFirst(s.open)
      BY <2>1, <1>1, StandingSteady
    <3>2. k \in 2 .. Len(s.open)
      BY <1>1, <1>6
    <3> QED BY <3>1, <3>2, <1>6 DEF HtmlFirst, Framed
  <2>2. Fits(m, Shrunk(s, n))
    BY <2>1, <1>1, <1>2, CutFits
  <2> QED BY <2>2, <1>6 DEF PopUnseen
<1> QED BY <1>4, <1>5, <1>6

\* An element is closed down to the next of its name.
LEMMA PopBeforeFits ==
    ASSUME NEW m \in Bodies, NEW s, Fits(m, s), NEW name
    PROVE  Fits(m, PopBefore(s, name))
<1>1. PICK r : r = generate_implied_end_tags(s, {name})
  OBVIOUS
<1>2. Fits(m, r) /\ Sane(r)
  BY <1>1, ImpliedFits, BodiesAre DEF Fits
<1>3. LastNamed(Pop(r), {name}) \in 0 .. Len(r.open)
  BY <1>2, LeftIsLess
<1> QED BY <1>1, <1>2, <1>3, PopUnseenFits DEF PopBefore

\* The start tags of DefinitionStart.
LEMMA DefinitionStartFits ==
    ASSUME NEW m \in Bodies, NEW s, Fits(m, s), NEW t \in Tokens, t.name \in {"dd", "dt"}
    PROVE  Fits(m, DefinitionStart(s, t))
<1>1. t.name \in Names /\ t.name \notin Framed \cup Embedded /\ m \in Steady
  BY TokenIs, FlowingFramed, BodiesAre DEF Flowing
<1>2. PICK i : i = LastNamed(s, Bounding)
  OBVIOUS
<1>3. PICK closed : closed = IF i > 0 /\ s.open[i].name \in {"dd", "dt"}
                             THEN PopBefore(s, s.open[i].name)
                             ELSE s
  OBVIOUS
<1>4. Fits(m, closed)
  BY <1>3, PopBeforeFits
<1>5. PICK no_p : no_p = IF has_element_in_button_scope(closed, "p")
                         THEN close_a_p_element(closed)
                         ELSE closed
  OBVIOUS
<1>6. Fits(m, no_p)
  BY <1>4, <1>5, PopBeforeFits DEF close_a_p_element
<1>7. Fits(m, [insert_an_HTML_element(no_p, t.name) EXCEPT !.frameset_ok = FALSE])
  BY <1>1, <1>6, InsertFits, FlagsFit
<1> QED BY <1>2, <1>3, <1>5, <1>7 DEF DefinitionStart

\* A self-closing foreign element is not opened, and the current node is popped for it.
LEMMA ForeignStartFits ==
    ASSUME NEW m \in Bodies, NEW s, Fits(m, s), NEW t
    PROVE  Fits(m, ForeignStart(s, t))
<1>1. PICK r : r = reconstruct_the_active_formatting_elements(s)
  OBVIOUS
<1>2. Fits(m, r) /\ Sane(r) /\ Sane(Pop(r)) /\ r \in Trees /\ m \in Steady
  BY <1>1, ReconstructFits, BodiesAre, PopSane, SaneIs DEF Fits, Steady, Leveled
<1>3. PICK u : u = Pop(r)
  OBVIOUS
<1>4. ASSUME r.failure # "none" PROVE Fits(m, u) /\ Fits(m, Fail(u, "astray"))
  <2>1. u.failure = r.failure
    BY <1>2, <1>3, <1>4, PopIs, FailIs, FailuresHave DEF Pop
  <2>2. u.failure \in Lawful
    BY <2>1, <1>2, <1>4 DEF Fits, Stands
  <2>3. Fits(m, u)
    BY <2>2, <1>2, <1>3, FailedFits
  <2> QED BY <2>3, FailFits DEF Lawful
<1>5. ASSUME r.failure = "none" PROVE Standing(m, r.open) /\ Level(Holders(m), r.open)
  BY <1>2, <1>5, BodiesAre, StandingSteady DEF Fits, Stands
<1>6. ASSUME r.failure = "none", CurrentIs(r, Resetting) PROVE Fits(m, Fail(u, "astray"))
  <2>1. u.failure = r.failure /\ u \in Trees /\ Whole(u)
    BY <1>2, <1>3, <1>6, PopIs, SaneIs DEF CurrentIs
  <2>2. Fail(u, "astray").failure = "astray" /\ Sane(Fail(u, "astray"))
    BY <2>1, <1>6, FailIs, FailSane, FailuresHave
  <2> QED BY <2>2, FailedFits DEF Lawful
<1>7. ASSUME r.failure = "none", ~CurrentIs(r, Resetting) PROVE Fits(m, u)
  <2>1. Len(r.open) \in Nat /\ r.open \in Seq(Elements)
    BY <1>2, SaneIs
  <2>2. Len(r.open) >= 2 /\ HtmlFirst(r.open)
    BY <1>5, <1>7 DEF Level, Tower
  <2>3. r.open # <<>> /\ Last(r.open) = r.open[Len(r.open)] /\ Len(r.open) \in 2 .. Len(r.open)
    BY <2>1, <2>2 DEF Last
  <2>4. CurrentIs(r, {Last(r.open).name})
    BY <2>3 DEF CurrentIs
  <2>5. Last(r.open).name \notin Framed
    BY <2>2, <2>3, <1>7 DEF CurrentIs, HtmlFirst, Framed
  <2> QED BY <2>4, <2>5, <1>2, <1>3, PopFits
<1> QED BY <1>1, <1>2, <1>3, <1>4, <1>6, <1>7 DEF ForeignStart

\* Formatting elements are opened again, and an element of a name is.
LEMMA ReopenedInsertFits ==
    ASSUME NEW m \in Steady, NEW s, Fits(m, s), NEW name \in Names, name \notin Framed \cup Embedded
    PROVE  /\ Fits(m, insert_an_HTML_element(reconstruct_the_active_formatting_elements(s), name))
           /\ Fits(m, InsertAndPop(reconstruct_the_active_formatting_elements(s), name))
BY ReconstructFits, InsertFits, InsertAndPopFits DEF Steady, Leveled

\* The start tags of ButtonStart.
LEMMA ButtonStartShape ==
    ASSUME NEW D, Keeps(D), KeepsShape(D), NEW m \in Bodies, NEW s, Fits(m, s), NEW t \in Tokens,
           t.name = "button"
    PROVE  Shape(ButtonStart(D, s, t))
<1>1. t.name \in Names /\ t.name \notin Framed \cup Embedded /\ m \in Steady /\ "button" \in Names
  BY TokenIs, FlowingFramed, BodiesAre, NamesHave DEF Flowing
<1>2. Shape(Again(act_as_if_an_end_tag_token_had_been_seen(D, s, "button")))
  BY <1>1, FitsShape, MadeUpShape, MadeUpSane, SaneIs, FlagsShape
<1>3. Shape([insert_an_HTML_element(reconstruct_the_active_formatting_elements(s), t.name)
                EXCEPT !.frameset_ok = FALSE])
  BY <1>1, ReopenedInsertFits, FlagsFit, FitsShape
<1> QED BY <1>2, <1>3 DEF ButtonStart

\* The start tags of AnchorStart.
LEMMA AnchorStartFits ==
    ASSUME NEW D, Keeps(D), KeepsShape(D), NEW m \in Bodies, NEW s, Fits(m, s), NEW t \in Tokens,
           t.name \in Listable
    PROVE  Fits(m, AnchorStart(D, s, t))
<1>1. t.name \in Names /\ m \in Steady
  BY TokenIs, BodiesAre
<1>2. PICK named : named = {i \in SinceMarker(s) : s.formatting[i].name = "a"}
  OBVIOUS
<1>3. PICK last : last = CHOOSE i \in named : \A j \in named : j <= i
  OBVIOUS
<1>4. PICK a : a = s.formatting[last]
  OBVIOUS
<1>5. PICK ended : ended = act_as_if_an_end_tag_token_had_been_seen(D, s, "a")
  OBVIOUS
<1>6. PICK closed : closed =
          IF named = {} THEN s
          ELSE remove_node_from_the_stack_of_open_elements(
                   remove_node_from_the_list_of_active_formatting_elements(ended, a), a)
  OBVIOUS
<1>7. Fits(m, ended)
  BY <1>5, InnerMadeUp
<1>8. CASE named = {}
  BY <1>1, <1>2, <1>6, <1>8, ReconstructFits, InsertFormattingFits DEF AnchorStart
<1>9. CASE named # {}
  <2>1. s.formatting \in Seq(Elements) /\ Len(s.formatting) \in Nat
    BY FitsShape, SaneIs
  <2>2. \A i : i \in SinceMarker(s) => i \in 1 .. Len(s.formatting)
    BY <2>1, SinceMarkerIs
  <2>3. named \in SUBSET (0 .. Len(s.formatting))
    BY <2>2, <2>1, <1>2
  <2>4. \E i \in named : \A j \in named : j <= i
    BY <2>1, <2>3, <1>9, Greatest
  <2>5. last \in named
    BY <2>4, <1>3
  <2>6. a.name = "a"
    BY <2>5, <1>2, <1>4
  <2>7. a # Marker /\ a.name \notin Framed
    BY <2>6, FlowingFramed DEF Marker, Flowing
  <2>8. Fits(m, closed)
    BY <2>7, <1>1, <1>6, <1>7, <1>9, RemoveListedFits, RemoveOpenFits
  <2>9. Fits(m, InsertFormatting(reconstruct_the_active_formatting_elements(closed), t.name))
    BY <2>8, <1>1, ReconstructFits, InsertFormattingFits
  <2> QED BY <2>9, <1>2, <1>3, <1>4, <1>5, <1>6 DEF AnchorStart
<1> QED BY <1>8, <1>9

\* The start tags of FormattingStart.
LEMMA FormattingStartFits ==
    ASSUME NEW D, Keeps(D), KeepsShape(D), NEW m \in Bodies, NEW s, Fits(m, s), NEW t \in Tokens,
           t.name \in Listable
    PROVE  Fits(m, FormattingStart(D, s, t))
<1>1. t.name \in Names /\ m \in Steady
  BY TokenIs, BodiesAre
<1>2. PICK r : r = reconstruct_the_active_formatting_elements(s)
  OBVIOUS
<1>3. Fits(m, r)
  BY <1>1, <1>2, ReconstructFits
<1>4. Fits(m, reconstruct_the_active_formatting_elements(
                  act_as_if_an_end_tag_token_had_been_seen(D, r, "nobr")))
  BY <1>1, <1>3, InnerMadeUp, ReconstructFits
<1>5. ASSUME NEW u, Fits(m, u) PROVE Fits(m, InsertFormatting(u, t.name))
  BY <1>1, <1>5, InsertFormattingFits
<1> QED BY <1>2, <1>3, <1>4, <1>5 DEF FormattingStart

\* The start tags of EmbeddedStart.
LEMMA EmbeddedStartFits ==
    ASSUME NEW m \in Bodies, NEW s, Fits(m, s), NEW t \in Tokens, t.name \in Embedded
    PROVE  Fits(m, EmbeddedStart(s, t))
<1>1. t.name \in Names /\ t.name \notin Framed /\ m \in Steady
  BY TokenIs, BodiesAre DEF Embedded, Framed, Resetting, Cells, Sections
<1>2. PICK r : r = insert_an_HTML_element(reconstruct_the_active_formatting_elements(s), t.name)
  OBVIOUS
<1>3. Stands(m, r) /\ r \in Trees
  <2>1. PICK u : u = reconstruct_the_active_formatting_elements(s)
    OBVIOUS
  <2>2. Fits(m, u) /\ Sane(u)
    BY <2>1, <1>1, ReconstructFits, FitsShape
  <2>3. Stands(m, r)
    BY <2>1, <2>2, <1>1, <1>2, InsertStands
  <2>4. Whole(r)
    BY <2>1, <2>2, <1>1, <1>2, InsertedIs
  <2> QED BY <2>3, <2>4 DEF Whole
<1>4. PICK u : u = Marked(r)
  OBVIOUS
<1>5. Stands(m, u) /\ u \in Trees
  <2>1. Stands(m, u)
    BY <1>3, <1>4, ListStands
  <2>2. PICK x : x = Append(r.formatting, Marker)
    OBVIOUS
  <2>3. x \in Seq(Elements)
    <3>1. r.formatting \in Seq(Elements)
      BY <1>3 DEF Trees
    <3> QED BY <3>1, <2>2, MarkerIs
  <2>4. u = [r EXCEPT !.formatting = x]
    BY <1>4, <2>2 DEF Marked
  <2>5. u \in Trees
    BY <2>3, <2>4, <1>3 DEF Trees
  <2> QED BY <2>1, <2>5
<1>6. Stands(m, [u EXCEPT !.frameset_ok = FALSE])
  BY <1>5 DEF Stands, FormNamed, Trees
<1>7. Sane(EmbeddedStart(s, t))
  BY FitsShape, EmbeddedStartSane
<1> QED BY <1>2, <1>4, <1>6, <1>7 DEF EmbeddedStart, Fits

\* The last of the frame may have one of more names.
LEMMA LevelMoreNames ==
    ASSUME NEW names, NEW open, Level(names, open), NEW more, names \cap Resetting \subseteq more
    PROVE  Level(more, open)
<1>1. Within(open, Len(open), more)
  BY DEF Level, Within
<1> QED BY <1>1 DEF Level

\* An element of the frame that is opened in one of its parents makes the stack what it
\* should be in its own mode.
LEMMA EnteredReady ==
    ASSUME NEW s, Sane(s), NEW names, Topped(names, s),
           NEW name \in Names, name \in Resetting, names \cap Resetting \subseteq Parents(name),
           NEW m \in Leveled, name \in Holders(m), m = "in_column_group" => name = "colgroup"
    PROVE  Ready(m, insert_an_HTML_element(s, name))
<1>1. PICK r : r = insert_an_HTML_element(s, name)
  OBVIOUS
<1>2. PICK e : e = Last(r.open)
  OBVIOUS
<1>3. /\ r.form = s.form /\ (r.failure = s.failure)
      /\ e \in Elements /\ e.name = name /\ r.open = Append(s.open, e)
  <2>1. Planted(s)
    BY DEF Planted, Topped, Level, HtmlFirst
  <2> QED BY <2>1, <1>1, <1>2, InsertedIs
<1>4. SUFFICES ASSUME r.failure = "none" PROVE FormNamed(r) /\ Standing(m, r.open)
  BY <1>1, <1>3 DEF Ready, Topped
<1>5. FormNamed(r) /\ Level(names, s.open) /\ s.open \in Seq(Elements)
  BY <1>3, <1>4, SaneIs DEF FormNamed, Topped
<1>6. PICK o : o = r.open
  OBVIOUS
<1>7. o = Append(s.open, e) /\ Last(o) = e
  BY <1>2, <1>3, <1>6
<1>8. Level({name}, o)
  BY <1>3, <1>5, <1>7, LevelPushed
<1>9. Level(Holders(m), o)
  BY <1>8, LevelMoreNames
<1>10. HtmlFirst(o) /\ m \in Modes \ Remembering
       /\ m \notin {"initial", "before_html", "before_head", "after_head", "in_head",
                    "in_head_noscript"}
  BY <1>9, HoldersAre DEF Level, Leveled
<1>11. Standing(m, o)
  BY <1>3, <1>7, <1>9, <1>10 DEF Standing
<1> QED BY <1>5, <1>6, <1>11

\* The last of the frame is the one for the mode.
LEMMA FitsLevel ==
    ASSUME NEW m \in Leveled, NEW s, Fits(m, s)
    PROVE  Topped(Holders(m), s)
BY DEF Fits, Stands, Standing, Topped

\* The start tags of TableStart.
LEMMA TableStartShape ==
    ASSUME NEW D, Keeps(D), KeepsShape(D), NEW m \in Bodies, NEW s, Fits(m, s), NEW t,
           t.name = "table"
    PROVE  Shape(TableStart(D, s, t))
<1>1. PICK u : u = IF s.quirks THEN s ELSE CloseP(D, s)
  OBVIOUS
<1>2. Fits(m, u) /\ Sane(u)
  BY <1>1, ClosePFits, FitsShape
<1>3. m \in Leveled /\ Holders(m) \subseteq Parents("table")
  BY BodiesAre
<1>4. Topped(Holders(m), u)
  BY <1>2, <1>3, FitsLevel
<1>5. "table" \in Names /\ "table" \in Resetting /\ "table" \in Holders("in_table")
      /\ "in_table" \in Leveled /\ "in_table" # "in_column_group"
  BY NamesHave DEF Resetting, Holders, Leveled
<1>6. PICK r : r = insert_an_HTML_element(u, "table")
  OBVIOUS
<1>7. Ready("in_table", r)
  BY <1>2, <1>3, <1>4, <1>5, <1>6, EnteredReady
<1>8. r \in Trees
  BY <1>2, <1>5, <1>6, InsertedIs DEF Whole
<1>9. PICK v : v = [r EXCEPT !.frameset_ok = FALSE]
  OBVIOUS
<1>10. v \in Trees /\ v.failure = r.failure /\ v.form = r.form /\ v.open = r.open
  BY <1>8, <1>9 DEF Trees
<1>11. Shape(switch_the_insertion_mode(v, "in_table"))
  BY <1>7, <1>10, ReadyFrame, SwitchShape
<1> QED BY <1>1, <1>6, <1>9, <1>11 DEF TableStart

\* The start tags of SelectStart.
LEMMA SelectStartShape ==
    ASSUME NEW m \in Bodies, NEW s, Fits(m, s), NEW t, t.name = "select"
    PROVE  Shape(SelectStart(s, t))
<1>1. PICK u : u = reconstruct_the_active_formatting_elements(s)
  OBVIOUS
<1>2. Fits(m, u) /\ Sane(u)
  BY <1>1, BodiesAre, ReconstructFits, FitsShape
<1>3. m \in Leveled /\ Holders(m) \subseteq Parents("select")
  BY BodiesAre
<1>4. Topped(Holders(m), u)
  BY <1>2, <1>3, FitsLevel
<1>5. "select" \in Names /\ "select" \in Resetting
      /\ \A n \in Selects : /\ "select" \in Holders(n) /\ n \in Leveled
                            /\ n # "in_column_group"
  BY NamesHave DEF Resetting, Holders, Leveled, Selects
<1>6. PICK r : r = insert_an_HTML_element(u, "select")
  OBVIOUS
<1>7. \A n \in Selects : Ready(n, r)
  BY <1>2, <1>3, <1>4, <1>5, <1>6, EnteredReady
<1>8. r \in Trees
  BY <1>2, <1>5, <1>6, InsertedIs DEF Whole
<1>9. PICK v : v = [r EXCEPT !.frameset_ok = FALSE]
  OBVIOUS
<1>10. v \in Trees /\ v.failure = r.failure /\ v.form = r.form /\ v.open = r.open
  BY <1>8, <1>9 DEF Trees
<1>11. \A n \in Selects : Shape(switch_the_insertion_mode(v, n))
  BY <1>7, <1>10, ReadyFrame, SwitchShape
<1> QED BY <1>1, <1>6, <1>9, <1>11 DEF SelectStart, Selects

\* The start tags of VoidStart.
LEMMA VoidStartFits ==
    ASSUME NEW m \in Bodies, NEW s, Fits(m, s), NEW t \in Tokens,
           t.name \in {"area", "br", "embed", "img", "keygen", "wbr", "input", "menuitem",
                       "param", "source", "track"}
    PROVE  Fits(m, VoidStart(s, t))
<1>1. t.name \in Names /\ t.name \notin Framed \cup Embedded /\ m \in Steady
  BY TokenIs, FlowingFramed, BodiesAre DEF Flowing
<1>2. Fits(m, InsertAndPop(s, t.name))
  BY <1>1, InsertAndPopFits DEF Steady, Leveled
<1>3. Fits(m, [InsertAndPop(reconstruct_the_active_formatting_elements(s), t.name)
                  EXCEPT !.frameset_ok = FALSE])
  BY <1>1, ReopenedInsertFits, FlagsFit
<1> QED BY <1>2, <1>3 DEF VoidStart

\* The start tags of ImageStart.
LEMMA ImageStartShape ==
    ASSUME NEW D, Keeps(D), KeepsShape(D), NEW s, Sane(s), Shape(s), NEW t \in Tokens,
           t.type = "start"
    PROVE  Shape(ImageStart(D, s, t))
<1>1. PICK x : x = [t EXCEPT !.name = "img"]
  OBVIOUS
<1>2. x \in Tokens
  BY <1>1, TokenIs
<1>3. x.name = "img" /\ x.type = "start"
  BY <1>1 DEF Tokens
<1>4. Plain(x)
  BY <1>3 DEF Plain
<1>5. Shape(D[s][x])
  BY <1>2, <1>4, SaneIs DEF KeepsShape
<1> QED BY <1>1, <1>5 DEF ImageStart

\* The start tags of IsIndexStart.
LEMMA IsIndexStartShape ==
    ASSUME NEW D, Keeps(D), KeepsShape(D), NEW s, Sane(s), Shape(s)
    PROVE  Shape(IsIndexStart(D, s))
<1>1. "form" \in Names /\ "hr" \in Names /\ "label" \in Names
  BY NamesHave
<1> DEFINE Both(r) == Sane(r) /\ Shape(r)
<1>2. ASSUME NEW r, Both(r)
      PROVE  /\ Both(act_as_if_a_start_tag_token_had_been_seen(D, r, "form"))
             /\ Both(act_as_if_a_start_tag_token_had_been_seen(D, r, "hr"))
             /\ Both(act_as_if_a_start_tag_token_had_been_seen(D, r, "label"))
             /\ Both(act_as_if_an_end_tag_token_had_been_seen(D, r, "label"))
             /\ Both(act_as_if_an_end_tag_token_had_been_seen(D, r, "form"))
  BY <1>1, <1>2, MadeUpSane, MadeUpShape
<1>3. Both(s)
  OBVIOUS
<1> HIDE DEF Both
<1>4. s.form = NoElement => Both(IsIndexStart(D, s))
  BY <1>2, <1>3 DEF IsIndexStart
<1>5. Shape(Ignored(s))
  BY SaneIs, FlagsShape
<1>6. \A r : Both(r) => Shape(r)
  BY DEF Both
<1> QED BY <1>4, <1>5, <1>6 DEF IsIndexStart

\* The start tags of TextStart.
LEMMA TextStartShape ==
    ASSUME NEW D, Keeps(D), KeepsShape(D), NEW m \in Bodies, NEW s, Fits(m, s), NEW t \in Tokens,
           t.name \in {"textarea", "xmp", "iframe", "noembed"}
    PROVE  Shape(TextStart(D, s, t))
<1>1. t.name \in Names /\ t.name \notin Framed \cup Embedded /\ m \in Steady
      /\ t.name \notin Coverings
  BY TokenIs, FlowingFramed, CoveringsFramed, BodiesAre DEF Flowing
<1>2. PICK r : r = [s EXCEPT !.frameset_ok = FALSE]
  OBVIOUS
<1>3. Fits(m, r) /\ Sane(r)
  BY <1>2, FlagsFit, FitsShape
<1>4. PICK u : u = reconstruct_the_active_formatting_elements(
                       [CloseP(D, s) EXCEPT !.frameset_ok = FALSE])
  OBVIOUS
<1>5. Fits(m, u)
  BY <1>1, <1>4, ClosePFits, FlagsFit, ReconstructFits
<1>6. PICK g : g = generic_element_parsing_algorithm(r, t.name, "RCDATA")
  OBVIOUS
<1>7. Shape([g EXCEPT !.ignore_line_feed = TRUE])
  <2>1. Shape(g)
    BY <1>1, <1>3, <1>6, GenericShape DEF Bodies, Rootless
  <2>2. "RCDATA" \in TS!Contents
    BY DEF TS!Contents
  <2>3. g \in Trees
    BY <2>2, <1>1, <1>3, <1>6, GenericSane, SaneIs
  <2> QED BY <2>1, <2>3, FlagsShape
<1>8. /\ Shape(generic_element_parsing_algorithm(u, t.name, "RAWTEXT"))
      /\ Shape(generic_element_parsing_algorithm(r, t.name, "RAWTEXT"))
      /\ Shape(generic_element_parsing_algorithm(s, t.name, "RAWTEXT"))
  BY <1>1, <1>3, <1>5, GenericShape DEF Bodies, Rootless
<1> QED BY <1>2, <1>4, <1>6, <1>7, <1>8 DEF TextStart

\* The start tags of OtherStart.
LEMMA OtherStartFits ==
    ASSUME NEW D, Keeps(D), KeepsShape(D), NEW m \in Bodies, NEW s, Fits(m, s), NEW t \in Tokens,
           t.name \notin Embedded \cup {"html", "body", "frameset", "table", "select"}
    PROVE  Fits(m, OtherStart(D, s, t))
<1>1. t.name \in Names /\ m \in Steady
  BY TokenIs, BodiesAre
<1>2. ASSUME t.name \in {"optgroup", "option"} PROVE Fits(m, OptionStart(D, s, t))
  <2>1. t.name \notin Framed \cup Embedded
    BY <1>2, FlowingFramed DEF Flowing
  <2>2. Fits(m, act_as_if_an_end_tag_token_had_been_seen(D, s, "option"))
    BY InnerMadeUp
  <2> QED BY <2>1, <2>2, <1>1, ReopenedInsertFits DEF OptionStart
<1>3. ASSUME t.name \in {"rp", "rt"} PROVE Fits(m, RubyStart(s, t))
  <2>1. t.name \notin Framed \cup Embedded
    BY <1>3, FlowingFramed DEF Flowing
  <2>2. Fits(m, generate_implied_end_tags(s, {}))
    BY <1>1, ImpliedFits
  <2> QED BY <2>1, <2>2, <1>1, InsertFits DEF RubyStart
<1>4. Fits(m, ForeignStart(s, t))
  BY ForeignStartFits
<1>5. ASSUME t.name \notin Columns \cup Sections \cup Cells \cup {"frame", "head", "tr"}
      PROVE  Fits(m, insert_an_HTML_element(reconstruct_the_active_formatting_elements(s), t.name))
  <2>1. t.name \notin Framed \cup Embedded
    BY <1>5 DEF Framed, Resetting, Columns
  <2> QED BY <2>1, <1>1, ReopenedInsertFits
<1> QED BY <1>2, <1>3, <1>4, <1>5, AgainFits DEF OtherStart

\* Any start tag in the body.
LEMMA InBodyStartYields ==
    ASSUME NEW D, Keeps(D), KeepsShape(D), NEW m \in Bodies, NEW s, Fits(m, s), NEW t \in Tokens,
           t.type = "start"
    PROVE  Yields(m, InBodyStart(D, s, t), t)
<1>1. Sane(s) /\ Shape(s)
  BY FitsShape
<1>2. \A r : Fits(m, r) => Yields(m, r, t)
  BY FitsShape
<1>3. ASSUME t.name \notin {"p", "hr", "form", "label"}, NEW r, Shape(r) PROVE Yields(m, r, t)
  BY <1>3 DEF Yields, Inner, IsStart, IsEnd
<1>4. ASSUME t.name \in HeadContent \cup {"html", "body", "frameset"}
      PROVE  Yields(m, StructureStart(D, s, t), t)
  <2>1. t.name \notin {"p", "hr", "form", "label"}
    BY <1>4 DEF HeadContent
  <2> QED BY <2>1, <1>3, StructureStartShape
<1>5. t.name \in Blocks \cup Headings \cup {"p", "pre", "listing", "plaintext", "hr"} =>
          Yields(m, BlockStart(D, s, t), t)
  BY <1>2, BlockStartFits
<1>6. /\ t.name = "form" => Yields(m, FormStart(D, s, t), t)
      /\ t.name = "li" => Yields(m, ItemStart(D, s, t), t)
      /\ t.name \in {"dd", "dt"} => Yields(m, DefinitionStart(s, t), t)
  BY <1>2, FormStartFits, ItemStartFits, DefinitionStartFits
<1>7. /\ t.name = "button" => Yields(m, ButtonStart(D, s, t), t)
      /\ t.name = "a" => Yields(m, AnchorStart(D, s, t), t)
      /\ t.name \in FormattingNames \cup {"nobr"} => Yields(m, FormattingStart(D, s, t), t)
  BY <1>2, <1>3, ButtonStartShape, AnchorStartFits, FormattingStartFits DEF Listable
<1>8. /\ t.name \in Embedded => Yields(m, EmbeddedStart(s, t), t)
      /\ t.name = "table" => Yields(m, TableStart(D, s, t), t)
      /\ t.name = "select" => Yields(m, SelectStart(s, t), t)
  BY <1>2, <1>3, EmbeddedStartFits, TableStartShape, SelectStartShape
<1>9. t.name \in {"area", "br", "embed", "img", "keygen", "wbr", "input", "menuitem",
                  "param", "source", "track"} => Yields(m, VoidStart(s, t), t)
  BY <1>2, VoidStartFits
<1>10. /\ t.name = "image" => Yields(m, ImageStart(D, s, t), t)
       /\ t.name = "isindex" => Yields(m, IsIndexStart(D, s), t)
       /\ t.name \in {"textarea", "xmp", "iframe", "noembed"} => Yields(m, TextStart(D, s, t), t)
  BY <1>1, <1>3, ImageStartShape, IsIndexStartShape, TextStartShape
<1>11. t.name \notin Embedded \cup {"html", "body", "frameset", "table", "select"} =>
           Yields(m, OtherStart(D, s, t), t)
  BY <1>2, OtherStartFits
<1> QED BY <1>4, <1>5, <1>6, <1>7, <1>8, <1>9, <1>10, <1>11 DEF InBodyStart

-------------------------------------------------------------------------------
(* The end tags of the body *)

\* The end tags of StructureEnd.
LEMMA StructureEndShape ==
    ASSUME NEW D, Keeps(D), KeepsShape(D), NEW s, Fits("in_body", s), NEW t
    PROVE  Shape(StructureEnd(D, s, t))
<1>1. Sane(s) /\ Shape(s) /\ s \in Trees /\ Stands("in_body", s) /\ "body" \in Names
  BY FitsShape, SaneIs, NamesHave
<1>2. Shape(EndThenAgain(D, s, "body"))
  BY <1>1, MadeUpShape
<1>3. Ready("after_body", s)
  <2>1. Holders("after_body") = Holders("in_body")
        /\ {"in_body", "after_body"} \subseteq Steady \cap Leveled
    BY DEF Holders, Steady, Leveled
  <2>2. \A open : Standing("in_body", open) => Standing("after_body", open)
    BY <2>1, StandingSteady
  <2> QED BY <2>2, <1>1 DEF Stands, Ready
<1> QED BY <1>1, <1>2, <1>3, SwitchShape DEF StructureEnd

\* The end tags of BlockEnd.
LEMMA BlockEndFits ==
    ASSUME NEW D, Keeps(D), KeepsShape(D), NEW m \in Bodies, NEW s, Fits(m, s), NEW t \in Tokens,
           t.name \in Blocks \cup Headings \cup Embedded
               \cup {"button", "listing", "pre", "p", "li", "dd", "dt"}
    PROVE  Fits(m, BlockEnd(D, s, t))
<1>1. Fits(m, Ignored(s)) /\ Sane(s)
  BY AgainFits, FitsShape
<1>2. ASSUME NEW names, names \subseteq Flowing \cup Embedded, NEW implied,
             names \cap (ImpliedEnd \ implied) = {},
             NEW scope, Scope \subseteq scope, has_element_in_specific_scope(s, names, scope)
      PROVE  Fits(m, EndThrough(s, names, implied))
  <2>1. Embedded \cap Framed = {}
    BY DEF Embedded, Framed, Resetting, Cells, Sections
  <2>2. names \cap Framed = {}
    BY <2>1, <1>2, FlowingFramed
  <2> QED BY <2>2, <1>2, EndThroughFits
<1>3. Scope \subseteq ListItemScope /\ Scope \subseteq ButtonScope
  BY DEF ListItemScope, ButtonScope
<1>4. ASSUME t.name \in Blocks \cup {"button", "listing", "pre"}, has_element_in_scope(s, {t.name})
      PROVE  Fits(m, EndThrough(s, {t.name}, {}))
  <2>1. t.name \in Flowing /\ t.name \notin ImpliedEnd
    BY <1>4 DEF Flowing, ImpliedEnd, Blocks
  <2>2. {t.name} \subseteq Flowing \cup Embedded /\ {t.name} \cap (ImpliedEnd \ {}) = {}
    BY <2>1
  <2> QED BY <2>2, <1>2, <1>4 DEF has_element_in_scope
<1>5. ASSUME t.name \in {"dd", "dt"}, has_element_in_scope(s, {t.name})
      PROVE  Fits(m, EndThrough(s, {t.name}, {t.name}))
  <2>1. {t.name} \subseteq Flowing \cup Embedded /\ {t.name} \cap (ImpliedEnd \ {t.name}) = {}
    BY <1>5 DEF Flowing
  <2> QED BY <2>1, <1>2, <1>5 DEF has_element_in_scope
<1>6. ASSUME has_element_in_specific_scope(s, {"li"}, ListItemScope)
      PROVE  Fits(m, EndThrough(s, {"li"}, {"li"}))
  <2>1. {"li"} \subseteq Flowing \cup Embedded /\ {"li"} \cap (ImpliedEnd \ {"li"}) = {}
    BY DEF Flowing
  <2> QED BY <2>1, <1>2, <1>3, <1>6
<1>7. ASSUME has_element_in_scope(s, Headings)
      PROVE  Fits(m, EndThrough(s, Headings, {}))
  <2>1. Headings \subseteq Flowing \cup Embedded /\ Headings \cap (ImpliedEnd \ {}) = {}
    BY DEF Flowing, Headings, ImpliedEnd
  <2> QED BY <2>1, <1>2, <1>7 DEF has_element_in_scope
<1>8. has_element_in_button_scope(s, "p") => Fits(m, EndThrough(s, {"p"}, {"p"}))
  <2>1. {"p"} \subseteq Flowing \cup Embedded /\ {"p"} \cap (ImpliedEnd \ {"p"}) = {}
    BY DEF Flowing
  <2> QED BY <2>1, <1>2, <1>3 DEF has_element_in_button_scope
<1>9. Fits(m, Again(act_as_if_a_start_tag_token_had_been_seen(D, s, "p")))
  BY InnerMadeUp, AgainFits
<1>10. ASSUME t.name \in Embedded, has_element_in_scope(s, {t.name})
       PROVE  Fits(m, clear_the_list_of_active_formatting_elements_up_to_the_last_marker(
                          EndThrough(s, {t.name}, {})))
  <2>1. {t.name} \subseteq Flowing \cup Embedded /\ {t.name} \cap (ImpliedEnd \ {}) = {}
        /\ {t.name} \subseteq Coverings
    BY <1>10 DEF Embedded, ImpliedEnd, Coverings
  <2>2. PICK r : r = EndThrough(s, {t.name}, {})
    OBVIOUS
  <2>3. Fits(m, r)
    BY <2>1, <2>2, <1>2, <1>10 DEF has_element_in_scope
  <2>4. Stands(m, clear_the_list_of_active_formatting_elements_up_to_the_last_marker(r))
    <3>1. Slack(r) /\ Sane(r) /\ r \in Trees
      BY <2>1, <2>2, <1>1, EndThroughSane, SaneIs DEF Slack
    <3> QED BY <3>1, <2>3, FitsShape, ListStands
  <2>5. Sane(clear_the_list_of_active_formatting_elements_up_to_the_last_marker(r))
    BY <2>1, <2>2, <1>1, EndedAndClearedSane
  <2> QED BY <2>2, <2>4, <2>5 DEF Fits
<1> QED BY <1>1, <1>4, <1>5, <1>6, <1>7, <1>8, <1>9, <1>10 DEF BlockEnd

\* The end tags of FormEnd.
LEMMA FormEndFits ==
    ASSUME NEW m \in Bodies, NEW s, Fits(m, s)
    PROVE  Fits(m, FormEnd(s))
<1>1. PICK r : r = [s EXCEPT !.form = NoElement]
  OBVIOUS
<1>2. m \in Steady /\ NoElement \in Elements /\ NoElement.name = "none"
  BY BodiesAre, NamesHave DEF NoElement, Elements
<1>3. Fits(m, r)
  BY <1>1, <1>2, FieldsFit
<1>4. PICK u : u = generate_implied_end_tags(r, {})
  OBVIOUS
<1>5. Fits(m, u)
  BY <1>2, <1>3, <1>4, ImpliedFits
<1>6. PICK v : v = remove_node_from_the_stack_of_open_elements(u, s.form)
  OBVIOUS
<1>7. CASE s.failure = "none"
  <2>1. s.form.name \in {"none", "form"}
    BY <1>7 DEF Fits, Stands, FormNamed
  <2>2. s.form.name \notin Framed
    BY <2>1 DEF Framed, Resetting, Cells, Sections
  <2>3. Fits(m, v)
    BY <2>2, <1>2, <1>5, <1>6, RemoveOpenFits
  <2> QED BY <2>3, <1>1, <1>3, <1>4, <1>6, AgainFits DEF FormEnd
<1>8. CASE s.failure # "none"
  <2>1. Sane(r) /\ r.failure \in Lawful
    <3>1. s \in Trees /\ Sane(r) /\ s.failure \in Lawful
      BY <1>3, <1>8, FitsShape, SaneIs DEF Fits, Stands
    <3> QED BY <3>1, <1>1 DEF Trees
  <2>2. u.failure \in Lawful /\ Sane(u)
    BY <2>1, <1>4, <1>5, ImpliedFails, FitsShape DEF Lawful
  <2>3. v.failure = u.failure
    <3>1. PICK i : i = Position(u.open, s.form)
      OBVIOUS
    <3>2. v = u \/ v = [u EXCEPT !.open = RemoveAt(u.open, i)]
      BY <3>1, <1>6 DEF remove_node_from_the_stack_of_open_elements
    <3>3. u \in Trees
      BY <2>2, SaneIs
    <3> QED BY <3>2, <3>3 DEF Trees
  <2>4. Fits(m, v)
    BY <2>2, <2>3, <1>6, RemoveOpenSane, FailedFits
  <2> QED BY <2>4, <1>1, <1>3, <1>4, <1>6, AgainFits DEF FormEnd
<1> QED BY <1>7, <1>8

\* Any end tag in the body.
LEMMA InBodyEndYields ==
    ASSUME NEW D, Keeps(D), KeepsShape(D), NEW m \in Bodies, NEW s, Fits(m, s), NEW t \in Tokens,
           t.type = "end",
           m = "in_body" \/ t.name \notin Holders(m) \cup {"body", "html"}
    PROVE  Yields(m, InBodyEnd(D, s, t), t)
<1>1. Sane(s) /\ Shape(s) /\ s \in Trees /\ "br" \in Names
  BY FitsShape, SaneIs, NamesHave
<1>2. \A r : Fits(m, r) => Yields(m, r, t)
  BY FitsShape
<1>3. t.name \in {"body", "html"} => Yields(m, StructureEnd(D, s, t), t)
  <2>1. t.name \in {"body", "html"} => m = "in_body" /\ ~Inner(t)
    BY DEF Inner, IsStart, IsEnd
  <2> QED BY <2>1, StructureEndShape DEF Yields
<1>4. Yields(m, FormEnd(s), t)
  BY <1>2, FormEndFits
<1>5. t.name \in Blocks \cup Headings \cup Embedded
          \cup {"button", "listing", "pre", "p", "li", "dd", "dt"} =>
          Yields(m, BlockEnd(D, s, t), t)
  BY <1>2, BlockEndFits
<1>6. t.name \in FormattingNames \cup {"a", "nobr"} => Yields(m, adoption_agency_algorithm(s, t), t)
  BY <1>2, AdoptionFits DEF Listable
<1>7. t.name = "br" =>
          Yields(m, Ignored(act_as_if_a_start_tag_token_had_been_seen(D, s, "br")), t)
  <2>1. t.name = "br" => ~Inner(t)
    BY DEF Inner, IsStart, IsEnd
  <2>2. PICK r : r = act_as_if_a_start_tag_token_had_been_seen(D, s, "br")
    OBVIOUS
  <2>3. Shape(r) /\ r \in Trees
    BY <2>2, <1>1, MadeUpShape, MadeUpSane, SaneIs
  <2> QED BY <2>1, <2>2, <2>3, FlagsShape DEF Yields
<1>8. t.name \notin {"body", "html"} => Yields(m, any_other_end_tag_in_body(s, t), t)
  <2>1. t.name \notin {"body", "html"} => t.name \notin Holders(m) \cup {"html"}
    BY DEF Holders
  <2> QED BY <2>1, <1>2, AnyOtherEndFits
<1> QED BY <1>3, <1>4, <1>5, <1>6, <1>7, <1>8 DEF InBodyEnd

\* The rules of the mode in_body.
LEMMA InBodyYields ==
    ASSUME NEW D, Keeps(D), KeepsShape(D), NEW m \in Bodies, NEW s, Fits(m, s), NEW t \in Tokens,
           Plain(t), m = "in_body" \/ ~IsEnd(t, Holders(m) \cup {"body", "html"})
    PROVE  Yields(m, in_body(D, s, t), t)
<1>1. m \in Steady
  BY BodiesAre
<1>2. PICK r : r = Write(reconstruct_the_active_formatting_elements(s))
  OBVIOUS
<1>3. Fits(m, r) /\ Fits(m, [r EXCEPT !.frameset_ok = FALSE]) /\ Fits(m, Ignored(s))
      /\ Fits(m, Write(s))
  BY <1>1, <1>2, ReconstructFits, WriteFits, FlagsFit, AgainFits DEF Steady, Leveled
<1>4. \A x : Fits(m, x) => Yields(m, x, t)
  BY FitsShape
<1>5. t.type = "start" => Yields(m, InBodyStart(D, s, t), t)
  BY InBodyStartYields
<1>6. t.type = "end" => Yields(m, InBodyEnd(D, s, t), t)
  BY InBodyEndYields DEF IsEnd
<1>7. t.type \in {"start", "end", "comment", "doctype", "character"}
  BY TokenIs DEF Plain
<1> QED BY <1>2, <1>3, <1>4, <1>5, <1>6, <1>7 DEF in_body, IsNull, IsSpace

\* What the modes after the document leave to the rules of the body.
LEMMA AfterwardsFits ==
    ASSUME NEW D, NEW m \in Steady, NEW s, Fits(m, s), NEW t,
           t.type = "doctype" \/ IsSpace(t) \/ IsStart(t, {"html"})
    PROVE  Shape(OnBehalf(in_body(D, s, t)))
<1>1. PICK r : r = Write(reconstruct_the_active_formatting_elements(s))
  OBVIOUS
<1>2. Fits(m, r) /\ Fits(m, [r EXCEPT !.frameset_ok = FALSE]) /\ Fits(m, Ignored(s))
  BY <1>1, ReconstructFits, WriteFits, AgainFits, FlagsFit DEF Steady, Leveled
<1>3. s.open = <<>> => Fits(m, Fail(s, "empty"))
  <2>1. Planted(s)
    BY FitsPlanted DEF Steady, Leveled
  <2>2. s.open = <<>> => s.failure # "none"
    BY <2>1 DEF Planted
  <2> QED BY <2>2, FailuresHave, FailFits
<1>4. IsStart(t, {"html"}) => Fits(m, InBodyStart(D, s, t))
  <2>1. SUFFICES ASSUME t.name = "html" PROVE Fits(m, InBodyStart(D, s, t))
    BY DEF IsStart
  <2>2. InBodyStart(D, s, t) = StructureStart(D, s, t)
    BY <2>1 DEF InBodyStart, HeadContent, Blocks, Headings, FormattingNames, Embedded
  <2>3. \/ StructureStart(D, s, t) \in {s, Ignored(s)}
        \/ s.open = <<>> /\ StructureStart(D, s, t) = Fail(s, "empty")
    BY <2>1 DEF StructureStart, HtmlStartTagInBody, IsStart, HeadContent
  <2> QED BY <2>2, <2>3, <1>2, <1>3
<1>5. Fits(m, in_body(D, s, t))
  BY <1>1, <1>2, <1>4 DEF in_body, IsNull, IsSpace, IsStart
<1> QED BY <1>5, AgainFits, FitsShape

-------------------------------------------------------------------------------
(* Tables *)

\* The text ends, and the mode that was remembered goes on with what is below it.
LEMMA TextShape ==
    ASSUME NEW s, Sane(s), Shape(s), s.mode = "text", NEW t
    PROVE  Shape(text(s, t))
<1>1. s \in Trees
  BY SaneIs
<1>2. Shape(Write(s))
  <2>1. Planted(s)
    BY DEF Shape, Planted
  <2>2. CASE s.failure = "none"
    BY <2>1, <2>2, <1>1, WriteStays
  <2>3. CASE s.failure # "none"
    <3>1. Write(s).failure = s.failure
      BY <2>1, <1>1, WriteStays
    <3> QED BY <3>1, <2>3 DEF Shape
  <2> QED BY <2>2, <2>3
<1>3. PICK r : r = Pop(s)
  OBVIOUS
<1>4. Ready(s.original, r)
  <2>1. SUFFICES ASSUME r.failure = "none"
                 PROVE  FormNamed(r) /\ Standing(s.original, r.open)
    <3>1. Planted(s)
      BY DEF Shape, Planted
    <3>2. r.failure = s.failure
      BY <3>1, <1>1, <1>3, PopIs
    <3> QED BY <3>2 DEF Ready, Shape
  <2>2. s.failure = "none" /\ s.open # <<>>
    BY <2>1, <1>1, <1>3, PopIs
  <2>3. r.form = s.form /\ r.open = SubSeq(s.open, 1, Len(s.open) - 1)
    BY <2>2, <1>1, <1>3, PopIs
  <2> QED BY <2>2, <2>3 DEF Shape, FormNamed
<1>5. r \in Trees
  BY <1>3, PopSane, SaneIs
<1>6. PICK u : u = switch_the_insertion_mode(r, s.original)
  OBVIOUS
<1>7. Shape(u) /\ Sane(u)
  <2>1. s.original \in Modes
    BY <1>1 DEF Trees
  <2> QED BY <2>1, <1>3, <1>4, <1>5, <1>6, SwitchShape, PopSane, SwitchSane
<1>8. Shape(Again(u))
  BY <1>7, SaneIs, FlagsShape
<1> QED BY <1>2, <1>3, <1>6, <1>7, <1>8 DEF text

\* What is known of the stack in a mode that has a frame.
LEMMA StackIs ==
    ASSUME NEW m \in Leveled, NEW s, Fits(m, s), s.failure = "none"
    PROVE  Sane(s) /\ s \in Trees /\ s.open \in Seq(Elements) /\ FormNamed(s)
           /\ s.mode = m /\ Level(Holders(m), s.open) /\ Standing(m, s.open)
BY SaneIs DEF Fits, Stands, Standing

\* An element of the frame is closed, in the mode that its parents are in.
LEMMA LeftReady ==
    ASSUME NEW s, s.failure = "none", FormNamed(s),
           NEW r, r.failure = s.failure,
           r.form = s.form, NEW name, Level(Parents(name), r.open),
           NEW m \in Leveled \ {"in_column_group"},
           Parents(name) \cap Resetting \subseteq Holders(m)
    PROVE  Ready(m, r)
<1>1. Level(Holders(m), r.open)
  BY LevelMoreNames
<1>2. m \in Steady /\ HtmlFirst(r.open)
  BY <1>1 DEF Steady, Level
<1>3. Standing(m, r.open)
  BY <1>1, <1>2, StandingSteady
<1> QED BY <1>3 DEF Ready, FormNamed

\* The rules of the mode in_table_text.
LEMMA TableTextShape ==
    ASSUME NEW s, Sane(s), Shape(s), s.mode = "in_table_text", NEW t \in Tokens
    PROVE  Shape(in_table_text(s, t))
<1>1. s \in Trees /\ s.original \in Modes
  <2>1. s \in Trees
    BY SaneIs
  <2> QED BY <2>1 DEF Trees
<1>2. Shape(Ignored(s))
  BY <1>1, FlagsShape
<1>3. Shape([s EXCEPT !.pending = s.pending \cup {t.name}])
  <2>1. PICK x : x = s.pending \cup {t.name}
    OBVIOUS
  <2>2. PICK r : r = [s EXCEPT !.pending = x]
    OBVIOUS
  <2>3. /\ r.failure = s.failure /\ r.mode = s.mode /\ r.original = s.original
        /\ r.form = s.form /\ r.open = s.open
    BY <2>2, <1>1 DEF Trees
  <2> QED BY <2>1, <2>2, <2>3, ShapeFrame
<1>4. Ready(s.original, s) /\ Ready(s.original, Write(s)) /\ Sane(Write(s)) /\ Write(s) \in Trees
  <2>1. Ready(s.original, s)
    BY DEF Shape, Ready
  <2>2. Sane(Write(s))
    BY WriteSane
  <2>3. Planted(s)
    <3>1. s.failure = "none" => HtmlFirst(s.open)
      BY DEF Shape, Standing, Remembering, Rootless
    <3> QED BY <3>1 DEF Planted, HtmlFirst
  <2>4. Write(s).failure = s.failure /\ Write(s).form = s.form /\ Write(s).open = s.open
    BY <2>3, <1>1, WriteStays
  <2> QED BY <2>1, <2>2, <2>4, ReadyFrame, SaneIs
<1>5. ASSUME NEW r \in Trees, Sane(r), Ready(s.original, r)
      PROVE  Shape(Again(switch_the_insertion_mode(r, s.original)))
  <2>1. Sane(switch_the_insertion_mode(r, s.original))
    BY <1>1, <1>5, SwitchSane
  <2>2. Shape(switch_the_insertion_mode(r, s.original))
    BY <1>5, SwitchShape
  <2> QED BY <2>1, <2>2, SaneIs, FlagsShape
<1>6. Shape(Again(switch_the_insertion_mode(
                IF s.pending \subseteq {"space", "line feed"} /\ s.pending # {}
                THEN Write(s)
                ELSE in_table_insertion_mode_anything_else(s), s.original)))
  BY <1>1, <1>4, <1>5 DEF in_table_insertion_mode_anything_else
<1> QED BY <1>2, <1>3, <1>6 DEF in_table_text

\* The modes in which the rules of a table apply.
Grids == {"in_table", "in_table_body", "in_row"}

\* The names that the modes of a table need.
LEMMA TableParents ==
    /\ Grids \subseteq Steady \cap Leveled
    /\ Holders("in_table") = {"table"} /\ Holders("in_caption") = {"caption"}
    /\ Holders("in_column_group") = {"colgroup"} /\ Holders("in_table_body") = Sections
    /\ Holders("in_row") = {"tr"} /\ Holders("in_cell") = Cells
    /\ Holders("in_select") = {"select"} /\ Holders("in_select_in_table") = {"select"}
    /\ {"table", "caption", "colgroup", "tr"} \cup Sections \cup Cells \subseteq Resetting
    /\ {"in_table", "in_caption", "in_column_group", "in_table_body", "in_row", "in_cell"}
           \subseteq Leveled
BY DEF Grids, Steady, Leveled, Holders, Resetting

\* The parents of each part of a table.
LEMMA ParentsAre ==
    /\ \A name \in {"caption", "colgroup"} \cup Sections : Parents(name) = {"table"}
    /\ Parents("tr") = Sections /\ \A name \in Cells : Parents(name) = {"tr"}
    /\ Parents("select") = Parents("table")
BY DEF Parents, Sections, Cells

\* The table is cleared down to itself, and a part of it opened.
LEMMA TableEntered ==
    ASSUME NEW s, Fits("in_table", s), s.failure = "none",
           NEW name \in {"caption", "colgroup"} \cup Sections, name \in Names,
           NEW m \in Leveled, name \in Holders(m), m = "in_column_group" => name = "colgroup",
           NEW cleared, cleared = PopTo(s, {"table", "html"}),
           NEW u, u = cleared \/ u = Marked(cleared)
    PROVE  Shape(switch_the_insertion_mode(insert_an_HTML_element(u, name), m))
<1>1. Sane(s) /\ s \in Trees /\ s.open \in Seq(Elements) /\ FormNamed(s)
      /\ Level({"table"}, s.open)
  <2>1. PICK table : table = "in_table"
    OBVIOUS
  <2>2. table \in Leveled /\ Holders(table) = {"table"} /\ Fits(table, s)
    BY <2>1, TableParents
  <2>3. Sane(s) /\ s \in Trees /\ s.open \in Seq(Elements) /\ FormNamed(s)
        /\ Level(Holders(table), s.open)
    BY <2>2, StackIs
  <2> QED BY <2>2, <2>3
<1>2. /\ {"table"} \cap Resetting \subseteq {"table", "html"} /\ {"table", "html"} \subseteq Framed
      /\ "body" \notin {"table"}
  BY TableParents DEF Framed
<1>3. PICK i \in 3 .. Len(s.open) : CutTo(s, cleared, i) /\ Level({"table"}, cleared.open)
  <2>1. PICK names, wanted : names = {"table"} /\ wanted = {"table", "html"}
    OBVIOUS
  <2>2. PICK through : through = PopThrough(s, wanted)
    OBVIOUS
  <2>3. \E i \in 3 .. Len(s.open) : CutTo(s, cleared, i) /\ Level(names, cleared.open)
    BY <2>1, <2>2, <1>1, <1>2, PopToTop
  <2> QED BY <2>1, <2>3
<1>4. Sane(cleared) /\ cleared.form = s.form /\ cleared \in Trees /\ cleared.failure = "none"
  BY <1>3, SaneIs DEF CutTo
<1>5. Sane(u) /\ u.form = s.form /\ u.open = cleared.open /\ u.failure = "none"
  <2>1. CASE u = cleared
    BY <2>1, <1>4
  <2>2. CASE u = Marked(cleared)
    BY <2>2, <1>4, MarkedSlack, MarkerFields
  <2> QED BY <2>1, <2>2
<1>6. FormNamed(u) /\ Level({"table"}, u.open)
  BY <1>1, <1>3, <1>5 DEF FormNamed
<1>7. name \in Resetting /\ Parents(name) = {"table"}
  BY TableParents, ParentsAre
<1>8. PICK r : r = insert_an_HTML_element(u, name)
  OBVIOUS
<1>9. Ready(m, r)
  <2>1. Topped({"table"}, u)
    BY <1>5, <1>6 DEF Topped
  <2>2. PICK names : names = {"table"}
    OBVIOUS
  <2> QED BY <2>1, <2>2, <1>5, <1>7, <1>8, EnteredReady
<1>10. r \in Trees
  BY <1>5, <1>8, InsertedIs DEF Whole
<1> QED BY <1>8, <1>9, <1>10, SwitchShape

\* The end of a table leaves it, and the mode is reset to that of one of its parents.
LEMMA TableEnded ==
    ASSUME NEW s, Fits("in_table", s), s.failure = "none"
    PROVE  Shape(reset_the_insertion_mode_appropriately(PopThrough(s, {"table"})))
<1>1. Sane(s) /\ s.open \in Seq(Elements) /\ FormNamed(s) /\ Level({"table"}, s.open)
  <2>1. PICK table : table = "in_table"
    OBVIOUS
  <2>2. table \in Leveled /\ Holders(table) = {"table"} /\ Fits(table, s)
    BY <2>1, TableParents
  <2>3. Sane(s) /\ s \in Trees /\ s.open \in Seq(Elements) /\ FormNamed(s)
        /\ Level(Holders(table), s.open)
    BY <2>2, StackIs
  <2> QED BY <2>2, <2>3
<1>2. /\ {"table"} \cap Resetting \subseteq {"table"} /\ {"table"} \subseteq Framed
      /\ "body" \notin {"table"}
  BY TableParents DEF Framed
<1>3. PICK u : u = PopThrough(s, {"table"})
  OBVIOUS
<1>4. PICK i \in 3 .. Len(s.open) :
          /\ s.open[i].name \in {"table"} \cap Resetting
          /\ CutTo(s, u, i - 1) /\ Level(Parents(s.open[i].name), u.open)
  <2>1. PICK names : names = {"table"}
    OBVIOUS
  <2>2. PICK cleared : cleared = PopTo(s, names)
    OBVIOUS
  <2>3. \E i \in 3 .. Len(s.open) :
            /\ s.open[i].name \in names \cap Resetting
            /\ CutTo(s, u, i - 1) /\ Level(Parents(s.open[i].name), u.open)
    BY <2>1, <2>2, <1>1, <1>2, <1>3, PopToTop
  <2> QED BY <2>1, <2>3
<1>5. s.open[i].name = "table"
  BY <1>4
<1>6. Sane(u) /\ u.form = s.form /\ Level(Parents("table"), u.open)
  BY <1>4, <1>5 DEF CutTo
<1>7. FormNamed(u)
  BY <1>1, <1>6 DEF FormNamed
<1>8. Topped(Parents("table"), u)
  <2>1. u.failure = "none"
    BY <1>4 DEF CutTo
  <2> QED BY <2>1, <1>6, <1>7 DEF Topped
<1> QED BY <1>3, <1>6, <1>8, ResetShape

\* Characters of a table are gathered, and the mode remembered.
LEMMA TableTextStarts ==
    ASSUME NEW m \in Grids, NEW s, Fits(m, s)
    PROVE  Shape(Again(switch_the_insertion_mode([s EXCEPT !.pending = {}], "in_table_text")))
<1>1. PICK u : u = [s EXCEPT !.pending = {}]
  OBVIOUS
<1>2. Fits(m, u) /\ Sane(u) /\ u \in Trees
  BY <1>1, FieldsFit, FitsShape, SaneIs
<1>3. PICK r : r = switch_the_insertion_mode(u, "in_table_text")
  OBVIOUS
<1>4. r = [u EXCEPT !.mode = "in_table_text", !.original = u.mode]
  BY <1>3 DEF switch_the_insertion_mode
<1>5. /\ r.mode = "in_table_text" /\ r.original = u.mode /\ r.form = u.form
      /\ r.failure = u.failure /\ r.open = u.open
  BY <1>2, <1>4 DEF Trees
<1>6. Shape(r)
  BY <1>2, <1>5 DEF Shape, Fits, Stands, FormNamed, Remembering, Grids, Rootless
<1>7. r \in Trees
  <2>1. "in_table_text" \in Modes
    BY DEF Modes
  <2> QED BY <2>1, <1>2, <1>3, SwitchSane, SaneIs
<1> QED BY <1>1, <1>3, <1>6, <1>7, FlagsShape

\* A form in a table is opened and closed at once.
LEMMA TableFormShape ==
    ASSUME NEW m \in Steady, NEW s, Fits(m, s), NEW r, r = insert_an_HTML_element(s, "form")
    PROVE  Shape(Pop([r EXCEPT !.form = Last(r.open)]))
<1>1. PICK e : e = Last(r.open)
  OBVIOUS
<1>2. PICK u : u = [r EXCEPT !.form = e]
  OBVIOUS
<1>3. Fits(m, u)
  BY <1>1, <1>2, InsertFormFits
<1>4. /\ r \in Trees /\ e.name = "form" /\ r.open # <<>>
  <2>1. Sane(s) /\ "form" \in Names
    BY FitsShape, NamesHave
  <2> QED BY <2>1, <1>1, InsertedIs DEF Whole
<1>5. u.open = r.open
  BY <1>2, <1>4 DEF Trees
<1>6. CurrentIs(u, {"form"})
  BY <1>1, <1>4, <1>5 DEF CurrentIs
<1>7. {"form"} \cap Framed = {}
  BY FlowingFramed DEF Flowing
<1>8. Fits(m, Pop(u))
  BY <1>3, <1>6, <1>7, PopFits
<1> QED BY <1>1, <1>2, <1>8, FitsShape

\* The rules of the mode in_table, which those of its parts fall back on.
LEMMA InTableShape ==
    ASSUME NEW D, Keeps(D), KeepsShape(D), NEW m \in Grids, NEW s, Fits(m, s), s.failure = "none",
           NEW t \in Tokens, Plain(t),
           m # "in_table" => /\ ~IsStart(t, {"caption", "colgroup"} \cup Sections)
                             /\ ~IsEnd(t, {"table"})
    PROVE  Shape(in_table(D, s, t))
<1>1. t.name \in Names /\ "colgroup" \in Names /\ "tbody" \in Names /\ "table" \in Names
  BY TokenIs, NamesHave
<1>2. Sane(s) /\ Shape(s) /\ s \in Trees /\ m \in Steady
  BY FitsShape, SaneIs, TableParents
<1>3. Shape(Write(s)) /\ Shape(Ignored(s))
  <2>1. Fits(m, Write(s))
    BY <1>2, WriteFits DEF Steady, Leveled
  <2> QED BY <2>1, <1>2, FlagsShape, FitsShape
<1>4. Shape(Again(switch_the_insertion_mode([s EXCEPT !.pending = {}], "in_table_text")))
  BY TableTextStarts
<1>5. PICK cleared : cleared = PopTo(s, {"table", "html"})
  OBVIOUS
<1>6. IsStart(t, {"caption"}) =>
          Shape(switch_the_insertion_mode(
                    insert_an_HTML_element(Marked(cleared), t.name), "in_caption"))
  <2>1. SUFFICES ASSUME t.name = "caption", m = "in_table"
                 PROVE  Shape(switch_the_insertion_mode(
                                  insert_an_HTML_element(Marked(cleared), t.name), "in_caption"))
    BY DEF IsStart
  <2>2. "in_caption" \in Leveled /\ t.name \in Holders("in_caption")
    BY <2>1, TableParents
  <2> QED BY <2>1, <2>2, <1>1, <1>5, TableEntered
<1>7. IsStart(t, {"colgroup"}) =>
          Shape(switch_the_insertion_mode(insert_an_HTML_element(cleared, t.name),
                                          "in_column_group"))
  <2>1. SUFFICES ASSUME t.name = "colgroup", m = "in_table"
                 PROVE  Shape(switch_the_insertion_mode(insert_an_HTML_element(cleared, t.name),
                                          "in_column_group"))
    BY DEF IsStart
  <2>2. "in_column_group" \in Leveled /\ t.name \in Holders("in_column_group")
    BY <2>1, TableParents
  <2> QED BY <2>1, <2>2, <1>1, <1>5, TableEntered
<1>8. IsStart(t, Sections) =>
          Shape(switch_the_insertion_mode(insert_an_HTML_element(cleared, t.name),
                                          "in_table_body"))
  <2>1. SUFFICES ASSUME t.name \in Sections, m = "in_table"
                 PROVE  Shape(switch_the_insertion_mode(insert_an_HTML_element(cleared, t.name),
                                          "in_table_body"))
    BY DEF IsStart
  <2>2. "in_table_body" \in Leveled /\ t.name \in Holders("in_table_body")
    BY <2>1, TableParents
  <2> QED BY <2>1, <2>2, <1>1, <1>5, TableEntered
<1>9. /\ Shape(Again(act_as_if_a_start_tag_token_had_been_seen(D, s, "colgroup")))
      /\ Shape(Again(act_as_if_a_start_tag_token_had_been_seen(D, s, "tbody")))
      /\ Shape(EndThenAgain(D, s, "table"))
  <2>1. ASSUME NEW name \in {"colgroup", "tbody"}
        PROVE  Shape(Again(act_as_if_a_start_tag_token_had_been_seen(D, s, name)))
    <3>1. PICK u : u = act_as_if_a_start_tag_token_had_been_seen(D, s, name)
      OBVIOUS
    <3>2. Shape(u) /\ u \in Trees
      BY <3>1, <1>1, <1>2, MadeUpShape, MadeUpSane, SaneIs
    <3> QED BY <3>1, <3>2, FlagsShape
  <2> QED BY <2>1, <1>1, <1>2, MadeUpShape
<1>10. IsStart(t, {"style", "script"}) => Shape(OnBehalf(in_head(D, s, t)))
  <2>1. IsStart(t, {"style", "script"}) => IsStart(t, HeadContent)
    BY DEF IsStart, HeadContent
  <2>2. m \notin Rootless
    BY DEF Grids, Rootless
  <2> QED BY <2>1, <2>2, <1>2, HeadContentShape, InHeadSane, SaneIs, FlagsShape
<1>11. IsStart(t, {"input"}) => Shape(InsertAndPop(s, t.name))
  <2>1. IsStart(t, {"input"}) => t.name \notin Framed \cup Embedded
    BY FlowingFramed DEF Flowing, IsStart
  <2> QED BY <2>1, <1>1, <1>2, InsertAndPopFits, FitsShape DEF Steady, Leveled
<1>12. PICK r : r = insert_an_HTML_element(s, t.name)
  OBVIOUS
<1>13. IsStart(t, {"form"}) => Shape(Pop([r EXCEPT !.form = Last(r.open)]))
  BY <1>2, <1>12, TableFormShape DEF IsStart
<1>14. IsEnd(t, {"table"}) =>
           Shape(reset_the_insertion_mode_appropriately(PopThrough(s, {"table"})))
  BY TableEnded
<1>15. t.type # "eof"
  BY DEF Plain
<1> QED BY <1>2, <1>3, <1>4, <1>5, <1>6, <1>7, <1>8, <1>9, <1>10, <1>11, <1>12, <1>13, <1>14, <1>15
        DEF in_table, in_table_insertion_mode_anything_else

\* What ends with a marker is closed, and the formatting list cleared up to the marker.
LEMMA ClosedReady ==
    ASSUME NEW s, Sane(s), s.failure = "none", FormNamed(s), s.open \in Seq(Elements),
           NEW names, Level(names, s.open),
           NEW wanted, wanted \subseteq Coverings, wanted \cap ImpliedEnd = {},
           NEW i, i = LastNamed(s, wanted), i \in 3 .. Len(s.open),
           s.open[i].name \in Resetting,
           NEW m \in Leveled \ {"in_column_group"},
           Parents(s.open[i].name) \cap Resetting \subseteq Holders(m)
    PROVE  Shape(switch_the_insertion_mode(
               clear_the_list_of_active_formatting_elements_up_to_the_last_marker(
                   EndThrough(s, wanted, {})), m))
<1>1. PICK u : u = EndThrough(s, wanted, {})
  OBVIOUS
<1>2. CutTo(s, u, i - 1)
  <2>1. wanted \cap (ImpliedEnd \ {}) = {} /\ i > 0
    OBVIOUS
  <2> QED BY <2>1, <1>1, EndThroughIs
<1>3. PICK r : r = clear_the_list_of_active_formatting_elements_up_to_the_last_marker(u)
  OBVIOUS
<1>4. Sane(u) /\ u \in Trees /\ u.form = s.form /\ u.failure = s.failure
      /\ u.open \in Seq(Elements) /\ Len(u.open) = i - 1
      /\ \A k \in 1 .. i - 1 : u.open[k] = s.open[k]
  BY <1>2, SaneIs DEF CutTo
<1>5. PICK name : name = s.open[i].name
  OBVIOUS
<1>6. Level(Parents(name), u.open)
  BY <1>4, <1>5, LevelBelow
<1>7. (r.failure = s.failure) /\ r.form = s.form /\ r.open = u.open
  <2>1. wanted \subseteq Coverings
    OBVIOUS
  <2>2. Slack(u)
    BY <2>1, <1>1, EndThroughSane DEF Slack
  <2> QED BY <2>2, <1>3, <1>4, MarkerFields
<1>8. Ready(m, r)
  BY <1>5, <1>6, <1>7, LeftReady
<1>9. Sane(r)
  BY <1>1, <1>3, EndedAndClearedSane
<1> QED BY <1>1, <1>3, <1>8, <1>9, SaneIs, SwitchShape

\* The rules of the mode in_caption.
LEMMA InCaptionYields ==
    ASSUME NEW D, Keeps(D), KeepsShape(D), NEW s, Fits("in_caption", s), s.failure = "none",
           NEW t \in Tokens, Plain(t)
    PROVE  Yields("in_caption", in_caption(D, s, t), t)
<1>1. "in_caption" \in Leveled /\ Holders("in_caption") = {"caption"} /\ "in_caption" \in Bodies
  BY TableParents DEF Bodies
<1>2. Sane(s) /\ s.open \in Seq(Elements) /\ FormNamed(s) /\ Level({"caption"}, s.open)
      /\ Shape(s) /\ s \in Trees
  BY <1>1, StackIs, FitsShape
<1>3. ASSUME ~Inner(t), NEW r, Shape(r) PROVE Yields("in_caption", r, t)
  BY <1>3 DEF Yields
<1>4. IsEnd(t, {"caption"}) \/ IsEnd(t, {"table"})
          \/ IsStart(t, {"tr"} \cup Columns \cup Sections \cup Cells)
          \/ IsEnd(t, {"body", "col", "colgroup", "html", "tr"} \cup Sections \cup Cells)
          => ~Inner(t)
  BY DEF Inner, IsStart, IsEnd, Columns, Sections, Cells
<1>5. Shape(switch_the_insertion_mode(
                clear_the_list_of_active_formatting_elements_up_to_the_last_marker(
                    EndThrough(s, {"caption"}, {})), "in_table"))
  <2>1. PICK names : names = {"caption"}
    OBVIOUS
  <2>2. names \cap Resetting \subseteq names /\ names \subseteq Framed /\ "body" \notin names
        /\ names \subseteq Coverings /\ names \cap ImpliedEnd = {}
    BY <2>1, TableParents DEF Framed, Coverings, ImpliedEnd
  <2>3. PICK i : i = LastNamed(s, names)
    OBVIOUS
  <2>4. i \in 3 .. Len(s.open) /\ s.open[i].name \in names \cap Resetting
    BY <2>1, <2>2, <2>3, <1>2, TopNamed
  <2>5. s.open[i].name = "caption"
    BY <2>1, <2>4
  <2>6. /\ "in_table" \in Leveled \ {"in_column_group"}
        /\ Parents("caption") \cap Resetting \subseteq Holders("in_table")
    BY TableParents, ParentsAre
  <2> QED BY <2>1, <2>2, <2>3, <2>4, <2>5, <2>6, <1>2, ClosedReady
<1>6. Shape(EndThenAgain(D, s, "caption")) /\ Shape(Ignored(s))
  BY <1>2, NamesHave, MadeUpShape, FlagsShape
<1>7. ~IsEnd(t, {"caption", "body", "html"}) => Yields("in_caption", OnBehalf(in_body(D, s, t)), t)
  <2>1. ~IsEnd(t, {"caption", "body", "html"}) => Yields("in_caption", in_body(D, s, t), t)
    <3>1. ~IsEnd(t, {"caption", "body", "html"}) =>
              ~IsEnd(t, Holders("in_caption") \cup {"body", "html"})
      BY <1>1 DEF IsEnd
    <3> QED BY <3>1, <1>1, InBodyYields
  <2> QED BY <2>1, <1>2, InBodySane, SaneIs, FlagsYield
<1>8. IsEnd(t, {"caption", "body", "html"}) =>
          \/ IsEnd(t, {"caption"})
          \/ IsEnd(t, {"body", "col", "colgroup", "html", "tr"} \cup Sections \cup Cells)
  BY DEF IsEnd
<1>9. Yields("in_caption", Ignored(s), t)
  BY AgainFits, FitsShape
<1> QED BY <1>3, <1>4, <1>5, <1>6, <1>7, <1>8, <1>9 DEF in_caption

\* The rules of the mode in_column_group.
LEMMA InColumnGroupShape ==
    ASSUME NEW D, Keeps(D), KeepsShape(D), NEW s, Fits("in_column_group", s), s.failure = "none",
           NEW t \in Tokens
    PROVE  Shape(in_column_group(D, s, t))
<1>1. "in_column_group" \in Leveled /\ Holders("in_column_group") = {"colgroup"}
  BY TableParents
<1>2. Sane(s) /\ s.open \in Seq(Elements) /\ FormNamed(s) /\ Level({"colgroup"}, s.open)
      /\ Shape(s) /\ s \in Trees /\ Last(s.open).name = "colgroup"
  <2>1. PICK m : m = "in_column_group"
    OBVIOUS
  <2>2. m \in Leveled /\ Holders(m) = {"colgroup"} /\ Fits(m, s)
    BY <1>1, <2>1
  <2>3. Sane(s) /\ s.open \in Seq(Elements) /\ FormNamed(s) /\ s \in Trees
        /\ Level(Holders(m), s.open) /\ Standing(m, s.open)
    BY <2>2, StackIs
  <2>4. Last(s.open).name = "colgroup"
    BY <2>1, <2>3 DEF Standing
  <2>5. Shape(s)
    BY <2>2, FitsShape
  <2> QED BY <2>2, <2>3, <2>4, <2>5
<1>3. Shape(Write(s)) /\ Shape(Ignored(s)) /\ Shape(HtmlStartTagInBody(s))
  BY <1>2, WriteFits, FlagsShape, FitsShape DEF HtmlStartTagInBody
<1>4. IsStart(t, {"col"}) => Shape(InsertAndPop(s, t.name))
  <2>1. IsStart(t, {"col"}) => t.name \notin Framed \cup Embedded
    BY DEF IsStart, Framed, Embedded, Resetting, Cells, Sections
  <2> QED BY <2>1, TokenIs, InsertAndPopFits, FitsShape
<1>5. Shape(switch_the_insertion_mode(Pop(s), "in_table"))
  <2>1. PICK n : n = Len(s.open)
    OBVIOUS
  <2>2. n \in Nat /\ n >= 2 /\ s.open[2].name = "body" /\ s.open[n].name = "colgroup"
    BY <2>1, <1>2 DEF Level, Tower, Last
  <2>3. n \in 3 .. Len(s.open) /\ s.open # <<>>
    BY <2>1, <2>2
  <2>4. PICK r : r = Pop(s)
    OBVIOUS
  <2>5. /\ Sane(r) /\ r.form = s.form /\ r.failure = s.failure
        /\ r.open = SubSeq(s.open, 1, Len(s.open) - 1)
    BY <2>3, <2>4, <1>2, PopIs, PopSane
  <2>6. PICK o : o = r.open
    OBVIOUS
  <2>7. PICK h : h = n - 1
    OBVIOUS
  <2>8. h \in 0 .. Len(s.open) /\ o = SubSeq(s.open, 1, h)
    BY <2>1, <2>3, <2>5, <2>6, <2>7
  <2>9. o \in Seq(Elements) /\ Len(o) = h /\ \A k \in 1 .. h : o[k] = s.open[k]
    BY <2>8, <1>2, FrontIs
  <2>10. "colgroup" \in Resetting
    BY TableParents
  <2>11. Level(Parents("colgroup"), o)
    BY <2>2, <2>3, <2>7, <2>9, <2>10, <1>2, LevelBelow
  <2>12. /\ "in_table" \in Leveled \ {"in_column_group"}
         /\ Parents("colgroup") \cap Resetting \subseteq Holders("in_table")
    BY TableParents, ParentsAre
  <2>13. Ready("in_table", r)
    BY <2>5, <2>6, <2>11, <2>12, <1>2, LeftReady
  <2> QED BY <2>4, <2>5, <2>13, SaneIs, SwitchShape
<1>6. Shape(EndThenAgain(D, s, "colgroup"))
  BY <1>2, NamesHave, MadeUpShape
<1>7. ~(s.open # <<>> /\ Len(s.open) = 1)
  BY <1>2 DEF Level, Tower
<1> QED BY <1>2, <1>3, <1>4, <1>5, <1>6, <1>7 DEF in_column_group

\* Clearing the stack back to the element the mode is named for.
LEMMA ClearedIs ==
    ASSUME NEW m \in Leveled, NEW s, Fits(m, s), s.failure = "none", "body" \notin Holders(m),
           NEW wanted, wanted = Holders(m) \cup {"html"}, NEW r, r = PopTo(s, wanted)
    PROVE  /\ Sane(r) /\ r.failure = "none" /\ r.mode = s.mode /\ FormNamed(r)
           /\ r.open \in Seq(Elements) /\ r.open # <<>> /\ Level(Holders(m), r.open)
           /\ Last(r.open).name \in Holders(m)
           /\ Sane(Pop(r)) /\ Pop(r).failure = "none" /\ FormNamed(Pop(r))
           /\ \E name \in Holders(m) : Level(Parents(name), Pop(r).open)
<1>1. Sane(s) /\ s.open \in Seq(Elements) /\ FormNamed(s) /\ Level(Holders(m), s.open)
  BY StackIs
<1>2. PICK names : names = Holders(m)
  OBVIOUS
<1>3. names \cap Resetting \subseteq wanted /\ wanted \subseteq Framed /\ "body" \notin names
  BY <1>2, HoldersAre DEF Framed
<1>4. PICK u : u = PopThrough(s, wanted)
  OBVIOUS
<1>5. \E i \in 3 .. Len(s.open) :
          /\ s.open[i].name \in names \cap Resetting
          /\ CutTo(s, r, i) /\ Level(names, r.open)
          /\ CutTo(s, Pop(r), i - 1) /\ Level(Parents(s.open[i].name), Pop(r).open)
  BY <1>1, <1>2, <1>3, <1>4, PopToTop
<1>6. PICK i \in 3 .. Len(s.open) :
          /\ s.open[i].name \in names \cap Resetting
          /\ CutTo(s, r, i) /\ Level(names, r.open)
          /\ CutTo(s, Pop(r), i - 1) /\ Level(Parents(s.open[i].name), Pop(r).open)
  BY <1>5
<1>7. /\ Sane(r) /\ r.failure = s.failure /\ r.mode = s.mode /\ r.form = s.form
      /\ r.open \in Seq(Elements) /\ Len(r.open) = i /\ r.open[i] = s.open[i]
  <2>1. CutTo(s, r, i)
    BY <1>6
  <2>2. i \in 1 .. i
    OBVIOUS
  <2> QED BY <2>1, <2>2 DEF CutTo
<1>8. r.open # <<>> /\ Last(r.open) = s.open[i]
  BY <1>6, <1>7 DEF Last
<1>9. PICK v : v = Pop(r)
  OBVIOUS
<1>10. Sane(v) /\ v.failure = s.failure /\ v.form = s.form
  <2>1. PICK h : h = i - 1
    OBVIOUS
  <2>2. CutTo(s, v, h)
    BY <2>1, <1>6, <1>9
  <2> QED BY <2>2 DEF CutTo
<1>11. FormNamed(r) /\ FormNamed(v)
  BY <1>1, <1>7, <1>10 DEF FormNamed
<1>12. PICK name : name = s.open[i].name
  OBVIOUS
<1>13. name \in Holders(m) /\ Level(Parents(name), v.open) /\ Last(r.open).name \in Holders(m)
  BY <1>2, <1>6, <1>8, <1>9, <1>12
<1>14. \E n \in Holders(m) : Level(Parents(n), v.open)
  BY <1>13
<1>15. Level(Holders(m), r.open)
  BY <1>2, <1>6
<1> QED BY <1>7, <1>8, <1>9, <1>10, <1>11, <1>13, <1>14, <1>15

\* The rules of the mode in_table_body.
LEMMA InTableBodyShape ==
    ASSUME NEW D, Keeps(D), KeepsShape(D), NEW s, Fits("in_table_body", s), s.failure = "none",
           NEW t \in Tokens, Plain(t)
    PROVE  Shape(in_table_body(D, s, t))
<1>1. /\ "in_table_body" \in Leveled /\ Holders("in_table_body") = Sections
      /\ "in_table_body" \in Grids /\ "body" \notin Sections
  BY TableParents DEF Grids, Sections
<1>2. Sane(s) /\ Shape(s) /\ s \in Trees
  BY FitsShape, SaneIs
<1>3. PICK cleared : cleared = PopTo(s, Sections \cup {"html"})
  OBVIOUS
<1>4. /\ Sane(cleared) /\ cleared.failure = "none" /\ cleared.mode = s.mode /\ FormNamed(cleared)
      /\ cleared.open \in Seq(Elements) /\ cleared.open # <<>> /\ Level(Sections, cleared.open)
      /\ Last(cleared.open).name \in Sections
      /\ Sane(Pop(cleared)) /\ Pop(cleared).failure = "none" /\ FormNamed(Pop(cleared))
      /\ \E name \in Sections : Level(Parents(name), Pop(cleared).open)
  <2>1. PICK m : m = "in_table_body"
    OBVIOUS
  <2> QED BY <2>1, <1>1, <1>3, ClearedIs
<1>5. IsStart(t, {"tr"}) =>
          Shape(switch_the_insertion_mode(insert_an_HTML_element(cleared, t.name), "in_row"))
  <2>1. SUFFICES ASSUME t.name = "tr"
                 PROVE  Shape(switch_the_insertion_mode(
                            insert_an_HTML_element(cleared, t.name), "in_row"))
    BY DEF IsStart
  <2>2. PICK r : r = insert_an_HTML_element(cleared, "tr")
    OBVIOUS
  <2>3. /\ "tr" \in Names /\ "tr" \in Resetting /\ "tr" \in Holders("in_row")
        /\ "in_row" \in Leveled /\ "in_row" # "in_column_group" /\ Parents("tr") = Sections
    BY NamesHave, TableParents, ParentsAre
  <2>4. Ready("in_row", r)
    <3>1. PICK names : names = Sections
      OBVIOUS
    <3>2. Topped(names, cleared) /\ names \cap Resetting \subseteq Parents("tr")
      BY <3>1, <2>3, <1>4 DEF Topped
    <3> QED BY <3>2, <2>2, <2>3, <1>4, EnteredReady
  <2>5. r \in Trees
    BY <2>2, <2>3, <1>4, InsertedIs DEF Whole
  <2> QED BY <2>1, <2>2, <2>4, <2>5, SwitchShape
<1>6. Shape(Again(act_as_if_a_start_tag_token_had_been_seen(D, s, "tr")))
  <2>1. "tr" \in Names
    BY NamesHave
  <2> QED BY <2>1, <1>2, MadeUpShape, MadeUpSane, SaneIs, FlagsShape
<1>7. Shape(Again(act_as_if_an_end_tag_token_had_been_seen(D, cleared, Last(cleared.open).name)))
  <2>1. PICK e : e = Last(cleared.open)
    OBVIOUS
  <2>2. e.name \in Names
    <3>1. e = cleared.open[Len(cleared.open)] /\ Len(cleared.open) \in 1 .. Len(cleared.open)
      BY <2>1, <1>4 DEF Last
    <3>2. e \in Elements
      BY <3>1, <1>4
    <3> QED BY <3>2 DEF Elements
  <2>3. Standing("in_table_body", cleared.open)
    <3>1. "in_table_body" \in Steady
      BY TableParents DEF Grids
    <3> QED BY <3>1, <1>1, <1>4, StandingSteady DEF Level
  <2>4. Shape(cleared)
    <3>1. s.mode = "in_table_body"
      BY <1>1, StackIs
    <3>2. Stands("in_table_body", cleared)
      BY <3>1, <2>3, <1>4 DEF Stands
    <3> QED BY <3>2, StandsShape
  <2> QED BY <2>1, <2>2, <2>4, <1>4, MadeUpShape, MadeUpSane, SaneIs, FlagsShape
<1>8. Shape(switch_the_insertion_mode(Pop(cleared), "in_table"))
  <2>1. PICK r : r = Pop(cleared)
    OBVIOUS
  <2>2. PICK name \in Sections : Level(Parents(name), r.open)
    BY <2>1, <1>4
  <2>3. /\ "in_table" \in Leveled \ {"in_column_group"}
        /\ Parents(name) \cap Resetting \subseteq Holders("in_table")
    BY TableParents, ParentsAre
  <2>4. Ready("in_table", r)
    BY <2>1, <2>2, <2>3, <1>4, LeftReady
  <2> QED BY <2>1, <2>4, <1>4, SaneIs, SwitchShape
<1>9. Shape(Ignored(s))
  BY <1>2, FlagsShape
<1>10. ASSUME ~IsStart(t, Columns \cup Sections), ~IsEnd(t, {"table"})
       PROVE  Shape(OnBehalf(in_table(D, s, t)))
  <2>1. ~IsStart(t, {"caption", "colgroup"} \cup Sections)
    BY <1>10 DEF IsStart, Columns
  <2> QED BY <2>1, <1>1, <1>2, <1>10, InTableShape, InTableSane, SaneIs, FlagsShape
<1> QED BY <1>3, <1>4, <1>5, <1>6, <1>7, <1>8, <1>9, <1>10 DEF in_table_body

\* The rules of the mode in_row.
LEMMA InRowShape ==
    ASSUME NEW D, Keeps(D), KeepsShape(D), NEW s, Fits("in_row", s), s.failure = "none",
           NEW t \in Tokens, Plain(t)
    PROVE  Shape(in_row(D, s, t))
<1>1. /\ "in_row" \in Leveled /\ Holders("in_row") = {"tr"}
      /\ "in_row" \in Grids /\ "body" \notin {"tr"}
  BY TableParents DEF Grids
<1>2. Sane(s) /\ Shape(s) /\ s \in Trees /\ "tr" \in Names
  BY FitsShape, SaneIs, NamesHave
<1>3. PICK cleared : cleared = PopTo(s, {"tr", "html"})
  OBVIOUS
<1>4. /\ Sane(cleared) /\ cleared.failure = "none" /\ FormNamed(cleared)
      /\ Level({"tr"}, cleared.open)
      /\ Sane(Pop(cleared)) /\ Pop(cleared).failure = "none" /\ FormNamed(Pop(cleared))
      /\ \E name \in {"tr"} : Level(Parents(name), Pop(cleared).open)
  <2>1. PICK m : m = "in_row"
    OBVIOUS
  <2>2. PICK wanted : wanted = {"tr", "html"}
    OBVIOUS
  <2>3. wanted = Holders(m) \cup {"html"}
    BY <2>1, <2>2, <1>1
  <2>4. /\ Sane(cleared) /\ cleared.failure = "none" /\ FormNamed(cleared)
        /\ Level(Holders(m), cleared.open)
        /\ Sane(Pop(cleared)) /\ Pop(cleared).failure = "none" /\ FormNamed(Pop(cleared))
        /\ \E name \in Holders(m) : Level(Parents(name), Pop(cleared).open)
    BY <2>1, <2>2, <2>3, <1>1, <1>3, ClearedIs
  <2>5. Holders(m) = {"tr"}
    BY <2>1, <1>1
  <2> QED BY <2>4, <2>5
<1>5. IsStart(t, Cells) =>
          Shape(Marked(switch_the_insertion_mode(
                           insert_an_HTML_element(cleared, t.name), "in_cell")))
  <2>1. SUFFICES ASSUME t.name \in Cells
                 PROVE  Shape(Marked(switch_the_insertion_mode(
                           insert_an_HTML_element(cleared, t.name), "in_cell")))
    BY DEF IsStart
  <2>2. PICK r : r = insert_an_HTML_element(cleared, t.name)
    OBVIOUS
  <2>3. /\ t.name \in Names /\ t.name \in Resetting /\ t.name \in Holders("in_cell")
        /\ "in_cell" \in Leveled /\ "in_cell" # "in_column_group" /\ Parents(t.name) = {"tr"}
    BY <2>1, TokenIs, TableParents, ParentsAre
  <2>4. Ready("in_cell", r)
    <3>1. PICK names : names = {"tr"}
      OBVIOUS
    <3>2. Topped(names, cleared) /\ names \cap Resetting \subseteq Parents(t.name)
      BY <3>1, <2>3, <1>4 DEF Topped
    <3> QED BY <3>2, <2>2, <2>3, <1>4, EnteredReady
  <2>5. r \in Trees
    BY <2>2, <2>3, <1>4, InsertedIs DEF Whole
  <2>6. PICK v : v = switch_the_insertion_mode(r, "in_cell")
    OBVIOUS
  <2>7. Shape(v)
    BY <2>4, <2>5, <2>6, SwitchShape
  <2>8. v \in Trees
    <3>1. v = [r EXCEPT !.mode = "in_cell", !.original = r.original]
      BY <2>6 DEF switch_the_insertion_mode
    <3>2. "in_cell" \in Modes
      BY DEF Modes
    <3> QED BY <3>1, <3>2, <2>5 DEF Trees
  <2> QED BY <2>2, <2>6, <2>7, <2>8, MarkerFields, ShapeFrame
<1>6. Shape(EndThenAgain(D, s, "tr"))
      /\ Shape(Again(act_as_if_an_end_tag_token_had_been_seen(D, s, "tr")))
  BY <1>2, MadeUpShape, MadeUpSane, SaneIs, FlagsShape
<1>7. Shape(switch_the_insertion_mode(Pop(cleared), "in_table_body"))
  <2>1. PICK r : r = Pop(cleared)
    OBVIOUS
  <2>2. Level(Parents("tr"), r.open)
    BY <2>1, <1>4
  <2>3. /\ "in_table_body" \in Leveled \ {"in_column_group"}
        /\ Parents("tr") \cap Resetting \subseteq Holders("in_table_body")
    BY TableParents, ParentsAre
  <2>4. Ready("in_table_body", r)
    BY <2>1, <2>2, <2>3, <1>4, LeftReady
  <2> QED BY <2>1, <2>4, <1>4, SaneIs, SwitchShape
<1>8. Shape(Ignored(s))
  BY <1>2, FlagsShape
<1>9. ASSUME ~IsStart(t, {"tr"} \cup Columns \cup Sections), ~IsEnd(t, {"table"})
      PROVE  Shape(OnBehalf(in_table(D, s, t)))
  <2>1. ~IsStart(t, {"caption", "colgroup"} \cup Sections)
    BY <1>9 DEF IsStart, Columns
  <2> QED BY <2>1, <1>1, <1>2, <1>9, InTableShape, InTableSane, SaneIs, FlagsShape
<1> QED BY <1>3, <1>5, <1>6, <1>7, <1>8, <1>9 DEF in_row

\* Below an element of the frame the next one of the frame is one of its parents.
LEMMA ParentBelow ==
    ASSUME NEW open \in Seq(Elements), Tower(open), NEW i \in 3 .. Len(open),
           open[i].name \in Resetting
    PROVE  \E k \in 2 .. i - 1 : /\ open[k].name \in Parents(open[i].name) \cap Resetting
                                 /\ \A n \in 2 .. i - 1 : open[n].name \in Resetting => n <= k
<1>1. PICK h : h = i - 1
  OBVIOUS
<1>2. Within(open, h, Parents(open[i].name))
  BY <1>1 DEF Tower
<1>3. PICK k \in 2 .. h : /\ open[k].name \in Parents(open[i].name) \cap Resetting
                          /\ \A m \in k + 1 .. h : open[m].name \notin Resetting
  BY <1>2 DEF Within
<1>4. \A n \in 2 .. h : open[n].name \in Resetting => n <= k
  <2>1. ASSUME NEW n \in 2 .. h, ~(n <= k) PROVE n \in k + 1 .. h
    BY <2>1
  <2> QED BY <2>1, <1>3
<1> QED BY <1>1, <1>3, <1>4

\* Below the last element of the frame, in a cell, are its row, a section and a table: the
\* only cell in table scope is the last one.
LEMMA CellScope ==
    ASSUME NEW s, s.open \in Seq(Elements), Level(Cells, s.open),
           NEW top, top = LastNamed(s, Cells), NEW name \in Cells
    PROVE  /\ top \in 3 .. Len(s.open) /\ s.open[top].name \in Cells
           /\ has_element_in_table_scope(s, {name}) <=> s.open[top].name = name
           /\ has_element_in_table_scope(s, {name}) => LastNamed(s, {name}) = top
<1>1. PICK open : open = s.open
  OBVIOUS
<1>2. open \in Seq(Elements) /\ Len(open) \in Nat /\ Tower(open) /\ HtmlFirst(open)
  BY <1>1 DEF Level
<1>3. /\ Cells \cap Resetting \subseteq Cells /\ Cells \subseteq Framed /\ "body" \notin Cells
      /\ Cells \subseteq Resetting /\ "tr" \in Resetting /\ Sections \subseteq Resetting
      /\ "table" \in Resetting
  BY TableParents DEF Framed, Cells
<1>4. /\ top \in 3 .. Len(open) /\ open[top].name \in Cells
      /\ \A j \in top + 1 .. Len(open) : open[j].name \notin Framed
  <2>1. PICK names : names = Cells
    OBVIOUS
  <2> QED BY <2>1, <1>1, <1>3, TopNamed
<1>5. PICK row \in 2 .. top - 1 :
          /\ open[row].name \in Parents(open[top].name) \cap Resetting
          /\ \A n \in 2 .. top - 1 : open[n].name \in Resetting => n <= row
  BY <1>2, <1>3, <1>4, ParentBelow
<1>6. open[row].name = "tr" /\ row \in 3 .. Len(open)
  <2>1. open[row].name = "tr"
    BY <1>4, <1>5, ParentsAre
  <2>2. open[2].name = "body"
    BY <1>2 DEF Tower
  <2> QED BY <2>1, <2>2, <1>2, <1>4, <1>5
<1>7. PICK section \in 2 .. row - 1 :
          /\ open[section].name \in Parents(open[row].name) \cap Resetting
          /\ \A n \in 2 .. row - 1 : open[n].name \in Resetting => n <= section
  BY <1>2, <1>3, <1>6, ParentBelow
<1>8. open[section].name \in Sections /\ section \in 3 .. Len(open)
  <2>1. open[section].name \in Sections
    BY <1>6, <1>7, ParentsAre
  <2>2. open[2].name = "body" /\ "body" \notin Sections
    BY <1>2 DEF Tower, Sections
  <2> QED BY <2>1, <2>2, <1>2, <1>6, <1>7
<1>9. PICK table \in 2 .. section - 1 :
          /\ open[table].name \in Parents(open[section].name) \cap Resetting
          /\ \A n \in 2 .. section - 1 : open[n].name \in Resetting => n <= table
  BY <1>2, <1>3, <1>8, ParentBelow
<1>10. open[table].name = "table" /\ table \in 2 .. Len(open) /\ table < top
  <2>1. open[table].name = "table"
    BY <1>8, <1>9, ParentsAre
  <2>2. table < section /\ section < row /\ row < top /\ table >= 2
    BY <1>2, <1>4, <1>6, <1>8, <1>5, <1>7, <1>9
  <2>3. table \in Int /\ section \in Int /\ row \in Int /\ top \in 3 .. Len(open)
    BY <1>2, <1>4, <1>6, <1>8, <1>5, <1>7, <1>9
  <2>4. table < top
    BY <2>2, <2>3
  <2> QED BY <2>1, <2>2, <2>3, <2>4, <1>2
<1>11. ASSUME NEW n \in table + 1 .. Len(open), open[n].name \in Cells PROVE n = top
  <2>1. ~(n > top)
    BY <1>3, <1>4, <1>11
  <2>2. n < top => n <= row
    <3>1. n < top => n \in 2 .. top - 1
      BY <1>2, <1>4, <1>10
    <3>2. open[n].name \in Resetting
      BY <1>3, <1>11
    <3> QED BY <3>1, <3>2, <1>5
  <2>3. n # row /\ (n < row => n <= section)
    BY <1>3, <1>6, <1>7, <1>11, <1>10 DEF Cells
  <2>4. n # section /\ (n < section => n <= table)
    BY <1>3, <1>8, <1>9, <1>11, <1>10 DEF Cells, Sections
  <2> QED BY <2>1, <2>2, <2>3, <2>4, <1>10, <1>4, <1>5, <1>7, <1>9
<1>12. PICK j : j = LastNamed(s, {name} \cup TableScope)
  OBVIOUS
<1>13. /\ j \in 0 .. Len(open) /\ (j > 0 => open[j].name \in {name} \cup TableScope)
       /\ \A k \in j + 1 .. Len(open) : open[k].name \notin {name} \cup TableScope
  BY <1>1, <1>2, <1>12, LastNamedIs
<1>14. j >= table
  <2>1. "table" \in {name} \cup TableScope
    BY DEF TableScope
  <2> QED BY <2>1, <1>10, <1>13
<1>15. has_element_in_table_scope(s, {name}) <=> open[j].name = name
  <2>1. j > 0
    BY <1>10, <1>13, <1>14
  <2>2. has_element_in_table_scope(s, {name}) <=> j > 0 /\ s.open[j].name \in {name}
    BY <1>12 DEF has_element_in_table_scope, has_element_in_specific_scope
  <2> QED BY <2>1, <2>2, <1>1
<1>16. open[j].name = name => j = top
  <2>1. open[j].name = name => j # table
    BY <1>10 DEF Cells
  <2> QED BY <2>1, <1>10, <1>11, <1>13, <1>14
<1>17. open[top].name = name => j = top
  <2>1. open[top].name = name => j >= top
    BY <1>4, <1>13
  <2>2. j > top => open[j].name \notin {name} \cup TableScope
    BY <1>4, <1>13, <1>3 DEF Framed, TableScope
  <2> QED BY <2>1, <2>2, <1>13, <1>4
<1>18. LastNamed(s, {name}) = top \/ open[top].name # name
  <2>1. PICK l : l = LastNamed(s, {name})
    OBVIOUS
  <2>2. /\ l \in 0 .. Len(open) /\ (l > 0 => open[l].name \in {name})
        /\ \A k \in l + 1 .. Len(open) : open[k].name \notin {name}
    BY <2>1, <1>1, <1>2, LastNamedIs
  <2>3. open[top].name = name => l >= top
    BY <2>2, <1>4
  <2>4. ~(l > top)
    BY <2>2, <1>3, <1>4
  <2> QED BY <2>1, <2>2, <2>3, <2>4, <1>4
<1> QED BY <1>1, <1>4, <1>15, <1>16, <1>17, <1>18

\* The rules of the mode in_cell.
LEMMA InCellYields ==
    ASSUME NEW D, Keeps(D), KeepsShape(D), NEW s, Fits("in_cell", s), s.failure = "none",
           NEW t \in Tokens, Plain(t)
    PROVE  Yields("in_cell", in_cell(D, s, t), t)
<1>1. "in_cell" \in Leveled /\ Holders("in_cell") = Cells /\ "in_cell" \in Bodies
  BY TableParents DEF Bodies
<1>2. Sane(s) /\ s.open \in Seq(Elements) /\ FormNamed(s) /\ Level(Cells, s.open)
      /\ Shape(s) /\ s \in Trees
  BY <1>1, StackIs, FitsShape
<1>3. ASSUME ~Inner(t), NEW r, Shape(r) PROVE Yields("in_cell", r, t)
  BY <1>3 DEF Yields
<1>4. IsStart(t, {"tr"} \cup Columns \cup Sections \cup Cells) \/ IsEnd(t, Cells)
          \/ IsEnd(t, {"body", "html"} \cup Columns) \/ IsEnd(t, TableParts) => ~Inner(t)
  BY DEF Inner, IsStart, IsEnd, Columns, Sections, Cells, TableParts
<1>5. Shape(Again(close_the_cell(D, s)))
  <2>1. \A name \in Cells :
            /\ Shape(act_as_if_an_end_tag_token_had_been_seen(D, s, name))
            /\ Sane(act_as_if_an_end_tag_token_had_been_seen(D, s, name))
    BY <1>2, NamesHave, MadeUpShape, MadeUpSane DEF Cells
  <2>2. Shape(close_the_cell(D, s)) /\ Sane(close_the_cell(D, s))
    BY <2>1, <1>2 DEF close_the_cell, Cells
  <2> QED BY <2>2, SaneIs, FlagsShape
<1>6. ASSUME t.name \in Cells, has_element_in_table_scope(s, {t.name})
      PROVE  Shape(switch_the_insertion_mode(
                 clear_the_list_of_active_formatting_elements_up_to_the_last_marker(
                     EndThrough(s, {t.name}, {})), "in_row"))
  <2>1. PICK names, wanted : names = Cells /\ wanted = {t.name}
    OBVIOUS
  <2>2. wanted \subseteq Coverings /\ wanted \cap ImpliedEnd = {}
    BY <2>1, <1>6 DEF Coverings, ImpliedEnd, Cells
  <2>3. PICK i : i = LastNamed(s, wanted)
    OBVIOUS
  <2>4. i \in 3 .. Len(s.open) /\ s.open[i].name = t.name
    BY <2>1, <2>3, <1>2, <1>6, CellScope
  <2>5. /\ "in_row" \in Leveled \ {"in_column_group"} /\ s.open[i].name \in Resetting
        /\ Parents(s.open[i].name) \cap Resetting \subseteq Holders("in_row")
    BY <2>4, <1>6, TableParents, ParentsAre
  <2> QED BY <2>1, <2>2, <2>3, <2>4, <2>5, <1>2, ClosedReady
<1>7. Yields("in_cell", Ignored(s), t)
  BY AgainFits, FitsShape
<1>8. ASSUME ~IsEnd(t, Cells), ~IsEnd(t, {"body", "html"} \cup Columns)
      PROVE  Yields("in_cell", OnBehalf(in_body(D, s, t)), t)
  <2>1. ~IsEnd(t, Holders("in_cell") \cup {"body", "html"})
    BY <1>1, <1>8 DEF IsEnd
  <2>2. Yields("in_cell", in_body(D, s, t), t)
    BY <2>1, <1>1, InBodyYields
  <2> QED BY <2>2, <1>2, InBodySane, SaneIs, FlagsYield
<1> QED BY <1>3, <1>4, <1>5, <1>6, <1>7, <1>8 DEF in_cell, IsEnd

-------------------------------------------------------------------------------
(* Selects, and what follows the body *)

\* The end tag of a select leaves the select, which is the last element of the frame.
LEMMA SelectEnded ==
    ASSUME NEW m \in Selects, NEW s, Fits(m, s), s.failure = "none"
    PROVE  Shape(reset_the_insertion_mode_appropriately(PopThrough(s, {"select"})))
<1>1. m \in Leveled /\ Holders(m) = {"select"} /\ {"select"} \cap Resetting \subseteq {"select"}
      /\ {"select"} \subseteq Framed /\ "body" \notin {"select"}
  BY DEF Selects, Leveled, Holders, Framed, Resetting
<1>2. Sane(s) /\ FormNamed(s) /\ Level({"select"}, s.open)
  <2>1. m \in Leveled
    BY <1>1
  <2>2. Sane(s) /\ FormNamed(s) /\ Level(Holders(m), s.open)
    BY <2>1, StackIs
  <2> QED BY <2>2, <1>1
<1>3. PICK names : names = {"select"}
  OBVIOUS
<1>4. PICK u : u = PopThrough(s, names)
  OBVIOUS
<1>5. PICK r : r = PopTo(s, names)
  OBVIOUS
<1>6. PICK i \in 3 .. Len(s.open) :
          /\ s.open[i].name \in names \cap Resetting
          /\ CutTo(s, u, i - 1) /\ Level(Parents(s.open[i].name), u.open)
  BY <1>1, <1>2, <1>3, <1>4, <1>5, PopToTop
<1>7. Level(Parents("table"), u.open)
  BY <1>3, <1>6, ParentsAre
<1>8. Sane(u) /\ FormNamed(u)
  BY <1>2, <1>6 DEF CutTo, FormNamed
<1>9. Topped(Parents("table"), u)
  <2>1. u.failure = "none"
    BY <1>6 DEF CutTo
  <2> QED BY <2>1, <1>7, <1>8 DEF Topped
<1> QED BY <1>3, <1>4, <1>8, <1>9, ResetShape

\* The rules of the mode in_select.
LEMMA InSelectYields ==
    ASSUME NEW D, Keeps(D), KeepsShape(D), NEW m \in Selects, NEW s, Fits(m, s),
           s.failure = "none", NEW t \in Tokens, Plain(t)
    PROVE  Yields(m, in_select(D, s, t), t)
<1>1. /\ m \in Leveled /\ m \in Steady /\ m \in Bodies \cup Selects
      /\ {"option"} \cap Framed = {} /\ {"optgroup"} \cap Framed = {}
      /\ {"option", "optgroup"} \cap Embedded = {}
  BY BodiesAre DEF Framed, Resetting, Cells, Sections, Embedded
<1>2. Sane(s) /\ s \in Trees /\ Shape(s)
  BY <1>1, StackIs, FitsShape
<1>3. ASSUME NEW r, Fits(m, r) PROVE Yields(m, r, t)
  BY <1>3, FitsShape
<1>4. ASSUME ~Inner(t), NEW r, Shape(r) PROVE Yields(m, r, t)
  BY <1>4 DEF Yields
<1>5. Fits(m, Ignored(s)) /\ Fits(m, Write(s)) /\ Fits(m, HtmlStartTagInBody(s))
  BY <1>1, AgainFits, WriteFits DEF Steady, Leveled, HtmlStartTagInBody
<1>6. PICK no_option : no_option = IF CurrentIs(s, {"option"})
                                   THEN act_as_if_an_end_tag_token_had_been_seen(D, s, "option")
                                   ELSE s
  OBVIOUS
<1>7. Fits(m, no_option)
  BY <1>1, <1>6, InnerMadeUp
<1>8. ASSUME IsStart(t, {"option"}) PROVE Fits(m, insert_an_HTML_element(no_option, t.name))
  <2>1. t.name \in Names /\ t.name \notin Framed \cup Embedded
    BY <1>1, <1>8, NamesHave DEF IsStart
  <2> QED BY <2>1, <1>1, <1>7, InsertFits
<1>9. ASSUME IsStart(t, {"optgroup"})
      PROVE  Fits(m, insert_an_HTML_element(
                 IF CurrentIs(no_option, {"optgroup"})
                 THEN act_as_if_an_end_tag_token_had_been_seen(D, no_option, "optgroup")
                 ELSE no_option, t.name))
  <2>1. t.name \in Names /\ t.name \notin Framed \cup Embedded
    BY <1>1, <1>9, NamesHave DEF IsStart
  <2>2. PICK r : r = IF CurrentIs(no_option, {"optgroup"})
                     THEN act_as_if_an_end_tag_token_had_been_seen(D, no_option, "optgroup")
                     ELSE no_option
    OBVIOUS
  <2>3. Fits(m, r)
    BY <2>2, <1>1, <1>7, InnerMadeUp
  <2>4. Fits(m, insert_an_HTML_element(r, t.name))
    BY <2>1, <2>3, <1>1, InsertFits
  <2> QED BY <2>2, <2>4
<1>10. /\ Shape(act_as_if_an_end_tag_token_had_been_seen(D, s, "select"))
       /\ Shape(Again(act_as_if_an_end_tag_token_had_been_seen(D, s, "select")))
  <2>1. "select" \in Names
    BY NamesHave
  <2>2. Sane(act_as_if_an_end_tag_token_had_been_seen(D, s, "select"))
    BY <2>1, <1>2, MadeUpSane
  <2>3. Shape(act_as_if_an_end_tag_token_had_been_seen(D, s, "select"))
    BY <2>1, <1>2, MadeUpShape
  <2> QED BY <2>2, <2>3, SaneIs, FlagsShape
<1>11. IsStart(t, {"script"}) => Shape(OnBehalf(in_head(D, s, t)))
  <2>1. IsStart(t, {"script"}) => IsStart(t, HeadContent)
    BY DEF IsStart, HeadContent
  <2>2. m \notin Rootless
    BY DEF Selects, Rootless
  <2> QED BY <2>1, <2>2, <1>2, HeadContentShape, InHeadSane, SaneIs, FlagsShape
<1>12. PICK closed : closed = IF Len(s.open) - 1 >= 1 /\ s.open[Len(s.open) - 1].name = "optgroup"
                              THEN no_option ELSE s
  OBVIOUS
<1>13. Fits(m, IF CurrentIs(closed, {"optgroup"}) THEN Pop(closed) ELSE Ignored(closed))
  <2>1. Fits(m, closed)
    BY <1>7, <1>12
  <2>2. CurrentIs(closed, {"optgroup"}) => Fits(m, Pop(closed))
    BY <2>1, <1>1, PopFits
  <2> QED BY <2>1, <2>2, AgainFits
<1>14. Fits(m, IF CurrentIs(s, {"option"}) THEN Pop(s) ELSE Ignored(s))
  BY <1>1, <1>5, PopFits
<1>15. Shape(reset_the_insertion_mode_appropriately(PopThrough(s, {"select"})))
  BY SelectEnded
<1>16. ~Inner(t) \/ ~(IsStart(t, {"select"}) \/ IsStart(t, {"input", "keygen", "textarea"})
                      \/ IsStart(t, {"script"}) \/ IsEnd(t, {"select"}))
  BY DEF Inner, IsStart, IsEnd
<1>17. PICK q : q = in_select(D, s, t)
  OBVIOUS
<1>18. \/ Fits(m, q)
       \/ /\ IsStart(t, {"select"}) \/ IsStart(t, {"input", "keygen", "textarea"})
             \/ IsStart(t, {"script"}) \/ IsEnd(t, {"select"})
          /\ Shape(q)
  <2>1. /\ IsStart(t, {"option"}) => Fits(m, insert_an_HTML_element(no_option, t.name))
        /\ Shape(Ignored(s)) /\ Fits(m, s) /\ t.type # "eof"
    BY <1>5, <1>8, FitsShape DEF Plain
  <2> QED BY <2>1, <1>5, <1>6, <1>9, <1>10, <1>11, <1>12, <1>13, <1>14, <1>15, <1>17 DEF in_select
<1> QED BY <1>3, <1>4, <1>16, <1>17, <1>18

\* The rules of the mode in_select_in_table.
LEMMA InSelectInTableYields ==
    ASSUME NEW D, Keeps(D), KeepsShape(D), NEW s, Fits("in_select_in_table", s),
           s.failure = "none", NEW t \in Tokens, Plain(t)
    PROVE  Yields("in_select_in_table", in_select_in_table(D, s, t), t)
<1>1. "in_select_in_table" \in Selects /\ "in_select_in_table" \in Leveled
  BY DEF Selects, Leveled
<1>2. Sane(s) /\ s \in Trees /\ Shape(s)
  BY <1>1, StackIs, FitsShape
<1>3. PICK tabular : tabular = {"caption"} \cup TableParts \cup Cells
  OBVIOUS
<1>4. IsStart(t, tabular) \/ IsEnd(t, tabular) => ~Inner(t)
  BY <1>3 DEF Inner, IsStart, IsEnd, TableParts, Cells, Sections
<1>5. Shape(Again(act_as_if_an_end_tag_token_had_been_seen(D, s, "select")))
  <2>1. "select" \in Names
    BY NamesHave
  <2>2. Sane(act_as_if_an_end_tag_token_had_been_seen(D, s, "select"))
    BY <2>1, <1>2, MadeUpSane
  <2>3. Shape(act_as_if_an_end_tag_token_had_been_seen(D, s, "select"))
    BY <2>1, <1>2, MadeUpShape
  <2> QED BY <2>2, <2>3, SaneIs, FlagsShape
<1>6. Yields("in_select_in_table", Ignored(s), t)
  BY AgainFits, FitsShape
<1>7. Yields("in_select_in_table", OnBehalf(in_select(D, s, t)), t)
  <2>1. Yields("in_select_in_table", in_select(D, s, t), t)
    BY <1>1, InSelectYields
  <2> QED BY <2>1, <1>2, InSelectSane, SaneIs, FlagsYield
<1>8. IsStart(t, tabular) \/ IsEnd(t, tabular) =>
          Yields("in_select_in_table",
                 Again(act_as_if_an_end_tag_token_had_been_seen(D, s, "select")), t)
  BY <1>4, <1>5 DEF Yields
<1> QED BY <1>3, <1>6, <1>7, <1>8 DEF in_select_in_table

\* The modes that the stack of the body is left in.
Afters == {"in_body", "after_body", "after_after_body"}

\* After the body the stack is left as it is in the body.
LEMMA BodyReady ==
    ASSUME NEW m \in Afters, NEW s, Fits(m, s), NEW n \in Afters
    PROVE  Shape(switch_the_insertion_mode(s, n))
<1>1. /\ m \in Steady \cap Leveled /\ n \in Steady \cap Leveled
      /\ Holders(m) = {"body"} /\ Holders(n) = {"body"}
  BY DEF Afters, Steady, Leveled, Holders
<1>2. s \in Trees /\ Ready(m, s)
  BY FitsShape, SaneIs
<1>3. Standing(m, s.open) => Standing(n, s.open)
  BY <1>1, StandingSteady
<1>4. Ready(n, s)
  BY <1>2, <1>3 DEF Ready
<1> QED BY <1>2, <1>4, SwitchShape

\* The rules of the modes after the body.
LEMMA AfterBodyShape ==
    ASSUME NEW D, Keeps(D), NEW s, NEW t \in Tokens, Plain(t)
    PROVE  /\ Fits("after_body", s) => Shape(after_body(D, s, t))
           /\ Fits("after_after_body", s) => Shape(after_after_body(D, s, t))
<1>1. ASSUME NEW m \in {"after_body", "after_after_body"}, Fits(m, s)
      PROVE  /\ Shape(s) /\ Shape(Ignored(s)) /\ Shape(Write(s)) /\ Shape(HtmlStartTagInBody(s))
             /\ Shape(Again(switch_the_insertion_mode(s, "in_body")))
             /\ Shape(switch_the_insertion_mode(s, "after_after_body"))
             /\ t.type = "doctype" \/ IsSpace(t) \/ IsStart(t, {"html"}) =>
                    Shape(OnBehalf(in_body(D, s, t)))
  <2>1. m \in Afters /\ m \in Steady /\ "in_body" \in Afters /\ "after_after_body" \in Afters
    BY <1>1 DEF Afters, Steady, Leveled
  <2>2. Shape(s) /\ Shape(Ignored(s)) /\ Shape(Write(s)) /\ Shape(HtmlStartTagInBody(s))
    BY <1>1, AgainFits, WriteFits, FitsShape DEF HtmlStartTagInBody
  <2>3. Shape(switch_the_insertion_mode(s, "in_body"))
        /\ Shape(switch_the_insertion_mode(s, "after_after_body"))
    BY <1>1, <2>1, BodyReady
  <2>4. switch_the_insertion_mode(s, "in_body") \in Trees
    <3>1. "in_body" \in Modes /\ Sane(s)
      BY <1>1, FitsShape DEF Modes
    <3> QED BY <3>1, SwitchSane, SaneIs
  <2> QED BY <1>1, <2>1, <2>2, <2>3, <2>4, FlagsShape, AfterwardsFits
<1>2. t.type # "eof"
  BY DEF Plain
<1>3. Fits("after_body", s) => Shape(after_body(D, s, t))
  BY <1>1, <1>2 DEF after_body
<1>4. Fits("after_after_body", s) => Shape(after_after_body(D, s, t))
  BY <1>1, <1>2 DEF after_after_body
<1> QED BY <1>3, <1>4

\* The modes of a frameset.
Framesets == {"in_frameset", "after_frameset", "after_after_frameset"}

\* In a document of frames only the html element is looked at.
LEMMA FramesetReady ==
    ASSUME NEW s \in Trees, NEW m \in Framesets,
           IF s.failure = "none" THEN FormNamed(s) /\ HtmlFirst(s.open) ELSE s.failure \in Lawful
    PROVE  /\ Ready(m, s) /\ Shape(switch_the_insertion_mode(s, m))
           /\ s.mode = m => Shape(s)
<1>1. m \in Steady /\ m \notin Leveled
  BY DEF Framesets, Steady, Leveled
<1>2. HtmlFirst(s.open) => Standing(m, s.open)
  BY <1>1, StandingSteady
<1>3. Ready(m, s)
  BY <1>2 DEF Ready
<1>4. s.mode = m => Stands(m, s)
  BY <1>3 DEF Ready, Stands
<1> QED BY <1>3, <1>4, SwitchShape, StandsShape

\* What is known in the modes of a frameset.
LEMMA FramesetFits ==
    ASSUME NEW m \in Framesets, NEW s, Fits(m, s), s.failure = "none"
    PROVE  /\ s \in Trees /\ Sane(s) /\ s.mode = m /\ FormNamed(s) /\ HtmlFirst(s.open)
           /\ m \in Steady
<1>1. m \in Steady
  BY DEF Framesets, Steady
<1>2. Sane(s) /\ s.mode = m /\ FormNamed(s) /\ Standing(m, s.open)
  BY DEF Fits, Stands
<1> QED BY <1>1, <1>2, StandingSteady, SaneIs

\* The end of a frameset, of which the outermost is not popped.
LEMMA FramesetEnded ==
    ASSUME NEW s, Fits("in_frameset", s), s.failure = "none",
           NEW r, r = IF Len(s.open) = 1 THEN Ignored(s) ELSE Pop(s)
    PROVE  Shape(r) /\ Shape(switch_the_insertion_mode(r, "after_frameset"))
<1>1. "in_frameset" \in Framesets /\ "after_frameset" \in Framesets
  BY DEF Framesets
<1>2. s \in Trees /\ Sane(s) /\ s.mode = "in_frameset" /\ FormNamed(s) /\ HtmlFirst(s.open)
  BY <1>1, FramesetFits
<1>3. s.open \in Seq(Elements) /\ Len(s.open) \in Nat /\ Len(s.open) >= 1
  BY <1>2, SaneIs DEF HtmlFirst
<1>4. /\ r \in Trees /\ r.mode = "in_frameset" /\ FormNamed(r) /\ HtmlFirst(r.open)
      /\ r.failure = "none"
  <2>1. CASE Len(s.open) = 1
    <3>1. r = [s EXCEPT !.ignored = TRUE]
      BY <2>1 DEF Ignored
    <3> QED BY <3>1, <1>2 DEF Trees, FormNamed
  <2>2. CASE Len(s.open) # 1
    <3>1. PICK n : n = Len(s.open) - 1
      OBVIOUS
    <3>2. n \in 0 .. Len(s.open) /\ n >= 1
      <4>1. ASSUME NEW l \in Nat, l >= 1, l # 1 PROVE l - 1 \in 0 .. l /\ l - 1 >= 1
        BY <4>1
      <4>2. Len(s.open) - 1 \in 0 .. Len(s.open) /\ Len(s.open) - 1 >= 1
        BY <1>3, <2>2, <4>1
      <4> QED BY <4>2, <3>1
    <3>3. r = Shrunk(s, n)
      BY <1>3, <2>2, <3>1 DEF Pop
    <3>4. CutTo(s, r, n)
      BY <1>2, <3>2, <3>3, ShrunkIs
    <3>5. /\ Sane(r) /\ r.mode = "in_frameset" /\ r.form = s.form /\ Len(r.open) = n
          /\ r.failure = "none" /\ \A k \in 1 .. n : r.open[k] = s.open[k]
      BY <1>2, <3>4 DEF CutTo
    <3>6. HtmlFirst(r.open)
      BY <1>2, <1>3, <3>2, <3>5 DEF HtmlFirst
    <3> QED BY <1>2, <3>5, <3>6, SaneIs DEF FormNamed
  <2> QED BY <2>1, <2>2
<1> QED BY <1>1, <1>4, FramesetReady

\* The rules of the mode in_frameset.
LEMMA InFramesetShape ==
    ASSUME NEW D, Keeps(D), NEW s, Fits("in_frameset", s), s.failure = "none",
           NEW t \in Tokens, Plain(t)
    PROVE  Shape(in_frameset(D, s, t))
<1>1. "in_frameset" \in Framesets
  BY DEF Framesets
<1>2. s \in Trees /\ Sane(s) /\ s.mode = "in_frameset" /\ FormNamed(s) /\ HtmlFirst(s.open)
      /\ s.open \in Seq(Elements)
  BY <1>1, FramesetFits, SaneIs
<1>3. Shape(s) /\ Shape(Ignored(s)) /\ Shape(Write(s)) /\ Shape(HtmlStartTagInBody(s))
  BY AgainFits, WriteFits, FitsShape DEF HtmlStartTagInBody
<1>4. IsStart(t, {"frameset"}) => Shape(insert_an_HTML_element(s, t.name))
  <2>1. PICK r : r = insert_an_HTML_element(s, t.name)
    OBVIOUS
  <2>2. IsStart(t, {"frameset"}) => t.name \in Names /\ t.name = "frameset"
    BY TokenIs DEF IsStart
  <2>3. IsStart(t, {"frameset"}) =>
            /\ r \in Trees /\ r.mode = s.mode /\ r.form = s.form /\ r.failure = s.failure
            /\ Last(r.open) \in Elements /\ Last(r.open).name = "frameset"
            /\ r.open = Append(s.open, Last(r.open))
    <3>1. Planted(s)
      BY <1>2 DEF Planted, HtmlFirst
    <3> QED BY <3>1, <1>2, <2>1, <2>2, InsertedIs DEF Whole
  <2>4. IsStart(t, {"frameset"}) => HtmlFirst(r.open)
    BY <1>2, <2>3, HtmlPushed
  <2> QED BY <1>1, <1>2, <2>1, <2>3, <2>4, FramesetReady DEF FormNamed
<1>5. IsStart(t, {"frame"}) => Shape(InsertAndPop(s, t.name))
  <2>1. IsStart(t, {"frame"}) => t.name \in Names /\ t.name \notin Framed \cup Embedded
    BY TokenIs DEF IsStart, Framed, Resetting, Cells, Sections, Embedded
  <2> QED BY <2>1, InsertAndPopFits, FitsShape
<1>6. IsStart(t, {"noframes"}) => Shape(OnBehalf(in_head(D, s, t)))
  <2>1. IsStart(t, {"noframes"}) => IsStart(t, HeadContent)
    BY DEF IsStart, HeadContent
  <2>2. "in_frameset" \notin Rootless
    BY DEF Rootless
  <2> QED BY <2>1, <2>2, <1>2, HeadContentShape, InHeadSane, SaneIs, FlagsShape
<1>7. PICK r : r = IF Len(s.open) = 1 THEN Ignored(s) ELSE Pop(s)
  OBVIOUS
<1>8. Shape(r) /\ Shape(switch_the_insertion_mode(r, "after_frameset"))
  BY <1>7, FramesetEnded
<1>9. t.type # "eof"
  BY DEF Plain
<1> QED BY <1>3, <1>4, <1>5, <1>6, <1>7, <1>8, <1>9 DEF in_frameset

\* The rules of the modes after the frameset.
LEMMA AfterFramesetShape ==
    ASSUME NEW D, Keeps(D), NEW s, s.failure = "none", NEW t \in Tokens, Plain(t)
    PROVE  /\ Fits("after_frameset", s) => Shape(after_frameset(D, s, t))
           /\ Fits("after_after_frameset", s) => Shape(after_after_frameset(D, s, t))
<1>1. ASSUME NEW m \in {"after_frameset", "after_after_frameset"}, Fits(m, s)
      PROVE  /\ Shape(s) /\ Shape(Ignored(s)) /\ Shape(Write(s)) /\ Shape(HtmlStartTagInBody(s))
             /\ Shape(switch_the_insertion_mode(s, "after_after_frameset"))
             /\ IsStart(t, {"noframes"}) => Shape(OnBehalf(in_head(D, s, t)))
             /\ t.type = "doctype" \/ IsSpace(t) \/ IsStart(t, {"html"}) =>
                    Shape(OnBehalf(in_body(D, s, t)))
  <2>1. m \in Framesets /\ "after_after_frameset" \in Framesets
    BY <1>1 DEF Framesets
  <2>2. s \in Trees /\ Sane(s) /\ FormNamed(s) /\ HtmlFirst(s.open) /\ m \in Steady
    BY <1>1, <2>1, FramesetFits
  <2>3. Shape(s) /\ Shape(Ignored(s)) /\ Shape(Write(s)) /\ Shape(HtmlStartTagInBody(s))
    BY <1>1, AgainFits, WriteFits, FitsShape DEF HtmlStartTagInBody
  <2>4. Shape(switch_the_insertion_mode(s, "after_after_frameset"))
    BY <2>1, <2>2, FramesetReady
  <2>5. IsStart(t, {"noframes"}) => Shape(OnBehalf(in_head(D, s, t)))
    <3>1. IsStart(t, {"noframes"}) => IsStart(t, HeadContent)
      BY DEF IsStart, HeadContent
    <3>2. m \notin Rootless
      BY <1>1 DEF Rootless
    <3> QED BY <3>1, <3>2, <1>1, <2>2, HeadContentShape, InHeadSane, SaneIs, FlagsShape
  <2> QED BY <1>1, <2>2, <2>3, <2>4, <2>5, AfterwardsFits
<1>2. t.type # "eof"
  BY DEF Plain
<1>3. Fits("after_frameset", s) => Shape(after_frameset(D, s, t))
  BY <1>1, <1>2 DEF after_frameset
<1>4. Fits("after_after_frameset", s) => Shape(after_after_frameset(D, s, t))
  BY <1>1, <1>2 DEF after_after_frameset
<1> QED BY <1>3, <1>4

-------------------------------------------------------------------------------
(* The dispatcher at every depth *)

\* The rules of every mode give back a stack that is as it should be in the next one.
LEMMA RulesShape ==
    ASSUME NEW D, Keeps(D), KeepsShape(D), NEW s, Sane(s), Shape(s), s.failure = "none",
           NEW t \in Tokens, Plain(t)
    PROVE  Shape(Rules(D, s, t))
<1>1. s.mode \in Modes
  <2>1. s \in Trees
    BY SaneIs
  <2> QED BY <2>1 DEF Trees
<1>2. CASE s.mode = "text"
  <2>1. Rules(D, s, t) = text(s, t)
    BY <1>2 DEF Rules
  <2> QED BY <2>1, <1>2, TextShape
<1>3. CASE s.mode = "in_table_text"
  <2>1. Rules(D, s, t) = in_table_text(s, t)
    BY <1>3 DEF Rules
  <2> QED BY <2>1, <1>3, TableTextShape
<1>4. CASE s.mode \notin Remembering
  <2>1. Fits(s.mode, s)
    BY <1>4 DEF Fits, Stands, Shape
  <2>2. /\ s.mode = "initial" => Shape(initial(s, t))
        /\ s.mode = "before_html" => Shape(before_html(s, t))
        /\ s.mode = "before_head" => Shape(before_head(D, s, t))
        /\ s.mode = "in_head" => Shape(in_head(D, s, t))
        /\ s.mode = "in_head_noscript" => Shape(in_head_noscript(D, s, t))
        /\ s.mode = "after_head" => Shape(after_head(D, s, t))
    BY <2>1, InitialShape, BeforeHtmlShape, BeforeHeadShape, InHeadShape, InHeadNoscriptShape,
       AfterHeadShape
  <2>3. /\ s.mode = "in_body" => Shape(in_body(D, s, t))
        /\ s.mode = "in_caption" => Shape(in_caption(D, s, t))
        /\ s.mode = "in_cell" => Shape(in_cell(D, s, t))
    <3>1. "in_body" \in Bodies
      BY DEF Bodies
    <3>2. s.mode = "in_body" => Yields("in_body", in_body(D, s, t), t)
      BY <2>1, <3>1, InBodyYields
    <3> QED BY <2>1, <3>2, InCaptionYields, InCellYields DEF Yields
  <2>4. /\ s.mode = "in_table" => Shape(in_table(D, s, t))
        /\ s.mode = "in_column_group" => Shape(in_column_group(D, s, t))
        /\ s.mode = "in_table_body" => Shape(in_table_body(D, s, t))
        /\ s.mode = "in_row" => Shape(in_row(D, s, t))
    <3>1. "in_table" \in Grids
      BY DEF Grids
    <3>2. s.mode = "in_table" => Shape(in_table(D, s, t))
      BY <2>1, <3>1, InTableShape
    <3> QED BY <2>1, <3>2, InColumnGroupShape, InTableBodyShape, InRowShape
  <2>5. /\ s.mode = "in_select" => Shape(in_select(D, s, t))
        /\ s.mode = "in_select_in_table" => Shape(in_select_in_table(D, s, t))
    <3>1. "in_select" \in Selects
      BY DEF Selects
    <3>2. s.mode = "in_select" => Yields("in_select", in_select(D, s, t), t)
      BY <2>1, <3>1, InSelectYields
    <3> QED BY <2>1, <3>2, InSelectInTableYields DEF Yields
  <2>6. /\ s.mode = "after_body" => Shape(after_body(D, s, t))
        /\ s.mode = "after_after_body" => Shape(after_after_body(D, s, t))
        /\ s.mode = "in_frameset" => Shape(in_frameset(D, s, t))
        /\ s.mode = "after_frameset" => Shape(after_frameset(D, s, t))
        /\ s.mode = "after_after_frameset" => Shape(after_after_frameset(D, s, t))
    BY <2>1, AfterBodyShape, InFramesetShape, AfterFramesetShape
  <2>7. s.mode \notin {"text", "in_table_text"}
    BY <1>4 DEF Remembering
  <2> QED BY <1>1, <2>2, <2>3, <2>4, <2>5, <2>6, <2>7 DEF Rules, Modes
<1> QED BY <1>2, <1>3, <1>4 DEF Remembering

\* A tag that the rules of the body or of a select make up does not leave the mode.
LEMMA RulesStand ==
    ASSUME NEW D, Keeps(D), KeepsShape(D), NEW m \in Bodies \cup Selects, NEW s, Sane(s),
           Stands(m, s), s.failure = "none", NEW t \in Tokens, Plain(t), Inner(t)
    PROVE  Stands(m, Rules(D, s, t))
<1>1. Fits(m, s) /\ s.mode = m
  BY DEF Fits, Stands
<1>2. "in_body" \in Bodies /\ "in_select" \in Selects
  BY DEF Bodies, Selects
<1>3. /\ m = "in_body" => Yields(m, in_body(D, s, t), t)
      /\ m = "in_select" => Yields(m, in_select(D, s, t), t)
  BY <1>1, <1>2, InBodyYields, InSelectYields
<1>4. /\ m = "in_caption" => Yields(m, in_caption(D, s, t), t)
      /\ m = "in_cell" => Yields(m, in_cell(D, s, t), t)
      /\ m = "in_select_in_table" => Yields(m, in_select_in_table(D, s, t), t)
  BY <1>1, InCaptionYields, InCellYields, InSelectInTableYields
<1>5. Yields(m, Rules(D, s, t), t)
  BY <1>1, <1>3, <1>4 DEF Rules, Bodies, Selects
<1> QED BY <1>5 DEF Yields

\* A dispatcher of which each reprocessing keeps the shape keeps it.
LEMMA DispatchedShape ==
    ASSUME NEW D, Keeps(D), KeepsShape(D)
    PROVE  KeepsShape(Dispatched(D))
<1>1. SUFFICES ASSUME NEW s \in Trees, NEW t \in Tokens, Sane(s), Plain(t)
               PROVE  /\ Shape(s) => Shape(Dispatched(D)[s][t])
                      /\ \A m \in Bodies \cup Selects :
                             Stands(m, s) /\ Inner(t) => Stands(m, Dispatched(D)[s][t])
  BY DEF KeepsShape
<1>2. PICK r : r = apply_the_rules_for(D, s, t)
  OBVIOUS
<1>3. Sane(r) /\ r \in Trees
  BY <1>1, <1>2, AppliedSane, SaneIs
<1>4. Dispatched(D)[s][t] = IF s.failure # "none" THEN s ELSE Reprocessed(D, r, t)
  BY <1>2 DEF Dispatched
<1>5. CASE s.failure # "none"
  <2>1. Dispatched(D)[s][t] = s
    BY <1>4, <1>5
  <2> QED BY <2>1
<1>6. CASE s.failure = "none"
  <2>1. PICK u : u = [s EXCEPT !.ignored = FALSE, !.reprocess = FALSE, !.ignore_line_feed = FALSE]
    OBVIOUS
  <2>2. /\ u \in Trees /\ u.mode = s.mode /\ u.original = s.original /\ u.failure = s.failure
        /\ u.open = s.open /\ u.form = s.form /\ u.formatting = s.formatting /\ u.head = s.head
    BY <2>1 DEF Trees
  <2>3. Sane(u)
    BY <1>1, <2>2, SaneFrame
  <2>4. /\ Shape(s) => Shape(u)
        /\ \A m : Stands(m, s) => Stands(m, u)
    BY <2>2, ShapeFrame
  <2>5. r = Ignored(u) \/ r = Rules(D, u, t)
    BY <1>2, <2>1 DEF apply_the_rules_for
  <2>6. Shape(s) => Shape(r)
    <3>1. SUFFICES ASSUME Shape(s) PROVE Shape(r)
      OBVIOUS
    <3>2. Shape(u) /\ u.failure = "none"
      BY <1>6, <2>2, <2>4, <3>1
    <3>3. Shape(Ignored(u))
      BY <2>2, <3>2, FlagsShape
    <3>4. Shape(Rules(D, u, t))
      BY <1>1, <2>3, <3>2, RulesShape
    <3> QED BY <2>5, <3>3, <3>4
  <2>7. ASSUME NEW m \in Bodies \cup Selects, Stands(m, s), Inner(t) PROVE Stands(m, r)
    <3>1. Fits(m, u)
      BY <2>3, <2>4, <2>7 DEF Fits
    <3>2. Stands(m, Ignored(u))
      BY <3>1, AgainFits, FitsShape
    <3>3. Stands(m, Rules(D, u, t))
      BY <1>1, <1>6, <2>2, <2>3, <2>4, <2>7, RulesStand
    <3> QED BY <2>5, <3>2, <3>3
  <2>8. Dispatched(D)[s][t] = IF r.reprocess THEN D[r][t] ELSE r
    BY <1>4, <1>6 DEF Reprocessed
  <2> QED BY <1>1, <1>3, <2>6, <2>7, <2>8 DEF KeepsShape
<1> QED BY <1>5, <1>6

\* Without room it fails
LEMMA UnboundedShape == KeepsShape(Unbounded)
<1>1. SUFFICES ASSUME NEW s \in Trees, NEW t \in Tokens
               PROVE  s.failure = "none" \/ s.failure \in Lawful =>
                          Unbounded[s][t].failure \in Lawful
  BY DEF KeepsShape, Shape, Stands, Lawful
<1>2. Unbounded[s][t] = Fail(s, "overflow")
  BY DEF Unbounded
<1> QED BY <1>2 DEF Fail, Trees, Lawful

\* and so with any room it keeps the shape.
LEMMA WithinShape == \A n \in Nat : KeepsShape(DispatchedWithin[n])
<1>1. SUFFICES ASSUME NEW n \in Nat, ~KeepsShape(DispatchedWithin[n]) PROVE FALSE
  OBVIOUS
<1>2. PICK I : I = {k \in Nat : ~KeepsShape(DispatchedWithin[k])}
  OBVIOUS
<1>3. I \in SUBSET Nat /\ I # {}
  BY <1>1, <1>2
<1>4. PICK k : k = Min(I)
  OBVIOUS
<1>5. k \in I /\ \A i \in I : k <= i
  BY <1>3, <1>4, Least
<1>6. k \in Nat /\ ~KeepsShape(DispatchedWithin[k])
  BY <1>2, <1>5
<1>7. k # 0
  BY <1>6, UnboundedShape, DispatchedWithinRoom
<1>8. k - 1 \in Nat /\ k - 1 \notin I
  BY <1>5, <1>6, <1>7
<1>9. KeepsShape(DispatchedWithin[k - 1])
  BY <1>2, <1>8
<1>10. DispatchedWithin[k] = Dispatched(DispatchedWithin[k - 1])
  BY <1>6, <1>7, DispatchedWithinRoom
<1> QED BY <1>6, <1>8, <1>9, <1>10, WithinKeeps, DispatchedShape

-------------------------------------------------------------------------------
(* The end of the file *)

\* Nothing has failed that may not.
Sound(s) == s.failure = "none" \/ s.failure \in Lawful

\* At the end of the file nothing fails either, though nothing stays open.
KeepsSound(D) ==
    \A s \in Trees, t \in Tokens : Sane(s) /\ Shape(s) /\ t.type = "eof" => Sound(D[s][t])

\* What has the shape is sound,
LEMMA ShapeSound == \A s : Shape(s) => Sound(s)
BY DEF Shape, Sound

\* and so is it when the parsing stops, for whichever mode.
LEMMA StopSound ==
    ASSUME NEW s \in Trees, Shape(s), ~s.reprocess,
           NEW r \in {stop_parsing(s), OnBehalf(stop_parsing(s)),
                      OnBehalf(OnBehalf(stop_parsing(s)))}
    PROVE  Sound(r) /\ (r.reprocess => Shape(r))
<1>1. r.failure = s.failure /\ r.reprocess = s.reprocess
  BY DEF stop_parsing, OnBehalf, Trees
<1> QED BY <1>1, ShapeSound DEF Sound

\* The modes inside a table and after the body stop as in_body and in_table do,
LEMMA StopsAre ==
    ASSUME NEW D, Keeps(D), NEW s, Sane(s), NEW t \in Tokens, t.type = "eof",
           NEW stops, stops = {stop_parsing(s), OnBehalf(stop_parsing(s)),
                               OnBehalf(OnBehalf(stop_parsing(s)))}
    PROVE  /\ in_body(D, s, t) \in stops /\ in_table(D, s, t) \in stops
           /\ in_select(D, s, t) \in stops /\ in_select_in_table(D, s, t) \in stops
           /\ in_caption(D, s, t) \in stops /\ in_table_body(D, s, t) \in stops
           /\ in_row(D, s, t) \in stops /\ in_cell(D, s, t) \in stops
           /\ after_body(D, s, t) \in stops /\ in_frameset(D, s, t) \in stops
           /\ after_frameset(D, s, t) \in stops /\ after_after_body(D, s, t) \in stops
           /\ after_after_frameset(D, s, t) \in stops
<1>1. /\ \A names : ~IsStart(t, names) /\ ~IsEnd(t, names)
      /\ ~IsSpace(t) /\ ~IsNull(t)
  BY EofTag
<1>2. /\ in_body(D, s, t) = stop_parsing(s) /\ in_table(D, s, t) = stop_parsing(s)
      /\ in_select(D, s, t) = stop_parsing(s)
  BY BodyEnds
<1>3. in_caption(D, s, t) \in stops /\ in_cell(D, s, t) \in stops
  BY <1>1, <1>2 DEF in_caption, in_cell
<1>4. in_table_body(D, s, t) \in stops /\ in_row(D, s, t) \in stops
  BY <1>1, <1>2 DEF in_table_body, in_row
<1>5. in_select_in_table(D, s, t) \in stops
  BY <1>1, <1>2 DEF in_select_in_table
<1>6. after_body(D, s, t) \in stops /\ in_frameset(D, s, t) \in stops
  BY <1>1 DEF after_body, in_frameset
<1>7. after_frameset(D, s, t) \in stops /\ after_after_body(D, s, t) \in stops
  BY <1>1 DEF after_frameset, after_after_body
<1>8. after_after_frameset(D, s, t) \in stops
  BY <1>1 DEF after_after_frameset
<1> QED BY <1>2, <1>3, <1>4, <1>5, <1>6, <1>7, <1>8

\* and the other modes have the token reprocessed in the shape of the next one.
LEMMA RulesSound ==
    ASSUME NEW D, Keeps(D), KeepsShape(D), NEW s, Sane(s), Shape(s), s.failure = "none",
           ~s.reprocess, NEW t \in Tokens, t.type = "eof"
    PROVE  Sound(Rules(D, s, t)) /\ (Rules(D, s, t).reprocess => Shape(Rules(D, s, t)))
<1>1. s \in Trees /\ s.mode \in Modes
  <2>1. s \in Trees
    BY SaneIs
  <2> QED BY <2>1 DEF Trees
<1>2. PICK r : r = Rules(D, s, t)
  OBVIOUS
<1>3. PICK stops : stops = {stop_parsing(s), OnBehalf(stop_parsing(s)),
                            OnBehalf(OnBehalf(stop_parsing(s)))}
  OBVIOUS
<1>4. CASE s.mode = "text"
  <2>1. r = text(s, t)
    BY <1>2, <1>4 DEF Rules
  <2>2. Shape(r)
    BY <2>1, <1>4, TextShape
  <2> QED BY <2>2, <1>2, ShapeSound
<1>5. CASE s.mode = "in_table_text"
  <2>1. r = in_table_text(s, t)
    BY <1>2, <1>5 DEF Rules
  <2>2. Shape(r)
    BY <2>1, <1>5, TableTextShape
  <2> QED BY <2>2, <1>2, ShapeSound
<1>6. CASE s.mode \in {"initial", "before_html", "before_head", "in_head", "in_head_noscript",
                       "after_head", "in_column_group"}
  <2>1. Fits(s.mode, s)
    BY <1>6 DEF Fits, Stands, Shape, Remembering
  <2>2. /\ s.mode = "initial" => Shape(initial(s, t))
        /\ s.mode = "before_html" => Shape(before_html(s, t))
        /\ s.mode = "before_head" => Shape(before_head(D, s, t))
        /\ s.mode = "in_head" => Shape(in_head(D, s, t))
        /\ s.mode = "in_head_noscript" => Shape(in_head_noscript(D, s, t))
        /\ s.mode = "after_head" => Shape(after_head(D, s, t))
        /\ s.mode = "in_column_group" => Shape(in_column_group(D, s, t))
    BY <2>1, InitialShape, BeforeHtmlShape, BeforeHeadShape, InHeadShape, InHeadNoscriptShape,
       AfterHeadShape, InColumnGroupShape
  <2>3. Shape(r)
    BY <1>2, <1>6, <2>2 DEF Rules
  <2> QED BY <2>3, <1>2, ShapeSound
<1>7. CASE s.mode \in {"in_body", "in_table", "in_caption", "in_table_body", "in_row", "in_cell",
                       "in_select", "in_select_in_table"}
  <2>1. r \in stops
    BY <1>2, <1>3, <1>7, StopsAre DEF Rules
  <2> QED BY <2>1, <1>1, <1>2, <1>3, StopSound
<1>8. CASE s.mode \in {"after_body", "in_frameset", "after_frameset", "after_after_body",
                       "after_after_frameset"}
  <2>1. r \in stops
    BY <1>2, <1>3, <1>8, StopsAre DEF Rules
  <2> QED BY <2>1, <1>1, <1>2, <1>3, StopSound
<1> QED BY <1>1, <1>4, <1>5, <1>6, <1>7, <1>8 DEF Modes

\* A dispatcher of which each reprocessing is sound is sound,
LEMMA DispatchedSound ==
    ASSUME NEW D, Keeps(D), KeepsShape(D), KeepsSound(D)
    PROVE  KeepsSound(Dispatched(D))
<1>1. SUFFICES ASSUME NEW s \in Trees, NEW t \in Tokens, Sane(s), Shape(s), t.type = "eof"
               PROVE  Sound(Dispatched(D)[s][t])
  BY DEF KeepsSound
<1>2. PICK r : r = apply_the_rules_for(D, s, t)
  OBVIOUS
<1>3. Sane(r) /\ r \in Trees
  BY <1>1, <1>2, AppliedSane, SaneIs
<1>4. Dispatched(D)[s][t] = IF s.failure # "none" THEN s ELSE Reprocessed(D, r, t)
  BY <1>2 DEF Dispatched
<1>5. CASE s.failure # "none"
  <2>1. Dispatched(D)[s][t] = s
    BY <1>4, <1>5
  <2> QED BY <2>1, <1>1, ShapeSound
<1>6. CASE s.failure = "none"
  <2>1. PICK u : u = [s EXCEPT !.ignored = FALSE, !.reprocess = FALSE, !.ignore_line_feed = FALSE]
    OBVIOUS
  <2>2. /\ u \in Trees /\ u.mode = s.mode /\ u.original = s.original /\ u.failure = s.failure
        /\ u.open = s.open /\ u.form = s.form /\ u.formatting = s.formatting /\ u.head = s.head
        /\ ~u.reprocess
    BY <2>1 DEF Trees
  <2>3. Sane(u)
    BY <1>1, <2>2, SaneFrame
  <2>4. Shape(u)
    BY <1>1, <2>2, ShapeFrame
  <2>5. r = Rules(D, u, t)
    BY <1>1, <1>2, <2>1 DEF apply_the_rules_for
  <2>6. Sound(r) /\ (r.reprocess => Shape(r))
    BY <1>1, <1>6, <2>2, <2>3, <2>4, <2>5, RulesSound
  <2>7. Dispatched(D)[s][t] = IF r.reprocess THEN D[r][t] ELSE r
    BY <1>4, <1>6 DEF Reprocessed
  <2> QED BY <1>1, <1>3, <2>6, <2>7 DEF KeepsSound
<1> QED BY <1>5, <1>6

\* without room it fails for that reason,
LEMMA UnboundedSound == KeepsSound(Unbounded)
<1>1. SUFFICES ASSUME NEW s \in Trees, NEW t \in Tokens, Sound(s)
               PROVE  Unbounded[s][t].failure \in Lawful
  BY ShapeSound DEF KeepsSound, Sound
<1>2. Unbounded[s][t] = Fail(s, "overflow")
  BY DEF Unbounded
<1> QED BY <1>1, <1>2 DEF Fail, Trees, Lawful, Sound

\* and so with any room it is sound.
LEMMA WithinSound == \A n \in Nat : KeepsSound(DispatchedWithin[n])
<1>1. SUFFICES ASSUME NEW n \in Nat, ~KeepsSound(DispatchedWithin[n]) PROVE FALSE
  OBVIOUS
<1>2. PICK I : I = {k \in Nat : ~KeepsSound(DispatchedWithin[k])}
  OBVIOUS
<1>3. I \in SUBSET Nat /\ I # {}
  BY <1>1, <1>2
<1>4. PICK k : k = Min(I)
  OBVIOUS
<1>5. k \in I /\ \A i \in I : k <= i
  BY <1>3, <1>4, Least
<1>6. k \in Nat /\ ~KeepsSound(DispatchedWithin[k])
  BY <1>2, <1>5
<1>7. k # 0
  BY <1>6, UnboundedSound, DispatchedWithinRoom
<1>8. k - 1 \in Nat /\ k - 1 \notin I
  BY <1>5, <1>6, <1>7
<1>9. KeepsSound(DispatchedWithin[k - 1])
  BY <1>2, <1>8
<1>10. DispatchedWithin[k] = Dispatched(DispatchedWithin[k - 1])
  BY <1>6, <1>7, DispatchedWithinRoom
<1> QED BY <1>6, <1>8, <1>9, <1>10, WithinKeeps, WithinShape, DispatchedSound

-------------------------------------------------------------------------------
(* The theorems *)

\* What is between two tokens of a document: the shape until it ends, and nothing has failed.
Shaped == Sound(tree) /\ (tree.ended \/ Shape(tree))

\* Any token keeps the shape, or ends the document.
LEMMA WriteElementShaped ==
    ASSUME NEW t \in Tokens, IInv, Shaped, write_element(t)
    PROVE  Shaped'
<1>1. Sane(tree) /\ tree \in Trees
  BY SaneIs DEF IInv
<1>2. PICK s : s = tree_construction_dispatcher(tree, t)
  OBVIOUS
<1>3. Sane(s) /\ s \in Trees
  BY <1>1, <1>2, DispatcherSane, SaneIs
<1>4. PICK given : given = TS!Given(Stream, TS!Token(t.type, t.name, s.content))
  OBVIOUS
<1>5. given.ended = (tree.ended \/ t.type = "eof")
  BY <1>4 DEF TS!Given, TS!Token, Stream
<1>6. Shape(tree)
  BY DEF TS!Legal, Stream, write_element, Shaped
<1>7. tree' = [s EXCEPT !.ignored = FALSE, !.reprocess = FALSE, !.content = given.content,
                        !.last = given.last, !.ended = given.ended]
  BY <1>2, <1>4 DEF Constructed, write_element
<1>8. PICK r : r = tree'
  OBVIOUS
<1>9. /\ r.ended = given.ended /\ r.mode = s.mode /\ r.original = s.original
      /\ r.failure = s.failure /\ r.open = s.open /\ r.form = s.form
  BY <1>3, <1>7, <1>8 DEF Trees
<1>10. CASE t.type = "eof"
  <2>1. KeepsSound(DispatchedWithin[MaxDispatch])
    BY WithinSound, DispatchAssumption
  <2>2. Sound(s)
    BY <2>1, <1>1, <1>2, <1>6, <1>10 DEF KeepsSound, tree_construction_dispatcher
  <2>3. Sound(tree') /\ tree'.ended
    BY <2>2, <1>5, <1>8, <1>9, <1>10 DEF Sound
  <2> QED BY <2>3 DEF Sound, Shaped
<1>11. CASE t.type # "eof"
  <2>1. KeepsShape(DispatchedWithin[MaxDispatch])
    BY WithinShape, DispatchAssumption
  <2>2. Shape(s)
    BY <2>1, <1>1, <1>2, <1>6, <1>11 DEF KeepsShape, Plain, tree_construction_dispatcher
  <2>3. Shape(r) /\ Sound(r)
    BY <2>2, <1>9, ShapeFrame, ShapeSound
  <2>4. Shape(tree') /\ Sound(tree')
    BY <2>3, <1>8
  <2>5. Shape(tree)' /\ Sound(tree)'
    BY <2>4 DEF Shape, FormNamed, Standing, HtmlFirst, Level, Tower, Within, Sound
  <2> QED BY <2>5 DEF Shaped
<1> QED BY <1>10, <1>11

\* Nothing is open at first, as it should be.
LEMMA InitShaped == Init => Shaped
<1>1. SUFFICES ASSUME Init PROVE Shape(tree)
  BY ShapeSound DEF Shaped
<1>2. /\ tree.mode = "initial" /\ tree.form.name = "none" /\ Len(tree.open) = 0
      /\ tree.failure = "none"
  BY <1>1 DEF Init, NoElement
<1>3. "initial" \in Modes \ Remembering /\ "initial" \notin Leveled
  BY DEF Modes, Remembering, Leveled
<1> QED BY <1>2, <1>3 DEF Shape, FormNamed, Standing, Remembering

\* Every step keeps the shape.
LEMMA NextShaped == IInv /\ Shaped /\ [Next]_vars => Shaped'
<1>1. SUFFICES ASSUME IInv, Shaped, [Next]_vars PROVE Shaped'
  OBVIOUS
<1>2. CASE UNCHANGED vars
  <2>1. tree' = tree
    BY <1>2 DEF vars
  <2>2. Sound(tree') /\ (tree'.ended \/ Shape(tree'))
    BY <1>1, <2>1 DEF Shaped
  <2>3. Sound(tree)' /\ (Shape(tree)' <=> Shape(tree'))
    BY <2>2 DEF Shape, FormNamed, Standing, HtmlFirst, Level, Tower, Within, Sound
  <2> QED BY <2>2, <2>3 DEF Shaped
<1>3. ASSUME NEW t \in Tokens, write_element(t) PROVE Shaped'
  BY <1>1, <1>3, WriteElementShaped
<1>4. PICK t \in Tokens : write_element(t) \/ UNCHANGED vars
  BY <1>1, NextTakesToken
<1> QED BY <1>2, <1>3, <1>4

\* The frame of the stack is that of the mode, or of the mode that is remembered.
LEMMA FrameOfMode ==
    ASSUME Sane(tree), Shape(tree), tree.failure = "none"
    PROVE  /\ tree.open \in Seq(Elements)
           /\ tree.mode \notin Rootless => HtmlFirst(tree.open)
           /\ Mode \in Leveled => Level(Holders(Mode), tree.open)
<1>1. tree.open \in Seq(Elements) /\ Len(tree.open) \in Nat
  BY SaneIs
<1>2. CASE tree.mode = "text"
  <2>1. /\ tree.open # <<>> /\ tree.open[Len(tree.open)].name \notin Framed
        /\ tree.original \notin Rootless
        /\ Standing(tree.original, SubSeq(tree.open, 1, Len(tree.open) - 1))
    BY <1>2 DEF Shape, Remembering
  <2>2. Mode = tree.original
    BY <1>2 DEF Mode
  <2>3. PICK f : f = SubSeq(tree.open, 1, Len(tree.open) - 1)
    OBVIOUS
  <2>4. PICK e : e = tree.open[Len(tree.open)]
    OBVIOUS
  <2>5. f \in Seq(Elements) /\ e \in Elements /\ tree.open = Append(f, e)
    BY <1>1, <2>1, <2>3, <2>4
  <2>6. HtmlFirst(f) /\ (tree.original \in Leveled => Level(Holders(tree.original), f))
    BY <2>1, <2>3 DEF Standing, Rootless
  <2>7. e.name \notin Framed /\ e.name # "html"
    BY <2>1, <2>4 DEF Framed
  <2>8. HtmlFirst(tree.open)
    BY <2>5, <2>6, <2>7, HtmlPushed
  <2>9. tree.original \in Leveled => Level(Holders(tree.original), tree.open)
    BY <2>5, <2>6, <2>7, LevelPushed
  <2> QED BY <1>1, <2>2, <2>8, <2>9
<1>3. CASE tree.mode = "in_table_text"
  <2>1. tree.original \notin Rootless /\ Standing(tree.original, tree.open)
    BY <1>3 DEF Shape, Remembering
  <2>2. Mode = tree.original
    BY <1>3 DEF Mode
  <2> QED BY <1>1, <2>1, <2>2 DEF Standing, Rootless
<1>4. CASE tree.mode \notin {"text", "in_table_text"}
  <2>1. Standing(tree.mode, tree.open)
    BY <1>4 DEF Shape, Remembering
  <2>2. Mode = tree.mode
    BY <1>4 DEF Mode
  <2> QED BY <1>1, <2>1, <2>2 DEF Standing, Rootless
<1> QED BY <1>2, <1>3, <1>4

\* In the right shape the html and body elements are where the rules look for them,
LEMMA ShapedRooted == Sane(tree) /\ Shape(tree) => Rooted
<1>1. SUFFICES ASSUME Sane(tree), Shape(tree), Running,
                      tree.mode \notin {"initial", "before_html"}
               PROVE  /\ tree.open # <<>> /\ tree.open[1].name = "html"
                      /\ \A i \in 2 .. Len(tree.open) : tree.open[i].name # "html"
                      /\ Mode \in Leveled => Len(tree.open) >= 2 /\ tree.open[2].name = "body"
  BY DEF Rooted, Leveled
<1>2. /\ tree.open \in Seq(Elements) /\ HtmlFirst(tree.open)
      /\ Mode \in Leveled => Level(Holders(Mode), tree.open)
  BY <1>1, FrameOfMode DEF Running, Rootless
<1>3. tree.open # <<>>
  BY <1>2 DEF HtmlFirst
<1> QED BY <1>2, <1>3 DEF HtmlFirst, Level, Tower

\* the mode is that of the last element of the frame,
LEMMA ShapedModeAgrees == Sane(tree) /\ Shape(tree) => ModeAgrees
<1>1. PICK i : i = LastNamed(tree, Resetting)
  OBVIOUS
<1>2. SUFFICES ASSUME Sane(tree), Shape(tree), Running,
                      Mode \in {"in_body", "in_table", "in_caption", "in_column_group",
                                "in_table_body", "in_row", "in_cell", "in_select"}
               PROVE  i > 0 /\ ResetMode(tree.open[i].name) = Mode
  BY <1>1 DEF ModeAgrees
<1>3. Mode \in Leveled
  BY <1>2 DEF Leveled
<1>4. tree.open \in Seq(Elements) /\ Level(Holders(Mode), tree.open)
  BY <1>2, <1>3, FrameOfMode DEF Running
<1>5. PICK names : names = Holders(Mode)
  OBVIOUS
<1>6. i \in 2 .. Len(tree.open) /\ tree.open[i].name \in Holders(Mode)
  BY <1>1, <1>4, <1>5, LastFramed
<1>7. PICK name : name = tree.open[i].name
  OBVIOUS
<1>8. PICK m : m = Mode
  OBVIOUS
<1>9. name \in Holders(m) => ResetMode(name) = m
  BY <1>2, <1>8 DEF Holders, ResetMode, Sections, Cells
<1> QED BY <1>6, <1>7, <1>8, <1>9

\* and in a cell one cell is in table scope.
LEMMA ShapedCellNote == Sane(tree) /\ Shape(tree) => CellNote
<1>1. SUFFICES ASSUME Sane(tree), Shape(tree), Running, Mode = "in_cell"
               PROVE  Cardinality({name \in Cells :
                          has_element_in_table_scope(tree, {name})}) = 1
  BY DEF CellNote
<1>2. "in_cell" \in Leveled /\ Holders("in_cell") = Cells
  BY TableParents
<1>3. tree.open \in Seq(Elements) /\ Level(Cells, tree.open)
  BY <1>1, <1>2, FrameOfMode DEF Running
<1>4. PICK top : top = LastNamed(tree, Cells)
  OBVIOUS
<1>5. /\ "td" \in Cells /\ tree.open[top].name \in Cells
      /\ \A name \in Cells :
             has_element_in_table_scope(tree, {name}) <=> tree.open[top].name = name
  <2>1. "td" \in Cells
    BY DEF Cells
  <2>2. ASSUME NEW name \in Cells
        PROVE  /\ tree.open[top].name \in Cells
               /\ has_element_in_table_scope(tree, {name}) <=> tree.open[top].name = name
    BY <1>3, <1>4, CellScope
  <2> QED BY <2>1, <2>2
<1>6. {name \in Cells : has_element_in_table_scope(tree, {name})} = {tree.open[top].name}
  BY <1>5
<1> QED BY <1>6, FS_Singleton

\* The shape is kept from one token to the next.
THEOREM TreeShaped == Spec => []Shaped
BY InitShaped, NextShaped, TreeSafety, PTL DEF Spec

\* The html element is opened first, once, and stays open, and the body is the second in the
\* modes of the body, in every document, until a start tag pops astray.
THEOREM TreeRooted == Spec => []Rooted
<1>1. EofStops /\ tree.ended => Rooted
  BY DEF EofStops, Rooted, Running
<1>2. IInv /\ EofStops /\ Shaped => Rooted
  BY <1>1, ShapedRooted DEF IInv, Shaped
<1> QED BY <1>2, TreeShaped, TreeSafety, TreeStops, PTL

\* The mode is the one that resetting would choose by looking at the stack, whichever handler
\* has switched to it, until a start tag pops astray.
THEOREM TreeModes == Spec => []ModeAgrees
<1>1. EofStops /\ tree.ended => ModeAgrees
  BY DEF EofStops, ModeAgrees, Running
<1>2. IInv /\ EofStops /\ Shaped => ModeAgrees
  BY <1>1, ShapedModeAgrees DEF IInv, Shaped
<1> QED BY <1>2, TreeShaped, TreeSafety, TreeStops, PTL

\* "The stack of open elements cannot have both a td and a th element in table scope at the
\* same time, nor can it have neither when the close the cell algorithm is invoked"
\* (src/Html.TreeConstruction.cpp:414), until a start tag pops astray.
THEOREM TreeCells == Spec => []CellNote
<1>1. EofStops /\ tree.ended => CellNote
  BY DEF EofStops, CellNote, Running
<1>2. IInv /\ EofStops /\ Shaped => CellNote
  BY <1>1, ShapedCellNote DEF IInv, Shaped
<1> QED BY <1>2, TreeShaped, TreeSafety, TreeStops, PTL

\* Up to and at the end of any file, a handler only fails in one of the known ways: by the
\* bookmark of the adoption agency, by a start tag of dd, dt, or a self-closing math or svg, that
\* pops what it has not looked at, or when the dispatches fill the thread's stack.
THEOREM TreeSound == Spec => [](tree.failure # "overflow" => KnownFailures)
<1>1. Shaped => (tree.failure # "overflow" => KnownFailures)
  BY DEF Shaped, Shape, Sound, Lawful, KnownFailures
<1> QED BY <1>1, TreeShaped, PTL

===============================================================================
