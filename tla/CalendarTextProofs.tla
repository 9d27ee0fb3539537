--------------------------- MODULE CalendarTextProofs --------------------------
(***************************************************************************)
(* CalendarText: what is stored can be read again from the text that is    *)
(* stored with it, a save of the page keeps what it was not asked to       *)
(* change, and an imported share is held in its own weeks, for any files,  *)
(* shares, numbers of courses and saves.  A list is selected from and      *)
(* joined along its length: OnlyHas, OnlyOfConcat and FlattenHas say what  *)
(* comes out.  Sorting is a permutation whose result is sorted (SortIs)    *)
(* and leaves alone what is sorted (SortedStays).  The events of a share   *)
(* are its courses' lectures (ShareEventIs, WeeksAre).  What a component   *)
(* holds is known line by line (ComponentHas), so that reading it gives an *)
(* event of the same meaning (RereadIs), and reading a text gives the      *)
(* events it was written from, in their order (SerializedRead).            *)
(***************************************************************************)
EXTENDS CalendarText, CourseDaysProofs

--------------------------------------------------------------------------------
(* Lists: joined, and selected from.                                       *)
LEMMA ConcatIs ==
  ASSUME NEW V, NEW a \in Seq(V), NEW b \in Seq(V)
  PROVE  /\ a \o b \in Seq(V) /\ Len(a \o b) = Len(a) + Len(b)
         /\ \A i \in 1..Len(a) : (a \o b)[i] = a[i]
         /\ \A i \in 1..Len(b) : (a \o b)[Len(a) + i] = b[i]
OBVIOUS

LEMMA SameList ==
  ASSUME NEW V, NEW a \in Seq(V), NEW b \in Seq(V), Len(a) = Len(b),
         \A i \in 1..Len(a) : a[i] = b[i]
  PROVE  a = b
OBVIOUS

LEMMA AppendIs ==
  ASSUME NEW V, NEW a \in Seq(V), NEW x \in V
  PROVE  /\ Append(a, x) \in Seq(V) /\ Len(Append(a, x)) = Len(a) + 1
         /\ \A i \in 1..Len(a) : Append(a, x)[i] = a[i]
         /\ Append(a, x)[Len(a) + 1] = x
OBVIOUS

LEMMA ConcatEmpty ==
  ASSUME NEW V, NEW a \in Seq(V)
  PROVE  a \o <<>> = a /\ <<>> \o a = a
OBVIOUS

LEMMA ConcatAppend ==
  ASSUME NEW V, NEW a \in Seq(V), NEW b \in Seq(V), NEW x \in V
  PROVE  a \o Append(b, x) = Append(a \o b, x)
OBVIOUS

LEMMA ConcatThree ==
  ASSUME NEW V, NEW a \in Seq(V), NEW b \in Seq(V), NEW c \in Seq(V)
  PROVE  (a \o b) \o c = a \o (b \o c)
OBVIOUS

LEMMA ToSetIs ==
  ASSUME NEW V, NEW a \in Seq(V)
  PROVE  /\ \A i \in 1..Len(a) : a[i] \in ToSet(a)
         /\ \A x \in ToSet(a) : \E i \in 1..Len(a) : a[i] = x
         /\ ToSet(a) \subseteq V
         /\ ToSet(a) = {} <=> a = <<>>
<1>1. DOMAIN a = 1..Len(a) /\ Len(a) \in Nat /\ \A i \in 1..Len(a) : a[i] \in V
  OBVIOUS
<1>2. \A i \in 1..Len(a) : a[i] \in ToSet(a)
  BY <1>1 DEF ToSet
<1>3. \A x \in ToSet(a) : \E i \in 1..Len(a) : a[i] = x
  BY <1>1 DEF ToSet
<1>4. ToSet(a) \subseteq V
  BY <1>1, <1>3
<1>5. ASSUME ToSet(a) = {} PROVE a = <<>>
  <2>1. Len(a) = 0
    BY <1>1, <1>2, <1>5
  <2> QED
    BY <2>1
<1>6. ASSUME a = <<>> PROVE ToSet(a) = {}
  <2>1. Len(a) = 0
    BY <1>6
  <2> QED
    BY <1>1, <1>3, <2>1
<1> QED
  BY <1>2, <1>3, <1>4, <1>5, <1>6

LEMMA ToSetConcat ==
  ASSUME NEW V, NEW a \in Seq(V), NEW b \in Seq(V)
  PROVE  ToSet(a \o b) = ToSet(a) \cup ToSet(b)
<1> DEFINE c == a \o b
<1>1. /\ c \in Seq(V) /\ Len(c) = Len(a) + Len(b)
      /\ \A i \in 1..Len(a) : c[i] = a[i]
      /\ \A i \in 1..Len(b) : c[Len(a) + i] = b[i]
      /\ Len(a) \in Nat /\ Len(b) \in Nat
  BY ConcatIs
<1> HIDE DEF c
<1>2. ASSUME NEW x \in ToSet(c) PROVE x \in ToSet(a) \cup ToSet(b)
  <2>1. PICK i \in 1..Len(c) : c[i] = x
    BY <1>1, <1>2, ToSetIs
  <2>2. CASE i <= Len(a)
    <3>1. i \in 1..Len(a)
      BY <1>1, <2>1, <2>2
    <3> QED
      BY <1>1, <2>1, <3>1, ToSetIs
  <2>3. CASE i > Len(a)
    <3>1. i - Len(a) \in 1..Len(b) /\ Len(a) + (i - Len(a)) = i
      BY <1>1, <2>1, <2>3
    <3>2. x = b[i - Len(a)]
      BY <1>1, <2>1, <3>1
    <3> QED
      BY <3>1, <3>2, ToSetIs
  <2> QED
    BY <1>1, <2>1, <2>2, <2>3
<1>3. ASSUME NEW x \in ToSet(a) PROVE x \in ToSet(c)
  <2>1. PICK i \in 1..Len(a) : a[i] = x
    BY <1>3, ToSetIs
  <2>2. i \in 1..Len(c) /\ c[i] = x
    BY <1>1, <2>1
  <2> QED
    BY <1>1, <2>2, ToSetIs
<1>4. ASSUME NEW x \in ToSet(b) PROVE x \in ToSet(c)
  <2>1. PICK i \in 1..Len(b) : b[i] = x
    BY <1>4, ToSetIs
  <2>2. Len(a) + i \in 1..Len(c) /\ c[Len(a) + i] = x
    BY <1>1, <2>1
  <2> QED
    BY <1>1, <2>2, ToSetIs
<1> QED
  BY <1>2, <1>3, <1>4 DEF c

LEMMA OneIs ==
  ASSUME NEW V, NEW x \in V
  PROVE  <<x>> \in Seq(V) /\ Len(<<x>>) = 1 /\ <<x>>[1] = x /\ ToSet(<<x>>) = {x}
<1> DEFINE a == <<x>>
<1>1. a \in Seq(V) /\ Len(a) = 1 /\ a[1] = x
  OBVIOUS
<1> HIDE DEF a
<1>2. x \in ToSet(a) /\ \A y \in ToSet(a) : y = x
  <2>1. 1 \in 1..Len(a) /\ \A i \in 1..Len(a) : a[i] = x
    BY <1>1
  <2> QED
    BY <1>1, <2>1, ToSetIs
<1>3. ToSet(a) = {x}
  BY <1>2
<1> QED
  BY <1>1, <1>3 DEF a

LEMMA ToSetAppend ==
  ASSUME NEW V, NEW a \in Seq(V), NEW x \in V
  PROVE  ToSet(Append(a, x)) = ToSet(a) \cup {x}
<1> DEFINE one == <<x>>
<1>1. Append(a, x) = a \o one
  OBVIOUS
<1>2. one \in Seq(V) /\ ToSet(one) = {x}
  BY OneIs
<1> HIDE DEF one
<1>3. ToSet(a \o one) = ToSet(a) \cup {x}
  BY <1>2, ToSetConcat
<1> QED
  BY <1>1, <1>3, Zenon

LEMMA InListOf ==
  ASSUME NEW V, NEW a \in Seq(V), NEW W, ToSet(a) \subseteq W
  PROVE  a \in Seq(W)
<1>1. \A i \in 1..Len(a) : a[i] \in W
  BY ToSetIs
<1> QED
  BY <1>1

Keeping(kept, list, some, V) ==
  /\ kept \in [0..Len(list) -> Seq(V)] /\ kept[0] = <<>> /\ kept[Len(list)] = Only(list, some)
  /\ \A i \in 1..Len(list) :
       kept[i] = IF list[i] \in some THEN Append(kept[i - 1], list[i]) ELSE kept[i - 1]
LEMMA OnlyIs ==
  ASSUME NEW V, NEW list \in Seq(V), NEW some
  PROVE  \E kept : Keeping(kept, list, some, V)
<1> DEFINE n == Len(list)
           Is(g) == g = [i \in 0..n |->
                           IF i = 0 THEN <<>>
                           ELSE IF list[i] \in some THEN Append(g[i - 1], list[i]) ELSE g[i - 1]]
           step == [x \in Seq(V) \X (1..n) |->
                      IF list[x[2]] \in some THEN Append(x[1], list[x[2]]) ELSE x[1]]
           f == CHOOSE g : Is(g)
<1>1. step \in [Seq(V) \X (1..n) -> Seq(V)]
  <2>1. ASSUME NEW x \in Seq(V) \X (1..n)
        PROVE  (IF list[x[2]] \in some THEN Append(x[1], list[x[2]]) ELSE x[1]) \in Seq(V)
    <3>1. x[1] \in Seq(V) /\ list[x[2]] \in V
      OBVIOUS
    <3> QED
      BY <3>1, AppendIs
  <2> QED
    BY <2>1
<1>2. n \in Nat /\ <<>> \in Seq(V)
  OBVIOUS
<1>3. PICK g : Runs(g, n, Seq(V), <<>>, step)
  <2> HIDE DEF step, n
  <2> QED
    BY <1>1, <1>2, Computed
<1>4. \A i \in 1..n : g[i] = IF list[i] \in some THEN Append(g[i - 1], list[i]) ELSE g[i - 1]
  <2> SUFFICES ASSUME NEW i \in 1..n
               PROVE  g[i] = IF list[i] \in some THEN Append(g[i - 1], list[i]) ELSE g[i - 1]
    OBVIOUS
  <2>1. i - 1 \in 0..n
    BY <1>2
  <2>2. <<g[i - 1], i>> \in Seq(V) \X (1..n)
    <3> HIDE DEF n
    <3> QED
      BY <1>3, <2>1 DEF Runs
  <2>3. g[i] = step[<<g[i - 1], i>>]
    BY <1>3 DEF Runs
  <2> QED
    BY <2>2, <2>3
<1>5. Is(g)
  <2> HIDE DEF n
  <2>1. \A i \in 0..n : i = 0 \/ i \in 1..n
    BY <1>2
  <2>2. DOMAIN g = 0..n /\ g = [i \in DOMAIN g |-> g[i]] /\ g[0] = <<>>
    BY <1>3 DEF Runs
  <2> QED
    BY <1>2, <1>4, <2>1, <2>2
<1>6. Is(f)
  <2> HIDE DEF Is
  <2> QED
    BY <1>5
<1>7. Only(list, some) = f[n]
  BY DEF Only
<1> HIDE DEF f, n
<1>8. \A i \in 1..n : f[i] = IF list[i] \in some THEN Append(f[i - 1], list[i]) ELSE f[i - 1]
  <2> SUFFICES ASSUME NEW i \in 1..n
               PROVE  f[i] = IF list[i] \in some THEN Append(f[i - 1], list[i]) ELSE f[i - 1]
    OBVIOUS
  <2>1. i \in 0..n /\ i # 0
    BY <1>2
  <2> QED
    BY <1>6, <2>1
<1>9. f[0] = <<>> /\ DOMAIN f = 0..n
  BY <1>2, <1>6
<1>10. \A i \in 0..n : f[i] \in Seq(V)
  <2> DEFINE S == {i \in 0..n : f[i] \in Seq(V)}
  <2>1. 0 \in S
    BY <1>2, <1>9
  <2>2. ASSUME NEW i \in 1..n, i - 1 \in S PROVE i \in S
    <3>1. list[i] \in V /\ f[i - 1] \in Seq(V) /\ i \in 0..n
      BY <2>2 DEF n
    <3>2. Append(f[i - 1], list[i]) \in Seq(V)
      BY <3>1, AppendIs
    <3>3. f[i] \in Seq(V)
      BY <1>8, <3>1, <3>2
    <3> QED
      BY <3>1, <3>3
  <2> HIDE DEF S
  <2>3. \A i \in 0..n : i \in S
    BY <1>2, <2>1, <2>2, AlongIt
  <2> QED
    BY <2>3 DEF S
<1>11. f \in [0..n -> Seq(V)]
  BY <1>6, <1>9, <1>10
<1>12. Keeping(f, list, some, V)
  BY <1>7, <1>8, <1>9, <1>11 DEF Keeping, n
<1> QED
  BY <1>12

LEMMA OnlyHas ==
  ASSUME NEW V, NEW list \in Seq(V), NEW some
  PROVE  Only(list, some) \in Seq(V) /\ ToSet(Only(list, some)) = ToSet(list) \cap some
<1> DEFINE n == Len(list)
           In(i) == {list[j] : j \in 1..i}
<1>1. PICK kept : Keeping(kept, list, some, V)
  BY OnlyIs
<1>2. n \in Nat
  OBVIOUS
<1>3. \A i \in 0..n : ToSet(kept[i]) = In(i) \cap some
  <2> DEFINE S == {i \in 0..n : ToSet(kept[i]) = In(i) \cap some}
  <2>1. 0 \in S
    <3>1. kept[0] \in Seq(V) /\ kept[0] = <<>>
      BY <1>1, <1>2 DEF Keeping
    <3>2. ToSet(kept[0]) = {}
      BY <3>1, ToSetIs
    <3> QED
      BY <1>2, <3>2
  <2>2. ASSUME NEW i \in 1..n, i - 1 \in S PROVE i \in S
    <3>1. /\ i - 1 \in 0..n /\ i \in 0..n /\ list[i] \in V
          /\ kept[i] = IF list[i] \in some THEN Append(kept[i - 1], list[i]) ELSE kept[i - 1]
          /\ ToSet(kept[i - 1]) = In(i - 1) \cap some
      BY <1>1, <2>2 DEF Keeping
    <3>2. kept[i - 1] \in Seq(V)
      BY <1>1, <3>1 DEF Keeping
    <3>3. In(i) = In(i - 1) \cup {list[i]}
      <4>1. 1..i = 1..(i - 1) \cup {i}
        BY <1>2
      <4> QED
        BY <4>1
    <3> HIDE DEF In
    <3>4. CASE list[i] \in some
      <4>1. ToSet(Append(kept[i - 1], list[i])) = ToSet(kept[i - 1]) \cup {list[i]}
        BY <3>1, <3>2, ToSetAppend
      <4>2. kept[i] = Append(kept[i - 1], list[i])
        BY <3>1, <3>4
      <4>3. ToSet(kept[i]) = ToSet(kept[i - 1]) \cup {list[i]}
        BY <4>1, <4>2, Zenon
      <4> QED
        BY <3>1, <3>3, <3>4, <4>3
    <3>5. CASE list[i] \notin some
      BY <3>1, <3>3, <3>5
    <3> QED
      BY <3>4, <3>5
  <2> HIDE DEF S
  <2>3. \A i \in 0..n : i \in S
    BY <1>2, <2>1, <2>2, AlongIt
  <2> QED
    BY <2>3 DEF S
<1>4. In(n) = ToSet(list)
  BY DEF ToSet
<1>5. n \in 0..n /\ kept[n] = Only(list, some) /\ kept[n] \in Seq(V)
  BY <1>1, <1>2 DEF Keeping
<1> HIDE DEF In, n
<1> QED
  BY <1>3, <1>4, <1>5

LEMMA OnlyNone ==
  ASSUME NEW V, NEW list \in Seq(V), NEW some, ToSet(list) \cap some = {}
  PROVE  Only(list, some) = <<>>
  BY OnlyHas, ToSetIs

LEMMA OnlyAll ==
  ASSUME NEW V, NEW list \in Seq(V), NEW some, ToSet(list) \subseteq some
  PROVE  Only(list, some) = list
<1> DEFINE n == Len(list)
<1>1. PICK kept : Keeping(kept, list, some, V)
  BY OnlyIs
<1>2. n \in Nat /\ \A i \in 1..n : list[i] \in V /\ list[i] \in some
  BY ToSetIs
<1> DEFINE S == {i \in 0..n : Len(kept[i]) = i /\ \A j \in 1..i : kept[i][j] = list[j]}
<1>3. 0 \in S
  BY <1>1, <1>2 DEF Keeping
<1>4. ASSUME NEW i \in 1..n, i - 1 \in S PROVE i \in S
  <2>1. /\ i - 1 \in 0..n /\ i \in 0..n /\ Len(kept[i - 1]) = i - 1
        /\ \A j \in 1..(i - 1) : kept[i - 1][j] = list[j]
    BY <1>4
  <2>2. kept[i - 1] \in Seq(V)
    BY <1>1, <2>1 DEF Keeping
  <2>3. kept[i] = Append(kept[i - 1], list[i])
    BY <1>1, <1>2 DEF Keeping
  <2> DEFINE last == kept[i - 1]
  <2>4. /\ last \in Seq(V) /\ Len(last) = i - 1 /\ (i - 1) + 1 = i
        /\ kept[i] = Append(last, list[i]) /\ list[i] \in V
    BY <1>2, <2>1, <2>2, <2>3
  <2> HIDE DEF last
  <2>5. /\ Len(kept[i]) = i /\ kept[i][i] = list[i]
        /\ \A j \in 1..(i - 1) : kept[i][j] = last[j]
    BY <2>4, AppendIs
  <2>6. \A j \in 1..(i - 1) : kept[i][j] = list[j]
    BY <2>1, <2>5 DEF last
  <2>7. \A j \in 1..i : j = i \/ j \in 1..(i - 1)
    OBVIOUS
  <2> QED
    BY <2>1, <2>5, <2>6, <2>7
<1>5. n \in S
  <2>1. n \in 0..n
    BY <1>2
  <2> HIDE DEF S, n
  <2> QED
    BY <1>2, <1>3, <1>4, <2>1, AlongIt
<1>6. kept[n] \in Seq(V) /\ kept[n] = Only(list, some)
  BY <1>1, <1>2 DEF Keeping
<1> QED
  BY <1>5, <1>6, SameList

LEMMA OnlyAgrees ==
  ASSUME NEW V, NEW list \in Seq(V), NEW some, NEW other,
         ToSet(list) \cap some = ToSet(list) \cap other
  PROVE  Only(list, some) = Only(list, other)
<1> DEFINE n == Len(list)
<1>1. PICK f : Keeping(f, list, some, V)
  BY OnlyIs
<1>2. PICK g : Keeping(g, list, other, V)
  BY OnlyIs
<1>3. n \in Nat /\ \A i \in 1..n : list[i] \in some <=> list[i] \in other
  BY ToSetIs
<1> DEFINE S == {i \in 0..n : f[i] = g[i]}
<1>4. 0 \in S
  BY <1>1, <1>2, <1>3 DEF Keeping
<1>5. ASSUME NEW i \in 1..n, i - 1 \in S PROVE i \in S
  BY <1>1, <1>2, <1>3, <1>5 DEF Keeping
<1>6. n \in S
  <2>1. n \in 0..n
    BY <1>3
  <2> HIDE DEF S, n
  <2> QED
    BY <1>3, <1>4, <1>5, <2>1, AlongIt
<1> QED
  BY <1>1, <1>2, <1>6 DEF Keeping

LEMMA OnlyOfAppend ==
  ASSUME NEW V, NEW list \in Seq(V), NEW x \in V, NEW some
  PROVE  /\ x \in some => Only(Append(list, x), some) = Append(Only(list, some), x)
         /\ x \notin some => Only(Append(list, x), some) = Only(list, some)
<1> DEFINE n == Len(list)
           more == Append(list, x)
<1>1. /\ more \in Seq(V) /\ Len(more) = n + 1 /\ more[n + 1] = x /\ n \in Nat
      /\ \A i \in 1..n : more[i] = list[i]
  BY AppendIs
<1> HIDE DEF more
<1>2. PICK f : Keeping(f, list, some, V)
  BY OnlyIs
<1>3. PICK g : Keeping(g, more, some, V)
  BY <1>1, OnlyIs
<1> DEFINE S == {i \in 0..n : f[i] = g[i]}
<1>4. 0 \in S
  BY <1>1, <1>2, <1>3 DEF Keeping
<1>5. ASSUME NEW i \in 1..n, i - 1 \in S PROVE i \in S
  <2>1. i \in 1..Len(more) /\ more[i] = list[i] /\ i \in 0..n
    BY <1>1
  <2> QED
    BY <1>2, <1>3, <1>5, <2>1 DEF Keeping
<1>6. n \in S
  <2>1. n \in 0..n
    BY <1>1
  <2> HIDE DEF S, n
  <2> QED
    BY <1>1, <1>4, <1>5, <2>1, AlongIt
<1>7. f[n] = g[n] /\ f[n] = Only(list, some)
  BY <1>2, <1>6 DEF Keeping
<1>8. g[n + 1] = Only(more, some) /\ n + 1 \in 1..Len(more) /\ (n + 1) - 1 = n
  BY <1>1, <1>3 DEF Keeping
<1>9. g[n + 1] = IF x \in some THEN Append(g[n], x) ELSE g[n]
  <2> HIDE DEF n
  <2> QED
    BY <1>1, <1>3, <1>8 DEF Keeping
<1> QED
  BY <1>7, <1>8, <1>9 DEF more

LEMMA OnlyOfConcat ==
  ASSUME NEW V, NEW a \in Seq(V), NEW b \in Seq(V), NEW some
  PROVE  Only(a \o b, some) = Only(a, some) \o Only(b, some)
<1> DEFINE n == Len(b)
           first == Only(a, some)
           part(i) == SubSeq(b, 1, i)
<1>1. n \in Nat /\ first \in Seq(V)
  BY OnlyHas
<1>2. \A i \in 0..n : part(i) \in Seq(V)
  OBVIOUS
<1>3. ASSUME NEW i \in 1..n
      PROVE  b[i] \in V /\ part(i) = Append(part(i - 1), b[i]) /\ i - 1 \in 0..n /\ i \in 0..n
  <2>1. b[i] \in V /\ i - 1 \in 0..n /\ i \in 0..n
    OBVIOUS
  <2>2. part(i) = Append(part(i - 1), b[i])
    OBVIOUS
  <2> QED
    BY <2>1, <2>2
<1>4. part(0) = <<>> /\ part(n) = b
  OBVIOUS
<1> HIDE DEF part, n
<1> DEFINE S == {i \in 0..n : Only(a \o part(i), some) = first \o Only(part(i), some)}
<1>5. 0 \in S
  <2>1. a \o part(0) = a
    BY <1>4
  <2>2. Only(part(0), some) = <<>>
    BY <1>1, <1>2, <1>4, OnlyNone, ToSetIs
  <2>3. first \o Only(part(0), some) = first
    BY <1>1, <2>2
  <2>4. Only(a \o part(0), some) = first \o Only(part(0), some)
    BY <2>1, <2>3, Zenon DEF first
  <2>5. 0 \in 0..n
    BY <1>1
  <2> QED
    BY <2>4, <2>5, Zenon
<1>6. ASSUME NEW i \in 1..n, i - 1 \in S PROVE i \in S
  <2> DEFINE p == part(i - 1)
             ap == a \o p
             kp == Only(p, some)
  <2>1. p \in Seq(V) /\ b[i] \in V /\ i \in 0..n /\ part(i) = Append(p, b[i])
    BY <1>2, <1>3
  <2>2. Only(ap, some) = first \o kp
    BY <1>6
  <2> HIDE DEF p
  <2>3. ap \in Seq(V) /\ kp \in Seq(V)
    BY <2>1, ConcatIs, OnlyHas
  <2>4. a \o part(i) = Append(ap, b[i])
    BY <2>1, ConcatAppend
  <2>5. first \o Append(kp, b[i]) = Append(first \o kp, b[i])
    BY <1>1, <2>1, <2>3, ConcatAppend
  <2> HIDE DEF ap, kp, first
  <2>6. Append(p, b[i]) = part(i)
    BY <2>1
  <2>7. ASSUME b[i] \in some PROVE Only(a \o part(i), some) = first \o Only(part(i), some)
    <3>1. Only(Append(ap, b[i]), some) = Append(Only(ap, some), b[i])
      BY <2>1, <2>3, <2>7, OnlyOfAppend
    <3>2. Only(Append(p, b[i]), some) = Append(kp, b[i])
      BY <2>1, <2>7, OnlyOfAppend DEF kp
    <3> QED
      BY <2>2, <2>4, <2>5, <2>6, <3>1, <3>2, Zenon
  <2>8. ASSUME b[i] \notin some PROVE Only(a \o part(i), some) = first \o Only(part(i), some)
    <3>1. Only(Append(ap, b[i]), some) = Only(ap, some)
      BY <2>1, <2>3, <2>8, OnlyOfAppend
    <3>2. Only(Append(p, b[i]), some) = kp
      BY <2>1, <2>8, OnlyOfAppend DEF kp
    <3> QED
      BY <2>2, <2>4, <2>6, <3>1, <3>2, Zenon
  <2>9. Only(a \o part(i), some) = first \o Only(part(i), some)
    BY <2>7, <2>8, Zenon
  <2> QED
    BY <2>1, <2>9, Zenon
<1>7. n \in S
  <2>1. n \in 0..n /\ n \in Nat
    BY <1>1
  <2> HIDE DEF S, first
  <2>2. \A i \in 1..n : i - 1 \in S => i \in S
    BY <1>6, Zenon
  <2>3. \A i \in 0..n : i \in S
    BY <1>5, <2>1, <2>2, AlongIt
  <2> QED
    BY <2>1, <2>3
<1>8. Only(a \o part(n), some) = first \o Only(part(n), some)
  BY <1>7, Zenon
<1> QED
  BY <1>4, <1>8, Zenon DEF first

--------------------------------------------------------------------------------
(* FlattenSeq.                                                             *)
Flattening(flat, lists, V) ==
  /\ flat \in [0..Len(lists) -> Seq(V)] /\ flat[0] = <<>> /\ flat[Len(lists)] = FlattenSeq(lists)
  /\ \A i \in 1..Len(lists) : flat[i] = flat[i - 1] \o lists[i]
LEMMA FlattenIs ==
  ASSUME NEW V, NEW lists \in Seq(Seq(V))
  PROVE  \E flat : Flattening(flat, lists, V)
<1> DEFINE n == Len(lists)
           Is(g) == g = [i \in 1..n |-> IF i = 1 THEN lists[i] ELSE g[i - 1] \o lists[i]]
           step == [x \in Seq(V) \X (1..n) |-> x[1] \o lists[x[2]]]
           f == CHOOSE g : Is(g)
<1>1. step \in [Seq(V) \X (1..n) -> Seq(V)]
  <2>1. ASSUME NEW x \in Seq(V) \X (1..n) PROVE x[1] \o lists[x[2]] \in Seq(V)
    <3>1. x[1] \in Seq(V) /\ lists[x[2]] \in Seq(V)
      OBVIOUS
    <3> QED
      BY <3>1, ConcatIs
  <2> QED
    BY <2>1
<1>2. n \in Nat /\ <<>> \in Seq(V) /\ \A i \in 1..n : lists[i] \in Seq(V)
  OBVIOUS
<1>3. PICK g : Runs(g, n, Seq(V), <<>>, step)
  <2> HIDE DEF step, n
  <2> QED
    BY <1>1, <1>2, Computed
<1>4. \A i \in 1..n : g[i] = g[i - 1] \o lists[i]
  <2> SUFFICES ASSUME NEW i \in 1..n PROVE g[i] = g[i - 1] \o lists[i]
    OBVIOUS
  <2>1. i - 1 \in 0..n
    BY <1>2
  <2>2. <<g[i - 1], i>> \in Seq(V) \X (1..n)
    <3> HIDE DEF n
    <3> QED
      BY <1>3, <2>1 DEF Runs
  <2>3. g[i] = step[<<g[i - 1], i>>]
    BY <1>3 DEF Runs
  <2> QED
    BY <2>2, <2>3
<1> DEFINE h == [i \in 1..n |-> g[i]]
<1>5. Is(h)
  <2>1. ASSUME NEW i \in 1..n
        PROVE  h[i] = IF i = 1 THEN lists[i] ELSE h[i - 1] \o lists[i]
    <3>1. CASE i = 1
      <4>0. 1 \in 1..n /\ 1 - 1 = 0
        BY <1>2, <2>1, <3>1
      <4>1. g[0] = <<>> /\ g[1] = g[0] \o lists[1] /\ lists[1] \in Seq(V) /\ h[1] = g[1]
        <5>1. g[0] = <<>>
          BY <1>3 DEF Runs
        <5>2. g[1] = g[1 - 1] \o lists[1] /\ lists[1] \in Seq(V)
          BY <1>2, <1>4, <4>0, Zenon
        <5>3. h[1] = g[1]
          BY <4>0
        <5> QED
          BY <4>0, <5>1, <5>2, <5>3, Zenon
      <4>2. <<>> \o lists[1] = lists[1]
        BY <4>1, ConcatEmpty
      <4> HIDE DEF h
      <4>3. h[1] = lists[1]
        BY <4>1, <4>2, Zenon
      <4> QED
        BY <3>1, <4>3
    <3>2. CASE i # 1
      <4>1. i - 1 \in 1..n
        BY <1>2, <3>2
      <4>2. h[i] = g[i] /\ h[i - 1] = g[i - 1]
        BY <4>1
      <4> HIDE DEF h
      <4> QED
        BY <1>4, <3>2, <4>2
    <3> QED
      BY <3>1, <3>2
  <2>2. DOMAIN h = 1..n /\ h = [i \in DOMAIN h |-> h[i]]
    OBVIOUS
  <2> HIDE DEF h, n
  <2> QED
    BY <2>1, <2>2
<1>6. Is(f)
  <2> HIDE DEF Is
  <2> QED
    BY <1>5
<1>7. n # 0 => FlattenSeq(lists) = f[n]
  BY DEF FlattenSeq
<1>8. n = 0 => FlattenSeq(lists) = <<>>
  <2>1. ASSUME n = 0 PROVE FlattenSeq(lists) = lists
    BY <2>1 DEF FlattenSeq
  <2>2. n = 0 => lists = <<>>
    OBVIOUS
  <2> QED
    BY <2>1, <2>2
<1> HIDE DEF f, n
<1> DEFINE flat == [i \in 0..n |-> IF i = 0 THEN <<>> ELSE f[i]]
<1>9. \A i \in 1..n : flat[i] = f[i]
  BY <1>2
<1>10. 0 \in 0..n /\ flat[0] = <<>>
  BY <1>2
<1>11. DOMAIN flat = 0..n /\ flat = [i \in 0..n |-> flat[i]]
  BY <1>2
<1> HIDE DEF flat
<1>12. ASSUME NEW i \in 1..n PROVE flat[i] = flat[i - 1] \o lists[i]
  <2>1. CASE i = 1
    <3>1. f[1] = lists[1] /\ lists[1] \in Seq(V) /\ flat[1] = f[1]
      BY <1>2, <1>6, <1>9, <2>1
    <3>2. <<>> \o lists[1] = lists[1]
      BY <3>1, ConcatEmpty
    <3>3. flat[1] = flat[0] \o lists[1]
      BY <1>10, <3>1, <3>2, Zenon
    <3>4. i - 1 = 0
      BY <2>1
    <3> QED
      BY <2>1, <3>3, <3>4, Zenon
  <2>2. CASE i # 1
    <3>1. i - 1 \in 1..n /\ flat[i - 1] = f[i - 1] /\ flat[i] = f[i]
      BY <1>2, <1>9, <2>2
    <3>2. f[i] = f[i - 1] \o lists[i]
      BY <1>6, <2>2
    <3> QED
      BY <3>1, <3>2, Zenon
  <2> QED
    BY <2>1, <2>2
<1>13. flat[n] = FlattenSeq(lists)
  <2>1. n = 0 \/ n \in 1..n
    BY <1>2
  <2> QED
    BY <1>7, <1>8, <1>9, <1>10, <2>1
<1>14. \A i \in 0..n : flat[i] \in Seq(V)
  <2> DEFINE S == {i \in 0..n : flat[i] \in Seq(V)}
  <2>1. 0 \in S
    BY <1>2, <1>10, Zenon
  <2>2. ASSUME NEW i \in 1..n, i - 1 \in S PROVE i \in S
    <3>1. i \in 0..n /\ flat[i - 1] \in Seq(V) /\ lists[i] \in Seq(V)
      BY <1>2, <2>2
    <3>2. flat[i - 1] \o lists[i] \in Seq(V)
      BY <3>1, ConcatIs
    <3> QED
      BY <1>12, <3>1, <3>2
  <2> HIDE DEF S
  <2>3. \A i \in 0..n : i \in S
    BY <1>2, <2>1, <2>2, AlongIt
  <2> QED
    BY <2>3 DEF S
<1>15. flat \in [0..n -> Seq(V)]
  BY <1>11, <1>14
<1> QED
  BY <1>10, <1>12, <1>13, <1>15 DEF Flattening, n

LEMMA FlattenHas ==
  ASSUME NEW V, NEW lists \in Seq(Seq(V))
  PROVE  /\ FlattenSeq(lists) \in Seq(V)
         /\ ToSet(FlattenSeq(lists)) = UNION {ToSet(lists[i]) : i \in 1..Len(lists)}
<1> DEFINE n == Len(lists)
           In(i) == UNION {ToSet(lists[j]) : j \in 1..i}
<1>1. PICK flat : Flattening(flat, lists, V)
  BY FlattenIs
<1>2. n \in Nat /\ \A i \in 1..n : lists[i] \in Seq(V)
  OBVIOUS
<1>3. /\ \A i \in 0..n : flat[i] \in Seq(V)
      /\ flat[0] = <<>> /\ flat[n] = FlattenSeq(lists)
      /\ \A i \in 1..n : flat[i] = flat[i - 1] \o lists[i]
  BY <1>1 DEF Flattening
<1> HIDE DEF n
<1> DEFINE S == {i \in 0..n : ToSet(flat[i]) = In(i)}
<1>4. 0 \in S
  <2>1. ToSet(flat[0]) = {}
    BY <1>2, <1>3, ToSetIs
  <2>2. In(0) = {}
    OBVIOUS
  <2> QED
    BY <1>2, <2>1, <2>2
<1>5. ASSUME NEW i \in 1..n, i - 1 \in S PROVE i \in S
  <2>1. i \in 0..n /\ i - 1 \in 0..n /\ ToSet(flat[i - 1]) = In(i - 1)
    BY <1>2, <1>5
  <2>2. ToSet(flat[i - 1] \o lists[i]) = ToSet(flat[i - 1]) \cup ToSet(lists[i])
    BY <1>2, <1>3, <2>1, ToSetConcat
  <2>3. In(i) = In(i - 1) \cup ToSet(lists[i])
    <3>1. 1..i = 1..(i - 1) \cup {i}
      BY <1>2
    <3> QED
      BY <3>1
  <2>4. flat[i] = flat[i - 1] \o lists[i]
    BY <1>3
  <2> HIDE DEF In
  <2>5. ToSet(flat[i]) = In(i)
    BY <2>1, <2>2, <2>3, <2>4, Zenon
  <2> QED
    BY <2>1, <2>5
<1>6. n \in S
  <2>1. n \in 0..n
    BY <1>2
  <2> HIDE DEF S
  <2> QED
    BY <1>2, <1>4, <1>5, <2>1, AlongIt
<1>7. n \in 0..n
  BY <1>2
<1> HIDE DEF In
<1>8. FlattenSeq(lists) \in Seq(V) /\ ToSet(FlattenSeq(lists)) = In(n)
  BY <1>3, <1>6, <1>7
<1> QED
  BY <1>8 DEF In, n

--------------------------------------------------------------------------------
(* Sorting.                                                                *)
(* A list of events that can be sorted.                                    *)
AreRows(es, n) == DOMAIN es = 1..n /\ \A i \in 1..n : Meaning(es[i]) \in Events
AreSorted(es, n) == \A i, j \in 1..n : i < j => ~Precedes(es[j], es[i])

LEMMA PrecedesIs ==
  ASSUME NEW n \in Nat, NEW es, AreRows(es, n)
  PROVE  \A i, j \in 1..n :
           Precedes(es[i], es[j]) <=>
             IF Meaning(es[i]).start # NoTime /\ Meaning(es[j]).start # NoTime
             THEN \/ Meaning(es[i]).start < Meaning(es[j]).start
                  \/ /\ Meaning(es[i]).start = Meaning(es[j]).start
                     /\ Length(Meaning(es[i])) < Length(Meaning(es[j]))
             ELSE Meaning(es[i]).start # NoTime /\ Meaning(es[j]).start = NoTime
  BY DEF Precedes

LEMMA OneWay ==
  ASSUME NEW S, NEW less, Orders(less, S), NEW x \in S, NEW y \in S, <<x, y>> \in less
  PROVE  x # y /\ <<y, x>> \notin less
  BY Zenon DEF Orders

(* A start and a length, compared as Precedes compares them.               *)
Leads(a, k, b, l) ==
  a # NoTime /\ (b = NoTime \/ a < b \/ (a = b /\ k < l))
LEMMA LeadsFirst ==
  ASSUME NEW a \in Int, NEW b \in Int, NEW c \in Int, NEW k \in Int, NEW l \in Int, NEW m \in Int
  PROVE  /\ ~Leads(a, k, a, k)
         /\ Leads(a, k, b, l) => ~Leads(b, l, a, k)
         /\ Leads(a, k, b, l) /\ Leads(b, l, c, m) => Leads(a, k, c, m)
         /\ Leads(a, k, b, l) /\ ~Leads(c, m, b, l) => Leads(a, k, c, m)
         /\ ~Leads(b, l, a, k) /\ Leads(b, l, c, m) => Leads(a, k, c, m)
         /\ ~Leads(b, l, a, k) /\ ~Leads(c, m, b, l) => ~Leads(c, m, a, k)
<1>3. ~Leads(a, k, a, k) /\ (Leads(a, k, b, l) => ~Leads(b, l, a, k))
  BY DEF Leads, NoTime
<1>4. Leads(a, k, b, l) /\ Leads(b, l, c, m) => Leads(a, k, c, m)
  BY DEF Leads, NoTime
<1>5. Leads(a, k, b, l) /\ ~Leads(c, m, b, l) => Leads(a, k, c, m)
  BY DEF Leads, NoTime
<1>6. ~Leads(b, l, a, k) /\ Leads(b, l, c, m) => Leads(a, k, c, m)
  BY DEF Leads, NoTime
<1>7. ~Leads(b, l, a, k) /\ ~Leads(c, m, b, l) => ~Leads(c, m, a, k)
  BY DEF Leads, NoTime
<1> QED
  BY <1>3, <1>4, <1>5, <1>6, <1>7

LEMMA PlacesOrder ==
  ASSUME NEW n \in Nat, NEW es, AreRows(es, n)
  PROVE  /\ Orders(Places(es), 1..n)
         /\ \A i, j \in 1..n : <<i, j>> \in Places(es) <=>
              Precedes(es[i], es[j]) \/ (~Precedes(es[j], es[i]) /\ i < j)
<1> DEFINE at == [i \in 1..n |-> Meaning(es[i]).start]
           long == [i \in 1..n |-> Length(Meaning(es[i]))]
           P(i, j) == Leads(at[i], long[i], at[j], long[j])
<1>1. \A i \in 1..n : Meaning(es[i]).start \in Instants /\ Length(Meaning(es[i])) \in Nat
  BY LengthIs DEF AreRows, Events
<1>2. \A i \in 1..n : at[i] \in Int /\ long[i] \in Int
  BY <1>1 DEF Instants, NoTime
<1>3. \A i, j \in 1..n : Precedes(es[i], es[j]) <=> P(i, j)
  BY PrecedesIs DEF Leads
<1>4. \A i, j \in 1..n : <<i, j>> \in Places(es) <=>
        Precedes(es[i], es[j]) \/ (~Precedes(es[j], es[i]) /\ i < j)
  BY DEF Places, AreRows
<1> HIDE DEF at, long
<1>5. \A x, y, z \in 1..n : /\ ~P(x, x)
                            /\ P(x, y) => ~P(y, x)
                            /\ P(x, y) /\ P(y, z) => P(x, z)
                            /\ P(x, y) /\ ~P(z, y) => P(x, z)
                            /\ ~P(y, x) /\ P(y, z) => P(x, z)
                            /\ ~P(y, x) /\ ~P(z, y) => ~P(z, x)
  <2> SUFFICES ASSUME NEW x \in 1..n, NEW y \in 1..n, NEW z \in 1..n
               PROVE  /\ ~P(x, x)
                      /\ P(x, y) => ~P(y, x)
                      /\ P(x, y) /\ P(y, z) => P(x, z)
                      /\ P(x, y) /\ ~P(z, y) => P(x, z)
                      /\ ~P(y, x) /\ P(y, z) => P(x, z)
                      /\ ~P(y, x) /\ ~P(z, y) => ~P(z, x)
    OBVIOUS
  <2>1. /\ at[x] \in Int /\ at[y] \in Int /\ at[z] \in Int
        /\ long[x] \in Int /\ long[y] \in Int /\ long[z] \in Int
    BY <1>2
  <2> QED
    BY <2>1, LeadsFirst
<1> HIDE DEF P
<1>6. \A i, j \in 1..n : <<i, j>> \in Places(es) <=> P(i, j) \/ (~P(j, i) /\ i < j)
  BY <1>3, <1>4
<1>7. \A x \in 1..n : <<x, x>> \notin Places(es)
  BY <1>5, <1>6
<1>8. ASSUME NEW x \in 1..n, NEW y \in 1..n, x # y
      PROVE  <<x, y>> \in Places(es) \/ <<y, x>> \in Places(es)
  <2>1. x < y \/ y < x
    BY <1>8
  <2>2. P(x, y) => ~P(y, x)
    BY <1>5
  <2> QED
    BY <1>6, <2>1, <2>2
<1>9. \A x, y, z \in 1..n : <<x, y>> \in Places(es) /\ <<y, z>> \in Places(es) => <<x, z>> \in Places(es)
  <2> SUFFICES ASSUME NEW x \in 1..n, NEW y \in 1..n, NEW z \in 1..n,
                      <<x, y>> \in Places(es), <<y, z>> \in Places(es)
               PROVE  <<x, z>> \in Places(es)
    OBVIOUS
  <2>1. (P(x, y) \/ (~P(y, x) /\ x < y)) /\ (P(y, z) \/ (~P(z, y) /\ y < z))
    BY <1>6
  <2>2. x < y /\ y < z => x < z
    OBVIOUS
  <2>3. /\ P(x, z) => ~P(z, x)
        /\ P(x, y) /\ P(y, z) => P(x, z)
        /\ P(x, y) /\ ~P(z, y) => P(x, z)
        /\ ~P(y, x) /\ P(y, z) => P(x, z)
        /\ ~P(y, x) /\ ~P(z, y) => ~P(z, x)
    BY <1>5
  <2>4. P(x, z) \/ (~P(z, x) /\ x < z)
    BY <2>1, <2>2, <2>3
  <2> QED
    BY <1>6, <2>4
<1> QED
  BY <1>4, <1>7, <1>8, <1>9 DEF Orders

LEMMA CardinalityTo ==
  ASSUME NEW n \in Nat
  PROVE  IsFiniteSet(1..n) /\ Cardinality(1..n) = n
  BY FS_Interval

Sorting(order, es, n) ==
  /\ order \in [1..n -> 1..n]
  /\ SortEvents(es) = [i \in 1..n |-> es[order[i]]]
  /\ \A j \in 1..n : \E i \in 1..n : order[i] = j
  /\ AreSorted(SortEvents(es), n)
LEMMA SortIs ==
  ASSUME NEW n \in Nat, NEW es, AreRows(es, n)
  PROVE  \E order : Sorting(order, es, n)
<1> DEFINE order == InOrder(1..n, Places(es))
<1>1. Orders(Places(es), 1..n) /\ \A i, j \in 1..n : <<i, j>> \in Places(es) <=>
                                    Precedes(es[i], es[j]) \/ (~Precedes(es[j], es[i]) /\ i < j)
  BY PlacesOrder
<1>2. IsListOf(order, Places(es), 1..n)
  BY <1>1, CardinalityTo, InOrderIs
<1>3. SortEvents(es) = [i \in 1..n |-> es[order[i]]]
  BY DEF SortEvents, AreRows
<1> HIDE DEF order
<1>4. order \in Seq(1..n) /\ Len(order) = n
  BY <1>2, CardinalityTo DEF IsListOf
<1>5. order \in [1..n -> 1..n]
  BY <1>4
<1>6. \A j \in 1..n : \E i \in 1..n : order[i] = j
  BY <1>2, <1>4 DEF IsListOf
<1>7. ASSUME NEW i \in 1..n, NEW j \in 1..n, i < j PROVE ~Precedes(es[order[j]], es[order[i]])
  <2>1. <<order[i], order[j]>> \in Places(es) /\ order[i] \in 1..n /\ order[j] \in 1..n
    BY <1>2, <1>4, <1>5, <1>7 DEF IsListOf
  <2>2. ~(<<order[j], order[i]>> \in Places(es)) /\ order[i] # order[j]
    BY <1>1, <2>1, OneWay
  <2> DEFINE p == order[i]
             q == order[j]
  <2> HIDE DEF p, q
  <2>3. p \in 1..n /\ q \in 1..n /\ ~(<<q, p>> \in Places(es))
    BY <2>1, <2>2 DEF p, q
  <2>4. ~Precedes(es[q], es[p])
    BY <1>1, <2>3
  <2> QED
    BY <2>4 DEF p, q
<1>8. AreSorted(SortEvents(es), n)
  BY <1>3, <1>7 DEF AreSorted
<1>9. Sorting(order, es, n)
  BY <1>3, <1>5, <1>6, <1>8 DEF Sorting
<1> QED
  BY <1>9

(* What is sorted stays as it is.                                          *)
LEMMA SortedStays ==
  ASSUME NEW n \in Nat, NEW es, AreRows(es, n), es = [i \in 1..n |-> es[i]], AreSorted(es, n)
  PROVE  SortEvents(es) = es
<1> DEFINE order == InOrder(1..n, Places(es))
<1>1. Orders(Places(es), 1..n) /\ \A i, j \in 1..n : <<i, j>> \in Places(es) <=>
                                    Precedes(es[i], es[j]) \/ (~Precedes(es[j], es[i]) /\ i < j)
  BY PlacesOrder
<1>2. \A i, j \in 1..n : i < j => <<i, j>> \in Places(es)
  BY <1>1 DEF AreSorted
<1>3. \A i, j \in 1..n : <<i, j>> \in Places(es) <=> i < j
  <2> SUFFICES ASSUME NEW i \in 1..n, NEW j \in 1..n, <<i, j>> \in Places(es), ~(i < j) PROVE FALSE
    BY <1>2
  <2>1. i = j \/ <<j, i>> \in Places(es)
    BY <1>2
  <2> QED
    BY <1>1, <2>1, Zenon DEF Orders
<1>4. \A x \in 1..n : Cardinality({y \in 1..n : <<y, x>> \in Places(es)}) = x - 1
  <2> SUFFICES ASSUME NEW x \in 1..n
               PROVE  Cardinality({y \in 1..n : <<y, x>> \in Places(es)}) = x - 1
    OBVIOUS
  <2>1. {y \in 1..n : <<y, x>> \in Places(es)} = 1..(x - 1)
    BY <1>3
  <2>2. x - 1 \in Nat
    OBVIOUS
  <2> QED
    BY <2>1, <2>2, CardinalityTo
<1>5. \A i \in 1..n : order[i] = i
  <2> SUFFICES ASSUME NEW i \in 1..n PROVE order[i] = i
    OBVIOUS
  <2>1. order[i] = CHOOSE x \in 1..n : Cardinality({y \in 1..n : <<y, x>> \in Places(es)}) = i - 1
    BY CardinalityTo DEF InOrder
  <2>2. \A x \in 1..n : Cardinality({y \in 1..n : <<y, x>> \in Places(es)}) = i - 1 <=> x = i
    BY <1>4
  <2> QED
    BY <2>1, <2>2
<1>6. SortEvents(es) = [i \in 1..n |-> es[order[i]]]
  BY DEF SortEvents, AreRows
<1> HIDE DEF order
<1> QED
  BY <1>5, <1>6

--------------------------------------------------------------------------------
(* Least and greatest numbers, and days.                                   *)
LEMMA LeastOf ==
  ASSUME NEW S, S \subseteq Nat, S # {}
  PROVE  \E x \in S : \A y \in S : x <= y
<1> DEFINE R == {ss \in Nat \X Nat : ss[1] < ss[2]}
<1>1. IsWellFoundedOn(R, Nat)
  BY NatLessThanWellFounded DEF OpToRel
<1>2. PICK x \in S : \A y \in S : ~(<<y, x>> \in R)
  <2> HIDE DEF R
  <2> QED
    BY <1>1, WFMin
<1>3. ASSUME NEW y \in S PROVE x <= y
  <2>1. x \in Nat /\ y \in Nat
    OBVIOUS
  <2>2. ~(y < x)
    BY <1>2, <2>1
  <2> QED
    BY <2>1, <2>2
<1> QED
  BY <1>3

LEMMA MinIs ==
  ASSUME NEW S, S \subseteq Nat, S # {}
  PROVE  Min(S) \in S /\ \A y \in S : Min(S) <= y
  BY LeastOf DEF Min

LEMMA GreatestOf ==
  ASSUME NEW S, S \subseteq Int, S # {}, NEW n \in Int, \A x \in S : x <= n
  PROVE  \E x \in S : \A y \in S : x >= y
<1> DEFINE T == {n - x : x \in S}
<1>1. T \subseteq Nat /\ T # {}
  <2>1. \A x \in S : n - x \in Nat
    OBVIOUS
  <2>2. T \subseteq Nat
    BY <2>1
  <2>3. PICK x \in S : TRUE
    OBVIOUS
  <2>4. n - x \in T
    BY <2>3
  <2> QED
    BY <2>2, <2>4
<1>2. \E m \in T : \A y \in T : m <= y
  <2> HIDE DEF T
  <2> QED
    BY <1>1, LeastOf
<1>3. PICK x \in S : \A y \in T : n - x <= y
  <2>1. PICK m \in T : \A y \in T : m <= y
    BY <1>2
  <2>2. \E x \in S : m = n - x
    BY <2>1, Zenon
  <2> HIDE DEF T
  <2> QED
    BY <2>1, <2>2
<1>4. ASSUME NEW y \in S PROVE x >= y
  <2>1. n - y \in T
    OBVIOUS
  <2> HIDE DEF T
  <2>2. n - x <= n - y /\ x \in Int /\ y \in Int
    BY <1>3, <2>1
  <2> QED
    BY <2>2
<1> QED
  BY <1>4

LEMMA MaxOfThree ==
  ASSUME NEW a \in Int, NEW b \in Int, NEW c \in Int
  PROVE  /\ Max({a, b, c}) \in {a, b, c}
         /\ Max({a, b, c}) >= a /\ Max({a, b, c}) >= b /\ Max({a, b, c}) >= c
<1>1. \E x \in {a, b, c} : \A y \in {a, b, c} : x >= y
  OBVIOUS
<1>2. Max({a, b, c}) \in {a, b, c} /\ \A y \in {a, b, c} : Max({a, b, c}) >= y
  BY <1>1 DEF Max
<1> QED
  BY <1>2

LEMMA DaysSum ==
  ASSUME NEW a \in Int, NEW b \in Int
  PROVE  DayStart(a + b) = DayStart(a) + b * Slots /\ DayStart(a) \in Int /\ b * Slots \in Int
  BY SlotsAssumption DEF DayStart

--------------------------------------------------------------------------------
(* The table, the nodes and the weeks of a course of a share.              *)
LEMMA TableIs ==
  ASSUME NEW s, IsShare(s), NEW c
  PROVE  TableOf(s, c).first \in Instants /\ TableOf(s, c).max \in Int
<1> DEFINE n == Len(s.tables)
<1>1. n \in Nat /\ n # 0 /\ DOMAIN s.tables = 1..n
  BY DEF IsShare, IsList
<1>2. \A i \in 1..n : s.tables[i].first \in Instants /\ s.tables[i].max \in Int
  BY <1>1 DEF IsShare
<1>3. TablesOf(s, c) \subseteq 1..n
  BY <1>1 DEF TablesOf
<1> HIDE DEF n
<1>4. CASE TablesOf(s, c) = {}
  BY <1>1, <1>2, <1>4 DEF TableOf
<1>5. CASE TablesOf(s, c) # {}
  <2>1. \E x \in TablesOf(s, c) : \A y \in TablesOf(s, c) : x >= y
    <3>1. TablesOf(s, c) \subseteq Int /\ n \in Int /\ \A x \in TablesOf(s, c) : x <= n
      BY <1>1, <1>3
    <3> QED
      BY <1>5, <3>1, GreatestOf
  <2>2. Max(TablesOf(s, c)) \in TablesOf(s, c)
    BY <2>1 DEF Max
  <2>3. TableOf(s, c) = s.tables[Max(TablesOf(s, c))]
    BY <1>5 DEF TableOf
  <2>4. Max(TablesOf(s, c)) \in 1..n
    BY <1>3, <2>2
  <2> QED
    BY <1>2, <2>3, <2>4, Zenon
<1> QED
  BY <1>4, <1>5

IsCourse(c) ==
  /\ {c.node, c.step, c.from, c.to} \subseteq Int /\ c.type \in {"all", "odd", "even"}
  /\ c.own \in BOOLEAN /\ {c.begins, c.ends} \subseteq Instants

LEMMA NodeIs ==
  ASSUME NEW s, IsShare(s), NEW c, NEW k \in CoveredNodes(s, c)
  PROVE  NodeAt(s, c, k).begins \in Instants /\ NodeAt(s, c, k).ends \in Instants
<1> DEFINE n == Len(s.nodes)
           of == {i \in NodesOf(s, c) : s.nodes[i].node = k}
<1>1. n \in Nat /\ DOMAIN s.nodes = 1..n
  BY DEF IsShare, IsList
<1>2. \A i \in 1..n : s.nodes[i].begins \in Instants /\ s.nodes[i].ends \in Instants
  BY <1>1 DEF IsShare
<1>3. NodesOf(s, c) \subseteq 1..n
  BY <1>1 DEF NodesOf
<1>4. of \subseteq 1..n /\ of # {}
  BY <1>3 DEF CoveredNodes
<1>5. NodeAt(s, c, k) = s.nodes[Max(of)]
  BY DEF NodeAt
<1> HIDE DEF of, n
<1>6. \E x \in of : \A y \in of : x >= y
  <2>1. of \subseteq Int /\ n \in Int /\ \A x \in of : x <= n
    BY <1>1, <1>4
  <2> QED
    BY <1>4, <2>1, GreatestOf
<1>7. Max(of) \in of
  BY <1>6 DEF Max
<1> QED
  BY <1>2, <1>4, <1>5, <1>7

LEMMA ClocksAre ==
  ASSUME NEW s, IsShare(s), NEW c, IsCourse(c), HasTimes(s, c)
  PROVE  Begins(s, c) \in Nat /\ Ends(s, c) \in Nat
<1> DEFINE S == CoveredNodes(s, c)
<1>1. Begins(s, c) \in Instants /\ Ends(s, c) \in Instants
  <2>1. CASE c.own
    BY <2>1 DEF Begins, Ends, IsCourse
  <2>2. CASE ~c.own
    <3>1. c.node \in S
      BY <2>2 DEF HasTimes
    <3>2. c.node \in Int /\ c.step \in Int /\ MaxNodes \in Int
      BY BoundsAssumption DEF IsCourse
    <3>3. Steps(c) \in Int
      <4>1. Max({c.step, 1}) \in Int
        BY <3>2, MaxOfTwo
      <4> QED
        BY <3>2, <4>1, MinOfTwo DEF Steps
    <3>4. S \subseteq Int /\ \A x \in S : x <= c.node + Steps(c)
      BY <3>2, <3>3 DEF CoveredNodes
    <3>5. c.node + Steps(c) \in Int
      BY <3>2, <3>3
    <3> HIDE DEF S
    <3>6. \E x \in S : \A y \in S : x >= y
      BY <3>1, <3>4, <3>5, GreatestOf
    <3>7. Max(S) \in S
      BY <3>6 DEF Max
    <3> QED
      BY <2>2, <3>1, <3>7, NodeIs DEF Begins, Ends, S
  <2> QED
    BY <2>1, <2>2
<1>2. Begins(s, c) # NoTime /\ Ends(s, c) # NoTime
  BY DEF HasTimes
<1> QED
  BY <1>1, <1>2 DEF Instants

Every(c) == IF c.type = "all" THEN 1 ELSE 2
LEMMA WeeksAre ==
  ASSUME NEW s, IsShare(s), NEW c, IsCourse(c)
  PROVE  /\ FirstWeek(c) \in Nat \ {0} /\ LastWeek(s, c) \in Int
         /\ HeldIn(s, c) \subseteq Nat \ {0}
         /\ FirstWeek(c) > LastWeek(s, c) => HeldIn(s, c) = {}
         /\ \A w \in Int : w \in HeldIn(s, c) <=>
              \E k \in 0..((LastWeek(s, c) - FirstWeek(c)) \div Every(c)) : w = FirstWeek(c) + k * Every(c)
<1>1. PICK lo \in Int : lo = Max({c.from, 1}) /\ lo >= 1
  <2>1. c.from \in Int
    BY DEF IsCourse
  <2> QED
    BY <2>1, MaxOfTwo
<1>2. PICK hi \in Int : hi = Max({c.to, c.from, 1}) /\ hi >= lo
  <2>1. c.from \in Int /\ c.to \in Int
    BY DEF IsCourse
  <2>2. lo = c.from \/ lo = 1
    BY <1>1, <2>1, MaxOfTwo
  <2>3. PICK hi : hi = Max({c.to, c.from, 1})
    OBVIOUS
  <2>4. hi \in Int /\ hi >= c.from /\ hi >= 1
    <3> DEFINE x == c.to
               y == c.from
    <3>1. x \in Int /\ y \in Int
      BY <2>1
    <3> HIDE DEF x, y
    <3>2. Max({x, y, 1}) \in {x, y, 1} /\ Max({x, y, 1}) >= y /\ Max({x, y, 1}) >= 1
      BY <3>1, MaxOfThree
    <3> QED
      BY <2>3, <3>1, <3>2 DEF x, y
  <2> QED
    BY <2>2, <2>3, <2>4
<1>3. PICK max \in Int : max = TableOf(s, c).max
  BY TableIs
<1>4. PICK f \in Int : f = FirstWeek(c)
  BY <1>1 DEF FirstWeek
<1>5. PICK l \in Int : l = LastWeek(s, c)
  BY <1>2, <1>3, MinOfTwo DEF LastWeek
<1>6. l = IF max > 0 /\ max < hi THEN max ELSE hi
  BY <1>2, <1>3, <1>5, MinOfTwo DEF LastWeek
<1>7. \A w \in Int : w \in HeldIn(s, c) <=>
        lo <= w /\ w <= l /\ (c.type = "odd" => w % 2 = 1) /\ (c.type = "even" => w % 2 = 0)
  BY <1>1, <1>2, <1>3, <1>6 DEF HeldIn
<1>8. HeldIn(s, c) \subseteq Int
  BY <1>1, <1>2 DEF HeldIn
<1>9. f = IF (c.type = "odd" /\ lo % 2 = 0) \/ (c.type = "even" /\ lo % 2 = 1) THEN lo + 1 ELSE lo
  BY <1>1, <1>4 DEF FirstWeek
<1>10. \A w \in Int : w \in HeldIn(s, c) <=>
         \E k \in 0..((l - f) \div Every(c)) : w = f + k * Every(c)
  <2> SUFFICES ASSUME NEW w \in Int
               PROVE  w \in HeldIn(s, c) <=> \E k \in 0..((l - f) \div Every(c)) : w = f + k * Every(c)
    OBVIOUS
  <2>1. CASE c.type = "all"
    <3>1. f = lo /\ Every(c) = 1 /\ (l - f) \div 1 = l - f
      BY <1>9, <2>1 DEF Every
    <3>2. w \in HeldIn(s, c) <=> f <= w /\ w <= l
      BY <1>7, <2>1, <3>1
    <3>3. (\E k \in 0..(l - f) : w = f + k * 1) <=> f <= w /\ w <= l
      <4>1. ASSUME f <= w, w <= l PROVE \E k \in 0..(l - f) : w = f + k * 1
        <5>1. w - f \in 0..(l - f) /\ w = f + (w - f) * 1
          BY <4>1
        <5> QED
          BY <5>1
      <4> QED
        BY <4>1
    <3> QED
      BY <3>1, <3>2, <3>3
  <2>2. CASE c.type # "all"
    <3>1. PICK r \in {0, 1} : r = IF c.type = "odd" THEN 1 ELSE 0
      OBVIOUS
    <3>2. Every(c) = 2
      BY <2>2 DEF Every
    <3>3. w \in HeldIn(s, c) <=> lo <= w /\ w <= l /\ w % 2 = r
      BY <1>7, <2>2, <3>1 DEF IsCourse
    <3>4. f = IF lo % 2 = r THEN lo ELSE lo + 1
      BY <1>9, <2>2, <3>1 DEF IsCourse
    <3>5. f % 2 = r /\ f >= lo /\ (w >= lo /\ w % 2 = r => w >= f)
      BY <3>4
    <3>6. ASSUME lo <= w, w <= l, w % 2 = r PROVE \E k \in 0..((l - f) \div 2) : w = f + k * 2
      <4>1. (w - f) \div 2 \in 0..((l - f) \div 2) /\ w = f + ((w - f) \div 2) * 2
        BY <3>5, <3>6
      <4> QED
        BY <4>1
    <3>7. ASSUME NEW k \in 0..((l - f) \div 2), w = f + k * 2 PROVE lo <= w /\ w <= l /\ w % 2 = r
      BY <3>5, <3>7
    <3> QED
      BY <3>2, <3>3, <3>6, <3>7
  <2> QED
    BY <2>1, <2>2
<1>11. f > l => HeldIn(s, c) = {}
  <2> SUFFICES ASSUME f > l, NEW w \in HeldIn(s, c) PROVE FALSE
    OBVIOUS
  <2>1. w \in Int /\ lo <= w /\ w <= l /\ (c.type = "odd" => w % 2 = 1) /\ (c.type = "even" => w % 2 = 0)
    BY <1>7, <1>8
  <2> QED
    BY <1>9, <2>1
<1>12. HeldIn(s, c) \subseteq Nat \ {0} /\ f \in Nat \ {0}
  BY <1>1, <1>7, <1>8, <1>9
<1> QED
  BY <1>4, <1>5, <1>10, <1>11, <1>12

--------------------------------------------------------------------------------
(* The lines of a component, and what an event means.                      *)
LEMMA HavingIs ==
  ASSUME NEW list, IsList(list), NEW p
  PROVE  /\ IsList(Having(list, p)) /\ Having(list, p) \in Seq(ToSet(list))
         /\ ToSet(Having(list, p)) = {l \in ToSet(list) : l.prop = p}
         /\ \A i \in DOMAIN Having(list, p) : Having(list, p)[i] \in ToSet(list)
                                              /\ Having(list, p)[i].prop = p
<1> DEFINE V == ToSet(list)
           some == {l \in V : l.prop = p}
           kept == Only(list, some)
<1>1. list \in Seq(V)
  BY DEF IsList
<1>2. kept = Having(list, p)
  BY DEF Having
<1> HIDE DEF V
<1>3. kept \in Seq(V) /\ ToSet(kept) = ToSet(list) \cap some
  BY <1>1, OnlyHas
<1>4. ToSet(kept) = some
  BY <1>3 DEF V
<1> HIDE DEF some, kept
<1>5. kept \in Seq(ToSet(kept)) /\ DOMAIN kept = 1..Len(kept) /\ \A i \in 1..Len(kept) : kept[i] \in ToSet(kept)
  BY <1>3, ToSetIs, InListOf
<1>6. \A i \in DOMAIN kept : kept[i] \in V /\ kept[i].prop = p
  BY <1>4, <1>5 DEF some
<1> QED
  BY <1>2, <1>3, <1>4, <1>5, <1>6 DEF IsList, some, V

LEMMA LinesAre ==
  ASSUME NEW lines, IsLines(lines)
  PROVE  /\ \A i \in DOMAIN lines : IsList(Inside(lines[i]))
         /\ \A i \in DOMAIN lines : \A l \in ToSet(Inside(lines[i])) : Reads(l)
<1> SUFFICES ASSUME NEW i \in DOMAIN lines
             PROVE  IsList(Inside(lines[i])) /\ \A l \in ToSet(Inside(lines[i])) : Reads(l)
  OBVIOUS
<1>1. Reads(lines[i])
  BY DEF IsLines
<1>2. CASE lines[i].prop = "BEGIN"
  <2> DEFINE n == lines[i].value.lines
  <2>1. IsPlain(n)
    BY <1>2 DEF IsLines
  <2>2. Inside(lines[i]) = n
    BY <1>2 DEF Inside
  <2> HIDE DEF n
  <2>3. IsList(n) /\ \A j \in DOMAIN n : Reads(n[j])
    BY <2>1 DEF IsPlain
  <2>4. \A l \in ToSet(n) : Reads(l)
    BY <2>3 DEF ToSet
  <2> QED
    BY <2>2, <2>3, <2>4
<1>3. CASE lines[i].prop # "BEGIN"
  <2> DEFINE x == lines[i]
             one == <<x>>
  <2>1. Inside(x) = one
    BY <1>3 DEF Inside
  <2>2. one \in Seq({x}) /\ ToSet(one) = {x}
    BY OneIs
  <2> HIDE DEF one
  <2>3. IsList(one)
    BY <2>2 DEF IsList
  <2>4. \A l \in ToSet(one) : Reads(l)
    BY <1>1, <2>2
  <2> QED
    BY <2>1, <2>3, <2>4
<1> QED
  BY <1>2, <1>3

LEMMA AllLinesAre ==
  ASSUME NEW lines, IsLines(lines)
  PROVE  /\ IsList(AllLines(lines))
         /\ \A l \in ToSet(AllLines(lines)) : Reads(l)
         /\ ToSet(AllLines(lines)) = UNION {ToSet(Inside(lines[i])) : i \in DOMAIN lines}
<1> DEFINE n == Len(lines)
           V == UNION {ToSet(Inside(lines[i])) : i \in DOMAIN lines}
           parts == [i \in DOMAIN lines |-> Inside(lines[i])]
<1>1. n \in Nat /\ DOMAIN lines = 1..n
  BY DEF IsLines, IsList
<1>2. \A i \in 1..n : Inside(lines[i]) \in Seq(V)
  <2> SUFFICES ASSUME NEW i \in 1..n PROVE Inside(lines[i]) \in Seq(V)
    OBVIOUS
  <2>1. IsList(Inside(lines[i])) /\ ToSet(Inside(lines[i])) \subseteq V
    BY <1>1, LinesAre
  <2> HIDE DEF V
  <2> QED
    BY <2>1, InListOf DEF IsList
<1>3. parts \in Seq(Seq(V)) /\ Len(parts) = n
  <2> HIDE DEF V, n
  <2> QED
    BY <1>1, <1>2
<1>4. \A i \in 1..n : parts[i] = Inside(lines[i])
  BY <1>1
<1>5. AllLines(lines) = FlattenSeq(parts)
  BY DEF AllLines
<1> HIDE DEF parts, V
<1>6. FlattenSeq(parts) \in Seq(V) /\ ToSet(FlattenSeq(parts)) = UNION {ToSet(parts[i]) : i \in 1..n}
  BY <1>3, FlattenHas
<1>7. UNION {ToSet(parts[i]) : i \in 1..n} = V
  BY <1>1, <1>4 DEF V
<1>8. IsList(AllLines(lines)) /\ ToSet(AllLines(lines)) = V
  BY <1>5, <1>6, <1>7 DEF IsList
<1>9. \A l \in V : Reads(l)
  BY LinesAre DEF V
<1> QED
  BY <1>8, <1>9 DEF V

IsEvent(e) ==
  e.start \in Values /\ e.end \in Values /\ e.rule \in Recurrences /\ IsLines(e.raw)

LEMMA MeaningIs ==
  ASSUME NEW e, IsEvent(e)
  PROVE  Meaning(e) \in Events
<1> DEFINE all == AllLines(e.raw)
<1>1. IsList(all) /\ \A l \in ToSet(all) : Reads(l)
  BY AllLinesAre DEF IsEvent
<1> HIDE DEF all
<1>2. ASSUME NEW p \in {"EXDATE", "RDATE"} PROVE Dates(e, p) \in SUBSET Nat
  <2>1. \A l \in ToSet(Having(all, p)) : l \in ToSet(all) /\ l.prop = p
    BY <1>1, HavingIs
  <2>2. \A l \in ToSet(Having(all, p)) : l.value \in SUBSET Nat
    BY <1>1, <2>1 DEF Reads
  <2> QED
    BY <2>2 DEF Dates, all
<1>3. FirstDuration(e) \in Instants
  <2> DEFINE given == Having(all, "DURATION")
  <2>1. FirstDuration(e) = IF given = <<>> THEN NoTime ELSE given[1].value
    BY DEF FirstDuration, all
  <2>2. /\ IsList(given)
        /\ \A i \in DOMAIN given : given[i] \in ToSet(all) /\ given[i].prop = "DURATION"
    BY <1>1, HavingIs
  <2> HIDE DEF given
  <2>3. given # <<>> => 1 \in DOMAIN given
    BY <2>2 DEF IsList
  <2>4. given # <<>> => given[1].value \in Instants
    BY <1>1, <2>2, <2>3 DEF Reads
  <2> QED
    BY <2>1, <2>4 DEF Instants
<1>4. e.start.at \in Instants /\ e.end.at \in Instants /\ (e.start.form = "date") \in BOOLEAN
  BY DEF IsEvent, Values
<1>5. e.rule.every \in Instants /\ e.rule.count \in Nat
  BY DEF IsEvent, Recurrences
<1>6. Dates(e, "EXDATE") \in SUBSET Nat /\ Dates(e, "RDATE") \in SUBSET Nat
  BY <1>2
<1> QED
  BY <1>3, <1>4, <1>5, <1>6 DEF Meaning, Events

LEMMA NothingMeans ==
  ASSUME NEW e, e.raw = <<>>
  PROVE  /\ IsLines(<<>>) /\ AllLines(<<>>) = <<>>
         /\ Dates(e, "EXDATE") = {} /\ Dates(e, "RDATE") = {} /\ FirstDuration(e) = NoTime
<1> DEFINE no == <<>>
<1>1. no \in Seq({}) /\ ToSet(no) = {} /\ Len(no) = 0 /\ DOMAIN no = {}
  BY DEF ToSet
<1>2. IsLines(no)
  BY <1>1 DEF IsLines, IsList
<1> HIDE DEF no
<1>3. ToSet(AllLines(no)) = {} /\ IsList(AllLines(no))
  BY <1>1, <1>2, AllLinesAre
<1>4. AllLines(no) = no
  BY <1>3, ToSetIs DEF IsList, no
<1>5. ASSUME NEW p PROVE ToSet(Having(no, p)) = {} /\ Having(no, p) = no
  <2>1. ToSet(Having(no, p)) = {} /\ Having(no, p) \in Seq({})
    BY <1>1, HavingIs DEF IsList
  <2> QED
    BY <2>1, ToSetIs DEF no
<1>6. e.raw = no
  BY DEF no
<1>7. Dates(e, "EXDATE") = {} /\ Dates(e, "RDATE") = {}
  BY <1>4, <1>5, <1>6 DEF Dates
<1>8. FirstDuration(e) = NoTime
  BY <1>4, <1>5, <1>6 DEF FirstDuration, no
<1> QED
  BY <1>2, <1>4, <1>7, <1>8 DEF no

--------------------------------------------------------------------------------
(* A course of a share.                                                    *)
Held(e) ==
  {[start |-> t, length |-> Length(Meaning(e))] : t \in Times(Meaning(e))}

LEMMA LocalIs == ASSUME NEW t \in Instants PROVE Local(t) \in Values
  BY DEF Local, Values

LEMMA ShareEventIs ==
  ASSUME NEW s, IsShare(s), NEW c, IsCourse(c), Usable(s, c)
  PROVE  IsEvent(ShareEvent(s, c)) /\ Held(ShareEvent(s, c)) = Lectures(s, c)
<1> DEFINE e == ShareEvent(s, c)
           f == FirstWeek(c)
           l == LastWeek(s, c)
           by == Every(c)
           table == TableOf(s, c)
           begins == Begins(s, c)
           ends == Ends(s, c)
           weeks == (l - f) \div by
           d(w) == DayStart(table.first + (w - 1) * Week + c.day - 1)
           m == Meaning(e)
<1>1. f \in Nat \ {0} /\ l \in Int /\ f <= l /\ by \in {1, 2}
  BY WeeksAre DEF Usable, Every
<1>2. table.first \in Nat /\ c.day \in 1..7
  BY TableIs DEF Usable, Dated, Instants, Week
<1>3. begins \in Nat /\ ends \in Nat
  BY ClocksAre DEF Usable
<1>4. weeks \in Nat
  BY <1>1
<1>5. /\ e.start = Local(d(f) + begins) /\ e.end = Local(d(f) + ends)
      /\ e.rule = [every |-> by * Week, count |-> weeks + 1] /\ e.raw = <<>>
  BY DEF ShareEvent, Every
<1>6. ASSUME NEW w \in Nat \ {0}
      PROVE  d(w) \in Nat
  <2> DEFINE x == table.first + (w - 1) * Week + c.day - 1
  <2>1. x \in Nat
    BY <1>2, <1>6 DEF Week
  <2> HIDE DEF x
  <2>2. DayStart(x) \in Nat
    BY <2>1, NextDay
  <2> QED
    BY <2>2 DEF x
<1> HIDE DEF table, begins, ends, f, l, by, e, weeks
<1>7. d(f) \in Nat
  BY <1>1, <1>6
<1>8. ASSUME NEW k \in Nat
      PROVE  d(f + k * by) = d(f) + k * (by * Week) * Slots
  <2> DEFINE x == table.first + (f - 1) * Week + c.day - 1
             y == k * (by * Week)
  <2>1. x \in Int /\ y \in Int
    BY <1>1, <1>2 DEF Week
  <2>2. table.first + ((f + k * by) - 1) * Week + c.day - 1 = x + y
    BY <1>1, <1>2 DEF Week
  <2> HIDE DEF x, y
  <2>3. DayStart(x + y) = DayStart(x) + y * Slots
    BY <2>1, DaysSum
  <2> QED
    BY <2>2, <2>3 DEF x, y
<1> DEFINE at == d(f)
<1>9. /\ m.start = at + begins /\ m.end = at + ends /\ m.whole = FALSE
      /\ m.every = by * Week /\ m.count = weeks + 1
      /\ m.raw.except = {} /\ m.raw.extra = {} /\ m.raw.lasts = NoTime
  <2>1. e.start.at = at + begins /\ e.start.form = "local" /\ e.end.at = at + ends
    BY <1>5 DEF Local
  <2>2. e.rule.every = by * Week /\ e.rule.count = weeks + 1
    BY <1>5
  <2>3. Dates(e, "EXDATE") = {} /\ Dates(e, "RDATE") = {} /\ FirstDuration(e) = NoTime
    BY <1>5, NothingMeans
  <2> HIDE DEF d
  <2>4. /\ m.start = e.start.at /\ m.end = e.end.at /\ m.whole = (e.start.form = "date")
        /\ m.every = e.rule.every /\ m.count = e.rule.count
        /\ m.raw = [except |-> Dates(e, "EXDATE"), extra |-> Dates(e, "RDATE"),
                    lasts |-> FirstDuration(e)]
    BY DEF Meaning
  <2> HIDE DEF m
  <2>5. m.raw.except = {} /\ m.raw.extra = {} /\ m.raw.lasts = NoTime
    BY <2>3, <2>4
  <2>6. m.whole = FALSE
    BY <2>1, <2>4
  <2> QED
    BY <2>1, <2>2, <2>4, <2>5, <2>6
<1>10. IsEvent(e)
  <2>1. e.start \in Values /\ e.end \in Values
    <3>1. at + begins \in Instants /\ at + ends \in Instants
      BY <1>3, <1>7 DEF Instants
    <3> HIDE DEF d
    <3>2. e.start = Local(at + begins) /\ e.end = Local(at + ends)
      BY <1>5
    <3> QED
      BY <3>1, <3>2, LocalIs
  <2>2. e.rule \in Recurrences
    BY <1>1, <1>4, <1>5 DEF Recurrences, Instants, Week
  <2>3. IsLines(e.raw)
    BY <1>5, NothingMeans
  <2> QED
    BY <2>1, <2>2, <2>3 DEF IsEvent
<1> HIDE DEF m, d
<1>11. Length(m) = Lasts(s, c)
  <2>1. m.end # NoTime /\ Said(m) = m.end
    BY <1>3, <1>7, <1>9 DEF Said, NoTime
  <2>2. m.end > m.start <=> ends > begins
    BY <1>3, <1>7, <1>9
  <2>3. m.end - m.start = ends - begins
    BY <1>3, <1>7, <1>9
  <2> QED
    BY <2>1, <2>2, <2>3 DEF Length, Lasts, begins, ends
<1>12. Times(m) = {m.start + k * m.every * Slots : k \in 0..(m.count - 1)}
  <2>1. m.start # NoTime /\ m.every # Once /\ m.every # NoTime
    BY <1>1, <1>3, <1>7, <1>9 DEF NoTime, Once, Week
  <2> QED
    BY <1>9, <2>1 DEF Times
<1> DEFINE starts == {d(w) + begins : w \in HeldIn(s, c)}
<1>13. \A k \in 0..weeks : m.start + k * m.every * Slots = d(f + k * by) + begins
  <2> SUFFICES ASSUME NEW k \in 0..weeks
               PROVE  m.start + k * m.every * Slots = d(f + k * by) + begins
    OBVIOUS
  <2> DEFINE y == k * (by * Week) * Slots
  <2>1. d(f + k * by) = at + y
    BY <1>4, <1>8
  <2>2. y \in Int
    BY <1>1, <1>4, SlotsAssumption DEF Week
  <2>3. m.start + k * m.every * Slots = at + begins + y
    BY <1>9
  <2> HIDE DEF y
  <2> QED
    BY <1>3, <1>7, <2>1, <2>2, <2>3
<1>14. \A w \in Int : w \in HeldIn(s, c) <=> \E k \in 0..weeks : w = f + k * by
  BY WeeksAre DEF f, by, weeks, l
<1>15. Times(m) = starts
  <2>1. ASSUME NEW k \in 0..weeks PROVE m.start + k * m.every * Slots \in starts
    <3>1. f + k * by \in Int
      BY <1>1, <1>4
    <3>2. f + k * by \in HeldIn(s, c)
      BY <1>14, <3>1
    <3> QED
      BY <1>13, <3>2
  <2>2. ASSUME NEW w \in HeldIn(s, c) PROVE \E k \in 0..weeks : d(w) + begins = m.start + k * m.every * Slots
    <3>1. w \in Int
      BY WeeksAre
    <3>2. PICK k \in 0..weeks : w = f + k * by
      BY <1>14, <3>1
    <3> QED
      BY <1>13, <3>2
  <2>3. m.count - 1 = weeks
    BY <1>4, <1>9
  <2> QED
    BY <1>12, <2>1, <2>2, <2>3
<1>16. Held(e) = {[start |-> t, length |-> Lasts(s, c)] : t \in starts}
  BY <1>11, <1>15 DEF Held, m
<1>17. Lectures(s, c) = {[start |-> d(w) + begins, length |-> Lasts(s, c)] : w \in HeldIn(s, c)}
  BY DEF Lectures, d, begins, table
<1>18. {[start |-> t, length |-> Lasts(s, c)] : t \in starts}
       = {[start |-> d(w) + begins, length |-> Lasts(s, c)] : w \in HeldIn(s, c)}
  OBVIOUS
<1> QED
  BY <1>10, <1>16, <1>17, <1>18 DEF e

LEMMA ShareEventsAre ==
  ASSUME NEW s, IsShare(s)
  PROVE  \E n \in Nat :
           /\ DOMAIN ShareEvents(s) = 1..n /\ ShareEvents(s) = [i \in 1..n |-> ShareEvents(s)[i]]
           /\ \A i \in 1..n : IsEvent(ShareEvents(s)[i])
           /\ AreSorted(ShareEvents(s), n)
           /\ UNION {Held(ShareEvents(s)[i]) : i \in 1..n}
              = UNION {Lectures(s, c) : c \in {d \in ToSet(s.courses) : Readable(s, d)}}
<1> DEFINE all == ToSet(s.courses)
           some == {c \in all : Usable(s, c)}
           usable == Only(s.courses, some)
           n == Len(usable)
           es == [i \in DOMAIN usable |-> ShareEvent(s, usable[i])]
<1>1. s.courses \in Seq(all)
  BY DEF IsShare, IsList
<1>2. \A c \in all : IsCourse(c)
  BY DEF IsShare, IsCourse, ToSet
<1> HIDE DEF all
<1>3. usable \in Seq(all) /\ ToSet(usable) = some
  <2>1. ToSet(usable) = all \cap some
    BY <1>1, OnlyHas DEF all
  <2> QED
    BY <1>1, <2>1, OnlyHas
<1> HIDE DEF some, usable
<1>4. /\ n \in Nat /\ DOMAIN usable = 1..n /\ \A i \in 1..n : usable[i] \in some
      /\ \A c \in some : \E i \in 1..n : usable[i] = c
  BY <1>3, ToSetIs
<1> HIDE DEF n
<1>5. DOMAIN es = 1..n /\ \A i \in 1..n : es[i] = ShareEvent(s, usable[i])
  BY <1>4
<1> HIDE DEF es
<1>6. \A c \in some : IsCourse(c) /\ Usable(s, c)
  BY <1>2 DEF some
<1>7. \A i \in 1..n : IsEvent(es[i]) /\ Held(es[i]) = Lectures(s, usable[i])
  BY <1>4, <1>5, <1>6, ShareEventIs
<1>8. AreRows(es, n)
  BY <1>5, <1>7, MeaningIs DEF AreRows
<1>9. PICK order : Sorting(order, es, n)
  BY <1>4, <1>8, SortIs
<1>10. ShareEvents(s) = SortEvents(es)
  BY DEF ShareEvents, es, usable, some, all
<1>11. /\ order \in [1..n -> 1..n]
       /\ ShareEvents(s) = [i \in 1..n |-> es[order[i]]]
       /\ \A j \in 1..n : \E i \in 1..n : order[i] = j
       /\ AreSorted(ShareEvents(s), n)
  BY <1>9, <1>10 DEF Sorting
<1> DEFINE got == ShareEvents(s)
<1>12. DOMAIN got = 1..n /\ got = [i \in 1..n |-> got[i]] /\ \A i \in 1..n : got[i] = es[order[i]]
  BY <1>11
<1> HIDE DEF got
<1>13. \A i \in 1..n : IsEvent(got[i])
  BY <1>7, <1>11, <1>12
<1>14. ASSUME NEW x \in UNION {Held(got[i]) : i \in 1..n}
       PROVE  \E c \in some : x \in Lectures(s, c)
  <2>1. PICK i \in 1..n : x \in Held(got[i])
    OBVIOUS
  <2>2. order[i] \in 1..n /\ got[i] = es[order[i]]
    BY <1>11, <1>12
  <2>3. x \in Lectures(s, usable[order[i]]) /\ usable[order[i]] \in some
    BY <1>4, <1>7, <2>1, <2>2
  <2> QED
    BY <2>3
<1>15. ASSUME NEW c \in some, NEW x \in Lectures(s, c)
       PROVE  \E i \in 1..n : x \in Held(got[i])
  <2>1. PICK j \in 1..n : usable[j] = c
    BY <1>4
  <2>2. PICK i \in 1..n : order[i] = j
    BY <1>11
  <2>3. Held(got[i]) = Lectures(s, c)
    BY <1>7, <1>12, <2>1, <2>2
  <2> QED
    BY <2>3
<1>16. ASSUME NEW c \in all, Readable(s, c), NEW x \in Lectures(s, c)
       PROVE  c \in some
  <2>1. IsCourse(c)
    BY <1>2
  <2>2. HeldIn(s, c) # {}
    BY <1>16 DEF Lectures
  <2>3. FirstWeek(c) <= LastWeek(s, c)
    BY <2>1, <2>2, WeeksAre
  <2> QED
    BY <1>16, <2>3 DEF some, Usable, Readable
<1>17. \A c \in some : c \in all /\ Readable(s, c)
  BY DEF some, Usable, Readable
<1>18. UNION {Held(got[i]) : i \in 1..n}
       = UNION {Lectures(s, c) : c \in {d \in all : Readable(s, d)}}
  BY <1>14, <1>15, <1>16, <1>17
<1> QED
  BY <1>4, <1>11, <1>12, <1>13, <1>18 DEF got, all

LEMMA SharedWeeks ==
  ASSUME NEW s, IsShare(s), NEW es, es = ShareEvents(s)
  PROVE  UNION {{[start |-> t, length |-> Length(Meaning(es[i]))] : t \in Times(Meaning(es[i]))} :
                  i \in DOMAIN es}
         = UNION {Lectures(s, c) : c \in {d \in ToSet(s.courses) : Readable(s, d)}}
<1>1. PICK n \in Nat : /\ DOMAIN es = 1..n
                       /\ UNION {Held(es[i]) : i \in 1..n}
                          = UNION {Lectures(s, c) : c \in {d \in ToSet(s.courses) : Readable(s, d)}}
  <2> DEFINE want == UNION {Lectures(s, c) : c \in {d \in ToSet(s.courses) : Readable(s, d)}}
  <2>1. \E n \in Nat : /\ DOMAIN ShareEvents(s) = 1..n
                       /\ UNION {Held(ShareEvents(s)[i]) : i \in 1..n} = want
    BY ShareEventsAre, Zenon
  <2> QED
    BY <2>1, Zenon
<1>2. UNION {Held(es[i]) : i \in DOMAIN es}
      = UNION {Lectures(s, c) : c \in {d \in ToSet(s.courses) : Readable(s, d)}}
  BY <1>1
<1> QED
  BY <1>2, Zenon DEF Held

(* An imported share gives every lecture of its courses, in exactly the    *)
(* weeks and the parity the share says, at the clocks of the course or of  *)
(* its nodes, and no other, for any share.  (WakeUpShare.Events.)          *)
THEOREM SharesAreComplete == CalendarSpec => WeeksAsShared
<1>1. [CalendarNext]_calendarVars =>
        [\A s \in Shares : ImportShare(s) =>
           UNION {{[start |-> t, length |-> Length(Meaning(stored'[i]))] : t \in Times(Meaning(stored'[i]))} :
                    i \in DOMAIN stored'}
           = UNION {Lectures(s, c) : c \in {d \in ToSet(s.courses) : Readable(s, d)}}]_calendarVars
  <2> SUFFICES ASSUME NEW s \in Shares, ImportShare(s)
               PROVE
           UNION {{[start |-> t, length |-> Length(Meaning(stored'[i]))] : t \in Times(Meaning(stored'[i]))} :
                    i \in DOMAIN stored'}
           = UNION {Lectures(s, c) : c \in {d \in ToSet(s.courses) : Readable(s, d)}}
    BY Zenon
  <2>1. stored' = ShareEvents(s) /\ IsShare(s)
    BY SharesAssumption DEF ImportShare, Put
  <2> QED
    BY <2>1, SharedWeeks
<1> QED
  BY <1>1, PTL DEF WeeksAsShared, CalendarSpec

--------------------------------------------------------------------------------
(* The components of a text.                                               *)
LEMMA PlainIs == ASSUME NEW lines, IsPlain(lines) PROVE IsLines(lines)
  BY DEF IsPlain, IsLines

LEMMA NestedAre ==
  ASSUME NEW lines, IsLines(lines)
  PROVE  /\ IsList(Nested(lines))
         /\ \A c \in ToSet(Nested(lines)) : c.name # "VEVENT" /\ IsLines(c.lines)
<1> DEFINE h == Having(lines, "BEGIN")
           n == Len(h)
           got == Nested(lines)
<1>1. IsList(h) /\ \A i \in DOMAIN h : h[i] \in ToSet(lines) /\ h[i].prop = "BEGIN"
  BY HavingIs DEF IsLines
<1>2. \A l \in ToSet(lines) : l.prop = "BEGIN" => l.value.name # "VEVENT" /\ IsPlain(l.value.lines)
  BY DEF ToSet, IsLines
<1>3. got = [i \in DOMAIN h |-> h[i].value]
  BY DEF Nested
<1> HIDE DEF h
<1>4. DOMAIN h = 1..n /\ n \in Nat
  BY <1>1 DEF IsList
<1>5. \A i \in 1..n : got[i].name # "VEVENT" /\ IsLines(got[i].lines)
  BY <1>1, <1>2, <1>3, <1>4, PlainIs
<1>6. DOMAIN got = 1..n /\ got = [i \in 1..n |-> got[i]]
  BY <1>3, <1>4
<1> HIDE DEF got, n
<1>7. \A i \in 1..n : got[i] \in ToSet(got)
  BY <1>6 DEF ToSet
<1>8. IsList(got)
  <2> DEFINE V == ToSet(got)
  <2> HIDE DEF V
  <2>1. \A i \in 1..n : got[i] \in V
    BY <1>7 DEF V
  <2>2. got \in Seq(V)
    BY <1>4, <1>6, <2>1
  <2> QED
    BY <2>2 DEF V, IsList
<1>9. \A c \in ToSet(got) : \E i \in 1..n : c = got[i]
  BY <1>6 DEF ToSet
<1>10. \A c \in ToSet(got) : c.name # "VEVENT" /\ IsLines(c.lines)
  BY <1>5, <1>9
<1> QED
  BY <1>8, <1>10 DEF got

LEMMA ExtractIs ==
  ASSUME NEW t, IsText(t)
  PROVE  /\ IsList(Extract(t))
         /\ \A c \in ToSet(Extract(t)) : IsLines(c.lines)
         /\ \A c \in ToSet(Extract(t)) : c \in ToSet(t) \/ c.name # "VEVENT"
         /\ VEvents(t) = Only(t, {c \in ToSet(t) : c.name = "VEVENT"})
         /\ VEvents(t) \in Seq({c \in ToSet(t) : c.name = "VEVENT"})
<1> DEFINE n == Len(t)
           inner(i) == Nested(t[i].lines)
           parts == [i \in DOMAIN t |-> inner(i) \o <<t[i]>>]
           V == ToSet(t) \cup UNION {ToSet(inner(i)) : i \in DOMAIN t}
           vevents == {c \in V : c.name = "VEVENT"}
<1>1. n \in Nat /\ DOMAIN t = 1..n /\ t \in Seq(ToSet(t))
  BY DEF IsText, IsList
<1>2. \A i \in 1..n : IsLines(t[i].lines)
  BY <1>1 DEF IsText
<1>3. \A i \in 1..n : t[i] \in ToSet(t) /\ t[i] \in V
  BY <1>1 DEF ToSet
<1>4. ASSUME NEW i \in 1..n
      PROVE  /\ inner(i) \in Seq(V)
             /\ \A c \in ToSet(inner(i)) : c.name # "VEVENT" /\ IsLines(c.lines)
  <2>1. ToSet(inner(i)) \subseteq V
    BY <1>1
  <2>2. IsList(inner(i)) /\ \A c \in ToSet(inner(i)) : c.name # "VEVENT" /\ IsLines(c.lines)
    BY <1>2, NestedAre
  <2> HIDE DEF V, inner
  <2> QED
    BY <2>1, <2>2, InListOf DEF IsList
<1>5. \A c \in V : IsLines(c.lines) /\ (c \in ToSet(t) \/ c.name # "VEVENT")
  <2> SUFFICES ASSUME NEW c \in V PROVE IsLines(c.lines) /\ (c \in ToSet(t) \/ c.name # "VEVENT")
    OBVIOUS
  <2>1. CASE c \in ToSet(t)
    BY <1>1, <1>2, <2>1 DEF ToSet
  <2>2. CASE c \notin ToSet(t)
    <3>1. PICK i \in DOMAIN t : c \in ToSet(inner(i))
      BY <2>2
    <3> QED
      BY <1>1, <1>4, <3>1
  <2> QED
    BY <2>1, <2>2
<1>6. ASSUME NEW i \in 1..n
      PROVE  parts[i] = Append(inner(i), t[i]) /\ parts[i] \in Seq(V)
  <2> DEFINE p == inner(i)
             x == t[i]
             one == <<x>>
  <2>1. p \in Seq(V) /\ x \in V
    BY <1>3, <1>4
  <2>2. parts[i] = p \o one
    BY <1>1
  <2> HIDE DEF p, x, V, parts
  <2>3. p \o one = Append(p, x)
    BY <2>1
  <2>4. Append(p, x) \in Seq(V)
    BY <2>1
  <2> HIDE DEF one
  <2> QED
    BY <2>2, <2>3, <2>4, Zenon DEF p, x
<1>7. parts \in Seq(Seq(V)) /\ Len(parts) = n
  <2> DEFINE U == Seq(V)
  <2>1. DOMAIN parts = 1..n /\ parts = [i \in 1..n |-> parts[i]]
    BY <1>1
  <2>2. n \in Nat /\ \A i \in 1..n : parts[i] \in U
    BY <1>1, <1>6
  <2> HIDE DEF parts, V, n, U
  <2>3. parts \in Seq(U) /\ Len(parts) = n
    BY <2>1, <2>2
  <2> QED
    BY <2>3, Zenon DEF U
<1>8. Extract(t) = FlattenSeq(parts)
  BY DEF Extract
<1> HIDE DEF parts, V, inner, n
<1>9. PICK flat : Flattening(flat, parts, V)
  BY <1>7, FlattenIs
<1>10. PICK kept : Keeping(kept, t, vevents, V)
  <2>1. t \in Seq(V)
    BY <1>1, InListOf DEF V
  <2> QED
    BY <2>1, OnlyIs
<1>11. /\ \A i \in 0..n : flat[i] \in Seq(V)
       /\ flat[0] = <<>> /\ flat[n] = Extract(t)
       /\ \A i \in 1..n : flat[i] = flat[i - 1] \o parts[i]
  BY <1>7, <1>8, <1>9 DEF Flattening
<1>12. /\ \A i \in 0..n : kept[i] \in Seq(V)
       /\ kept[0] = <<>> /\ kept[n] = Only(t, vevents)
       /\ \A i \in 1..n : t[i] \in vevents => kept[i] = Append(kept[i - 1], t[i])
       /\ \A i \in 1..n : t[i] \notin vevents => kept[i] = kept[i - 1]
  BY <1>10 DEF Keeping, n
<1> HIDE DEF vevents
<1> DEFINE S == {i \in 0..n : Only(flat[i], vevents) = kept[i]}
<1>13. 0 \in S
  <2>1. 0 \in 0..n /\ flat[0] \in Seq(V) /\ ToSet(flat[0]) = {}
    BY <1>1, <1>11, ToSetIs
  <2>2. Only(flat[0], vevents) = <<>>
    BY <2>1, OnlyNone
  <2>3. Only(flat[0], vevents) = kept[0]
    BY <1>12, <2>2, Zenon
  <2> QED
    BY <2>1, <2>3, Zenon
<1>14. ASSUME NEW i \in 1..n, i - 1 \in S PROVE i \in S
  <2> DEFINE a == flat[i - 1]
             p == inner(i)
             k == kept[i - 1]
             x == t[i]
             ap == a \o p
  <2>1. i - 1 \in 0..n /\ i \in 0..n
    BY <1>1
  <2>2. a \in Seq(V) /\ p \in Seq(V) /\ k \in Seq(V) /\ x \in V
    BY <1>3, <1>4, <1>11, <1>12, <2>1
  <2>3. Only(a, vevents) = k
    BY <1>14
  <2>4. ToSet(p) \cap vevents = {}
    BY <1>4 DEF vevents
  <2>5. flat[i] = a \o Append(p, x)
    BY <1>6, <1>11
  <2>6. (x \in vevents => kept[i] = Append(k, x)) /\ (x \notin vevents => kept[i] = k)
    BY <1>12
  <2> HIDE DEF a, p, k, x
  <2>7. flat[i] = Append(ap, x) /\ ap \in Seq(V)
    BY <2>2, <2>5, ConcatAppend, ConcatIs
  <2>8. Only(ap, vevents) = k
    <3>1. Only(p, vevents) = <<>>
      BY <2>2, <2>4, OnlyNone
    <3>2. Only(a \o p, vevents) = Only(a, vevents) \o Only(p, vevents)
      BY <2>2, OnlyOfConcat
    <3>3. k \o <<>> = k
      BY <2>2, ConcatEmpty
    <3> QED
      BY <2>3, <3>1, <3>2, <3>3, Zenon DEF ap
  <2> HIDE DEF ap
  <2>9. ASSUME x \in vevents PROVE Only(flat[i], vevents) = kept[i]
    <3>1. Only(Append(ap, x), vevents) = Append(Only(ap, vevents), x)
      BY <2>2, <2>7, <2>9, OnlyOfAppend
    <3> QED
      BY <2>6, <2>7, <2>8, <2>9, <3>1, Zenon
  <2>10. ASSUME x \notin vevents PROVE Only(flat[i], vevents) = kept[i]
    <3>1. Only(Append(ap, x), vevents) = Only(ap, vevents)
      BY <2>2, <2>7, <2>10, OnlyOfAppend
    <3> QED
      BY <2>6, <2>7, <2>8, <2>10, <3>1, Zenon
  <2> QED
    BY <2>1, <2>9, <2>10, Zenon
<1>15. Only(Extract(t), vevents) = Only(t, vevents)
  <2>1. n \in 0..n
    BY <1>1
  <2> HIDE DEF S
  <2>2. n \in S
    BY <1>1, <1>13, <1>14, <2>1, AlongIt
  <2>3. Only(flat[n], vevents) = kept[n]
    BY <2>2, Zenon DEF S
  <2> QED
    BY <1>11, <1>12, <2>3, Zenon
<1>16. Extract(t) \in Seq(V) /\ t \in Seq(V)
  <2>1. n \in 0..n
    BY <1>1
  <2> QED
    BY <1>1, <1>11, <2>1, InListOf DEF V
<1>17. VEvents(t) = Only(Extract(t), vevents)
  <2> DEFINE some == {c \in ToSet(Extract(t)) : c.name = "VEVENT"}
  <2>1. ToSet(Extract(t)) \subseteq V
    BY <1>16, ToSetIs
  <2>2. ToSet(Extract(t)) \cap some = ToSet(Extract(t)) \cap vevents
    BY <2>1 DEF vevents
  <2> HIDE DEF some
  <2>3. Only(Extract(t), some) = Only(Extract(t), vevents)
    BY <1>16, <2>2, OnlyAgrees
  <2> QED
    BY <2>3, Zenon DEF VEvents, some
<1>18. Only(t, vevents) = Only(t, {c \in ToSet(t) : c.name = "VEVENT"})
  <2> DEFINE some == {c \in ToSet(t) : c.name = "VEVENT"}
  <2>1. ToSet(t) \cap some = ToSet(t) \cap vevents
    BY DEF vevents, V
  <2> HIDE DEF some
  <2> QED
    BY <1>16, <2>1, OnlyAgrees DEF some
<1>19. VEvents(t) = Only(t, {c \in ToSet(t) : c.name = "VEVENT"})
  BY <1>15, <1>17, <1>18, Zenon
<1>20. VEvents(t) \in Seq({c \in ToSet(t) : c.name = "VEVENT"})
  <2> DEFINE some == {c \in ToSet(t) : c.name = "VEVENT"}
             got == Only(t, some)
  <2>1. got \in Seq(V) /\ ToSet(got) = ToSet(t) \cap some
    BY <1>16, OnlyHas
  <2>2. ToSet(got) \subseteq some
    BY <2>1
  <2> HIDE DEF some, got
  <2>3. got \in Seq(some)
    BY <2>1, <2>2, InListOf
  <2> QED
    BY <1>19, <2>3, Zenon DEF some, got
<1>21. /\ IsList(Extract(t))
       /\ \A c \in ToSet(Extract(t)) : IsLines(c.lines) /\ (c \in ToSet(t) \/ c.name # "VEVENT")
  <2>1. ToSet(Extract(t)) \subseteq V
    BY <1>16, ToSetIs
  <2>2. Extract(t) \in Seq(ToSet(Extract(t)))
    BY <1>16, InListOf
  <2> QED
    BY <1>5, <2>1, <2>2 DEF IsList
<1> QED
  BY <1>19, <1>20, <1>21

--------------------------------------------------------------------------------
(* Reading an event and writing it.                                        *)
IsLine(l) ==
  Reads(l) /\ (l.prop = "BEGIN" => l.value.name # "VEVENT" /\ IsPlain(l.value.lines))

LEMMA LinesIn ==
  ASSUME NEW W, \A l \in W : IsLine(l), NEW lines \in Seq(W)
  PROVE  IsLines(lines)
<1>1. lines \in Seq(ToSet(lines)) /\ \A i \in DOMAIN lines : lines[i] \in W
  BY ToSetIs, InListOf
<1> QED
  BY <1>1 DEF IsLines, IsList, IsLine

LEMMA LinesHave ==
  ASSUME NEW lines, IsLines(lines)
  PROVE  IsList(lines) /\ \A l \in ToSet(lines) : IsLine(l)
  BY DEF IsLines, IsLine, ToSet

LEMMA FieldIs ==
  ASSUME NEW lines, IsLines(lines), NEW p, NEW default
  PROVE  \/ Field(lines, p, default) = default /\ Having(lines, p) = <<>>
         \/ /\ Having(lines, p) # <<>>
            /\ \E l \in ToSet(lines) : l.prop = p /\ Field(lines, p, default) = l.value
<1> DEFINE h == Having(lines, p)
           n == Len(h)
<1>1. /\ IsList(h)
      /\ \A i \in DOMAIN h : h[i] \in ToSet(lines) /\ h[i].prop = p
  BY HavingIs DEF IsLines
<1>2. Field(lines, p, default) = IF h = <<>> THEN default ELSE h[n].value
  BY DEF Field, Last
<1> HIDE DEF h
<1>3. CASE h = <<>>
  BY <1>2, <1>3 DEF h
<1>4. CASE h # <<>>
  <2>1. n \in DOMAIN h
    BY <1>1, <1>4 DEF IsList
  <2> HIDE DEF n
  <2>2. h[n] \in ToSet(lines) /\ h[n].prop = p /\ Field(lines, p, default) = h[n].value
    BY <1>1, <1>2, <1>4, <2>1
  <2> QED
    BY <1>4, <2>2 DEF h
<1> QED
  BY <1>3, <1>4

LEMMA NothingIs == NoValue \in Values /\ NoRule \in Recurrences
  BY DEF NoValue, Values, None, NoTime, Instants, NoRule, Recurrences, Once

LEMMA EventOfIs ==
  ASSUME NEW c, IsLines(c.lines)
  PROVE  IsEvent(EventOf(c))
<1> DEFINE lines == c.lines
<1>1. \A l \in ToSet(lines) : Reads(l)
  BY LinesHave DEF IsLine
<1> HIDE DEF lines
<1>2. IsLines(lines)
  BY DEF lines
<1>3. Field(lines, "DTSTART", NoValue) \in Values
  BY <1>1, <1>2, FieldIs, NothingIs DEF Reads
<1>4. Field(lines, "DTEND", NoValue) \in Values
  BY <1>1, <1>2, FieldIs, NothingIs DEF Reads
<1>5. Field(lines, "RRULE", NoRule) \in Recurrences
  BY <1>1, <1>2, FieldIs, NothingIs DEF Reads
<1> QED
  BY <1>2, <1>3, <1>4, <1>5 DEF EventOf, IsEvent, lines

LEMMA GivenIs ==
  ASSUME NEW p, NEW v, NEW absent, NEW W, Line(p, v) \in W
  PROVE  Given(p, v, absent) \in Seq(W) /\ ToSet(Given(p, v, absent)) \subseteq {Line(p, v)}
<1> DEFINE no == <<>>
           one == <<Line(p, v)>>
<1>1. no \in Seq(W) /\ ToSet(no) = {}
  BY DEF ToSet
<1>2. one \in Seq(W) /\ ToSet(one) = {Line(p, v)}
  BY OneIs
<1>3. Given(p, v, absent) = IF v = absent THEN no ELSE one
  BY DEF Given
<1> HIDE DEF no, one
<1> QED
  BY <1>1, <1>2, <1>3

UidOf(e) == IF e.uid = NoUid THEN <<"random">> ELSE e.uid
Written(e) ==
  {Line("UID", UidOf(e)), Line("DTSTART", e.start), Line("DTEND", e.end), Line("RRULE", e.rule),
   Line("SUMMARY", e.title)}

LEMMA ComponentIs ==
  ASSUME NEW e, IsEvent(e)
  PROVE  /\ IsLines(Component(e).lines) /\ Component(e).name = "VEVENT"
         /\ Unseen(e) \in Seq(ToSet(e.raw))
         /\ ToSet(Unseen(e)) = {l \in ToSet(e.raw) : l.prop \notin Known}
<1> DEFINE W == ToSet(e.raw) \cup Written(e)
           u == Unseen(e)
           one == <<Line("UID", UidOf(e))>>
           g1 == Given("DTSTART", e.start, NoValue)
           g2 == Given("DTEND", e.end, NoValue)
           g3 == Given("RRULE", e.rule, NoRule)
           g4 == Given("SUMMARY", e.title, None)
<1>1. IsList(e.raw) /\ \A l \in ToSet(e.raw) : IsLine(l)
  BY LinesHave DEF IsEvent
<1>2. \A l \in Written(e) : IsLine(l)
  BY DEF Written, IsLine, Reads, Line, IsEvent
<1>3. \A l \in W : IsLine(l)
  BY <1>1, <1>2
<1>4. u \in Seq(ToSet(e.raw)) /\ ToSet(u) = {l \in ToSet(e.raw) : l.prop \notin Known}
  <2> DEFINE some == {l \in ToSet(e.raw) : l.prop \notin Known}
  <2>1. u = Only(e.raw, some)
    BY DEF Unseen
  <2>2. Only(e.raw, some) \in Seq(ToSet(e.raw)) /\ ToSet(Only(e.raw, some)) = ToSet(e.raw) \cap some
    BY <1>1, OnlyHas DEF IsList
  <2> QED
    BY <2>1, <2>2
<1> HIDE DEF u
<1>5. u \in Seq(W)
  BY <1>4, InListOf
<1>6. /\ one \in Seq(W) /\ g1 \in Seq(W) /\ g2 \in Seq(W) /\ g3 \in Seq(W) /\ g4 \in Seq(W)
  BY OneIs, GivenIs DEF Written
<1>7. Component(e).lines = u \o one \o g1 \o g2 \o g3 \o g4 /\ Component(e).name = "VEVENT"
  BY DEF Component, u, UidOf
<1> HIDE DEF W, one, g1, g2, g3, g4
<1>8. u \o one \o g1 \o g2 \o g3 \o g4 \in Seq(W)
  BY <1>5, <1>6
<1> QED
  BY <1>3, <1>4, <1>7, <1>8, LinesIn DEF u

--------------------------------------------------------------------------------
(* What is stored, shown and edited.                                       *)
IsStored(es) == IsList(es) /\ \A i \in DOMAIN es : IsEvent(es[i])
IsInput(x) ==
  /\ x = [id |-> x.id, uid |-> x.uid, title |-> x.title, start |-> x.start, end |-> x.end,
          rule |-> x.rule]
  /\ x.start \in Instants /\ x.end \in Instants /\ x.rule \in Recurrences
IsInputs(xs) == IsList(xs) /\ \A i \in DOMAIN xs : IsInput(xs[i])
CalendarInv == IsText(text) /\ IsStored(stored) /\ IsInputs(page.inputs)

LEMMA ListIs ==
  ASSUME NEW n \in Nat, NEW f, f = [i \in 1..n |-> f[i]]
  PROVE  IsList(f) /\ Len(f) = n /\ DOMAIN f = 1..n
<1> DEFINE V == ToSet(f)
<1>1. DOMAIN f = 1..n
  OBVIOUS
<1>2. \A i \in 1..n : f[i] \in V
  BY <1>1 DEF ToSet
<1> HIDE DEF V
<1>3. f \in Seq(V) /\ Len(f) = n
  BY <1>1, <1>2
<1> QED
  BY <1>1, <1>3 DEF IsList, V

LEMMA ListHas ==
  ASSUME NEW list, IsList(list)
  PROVE  /\ Len(list) \in Nat /\ DOMAIN list = 1..Len(list)
         /\ list = [i \in 1..Len(list) |-> list[i]]
         /\ \A i \in DOMAIN list : list[i] \in ToSet(list)
<1> DEFINE V == ToSet(list)
<1>1. list \in Seq(V)
  BY DEF IsList
<1> HIDE DEF V
<1> QED
  BY <1>1 DEF V

LEMMA SortedEvents ==
  ASSUME NEW n \in Nat, NEW es, DOMAIN es = 1..n, \A i \in 1..n : IsEvent(es[i])
  PROVE  /\ \E order : Sorting(order, es, n)
         /\ IsStored(SortEvents(es)) /\ Len(SortEvents(es)) = n
<1>1. AreRows(es, n)
  BY MeaningIs DEF AreRows
<1>2. PICK order : Sorting(order, es, n)
  BY <1>1, SortIs
<1> DEFINE got == SortEvents(es)
<1>3. got = [i \in 1..n |-> es[order[i]]] /\ order \in [1..n -> 1..n]
  BY <1>2 DEF Sorting
<1> HIDE DEF got
<1>4. got = [i \in 1..n |-> got[i]] /\ \A i \in 1..n : IsEvent(got[i])
  BY <1>3
<1>5. IsList(got) /\ Len(got) = n /\ DOMAIN got = 1..n
  BY <1>4, ListIs
<1> QED
  BY <1>2, <1>4, <1>5 DEF IsStored, got

LEMMA ParsedIs ==
  ASSUME NEW t, IsText(t)
  PROVE  IsStored(ParseICSEvents(t)) /\ Len(ParseICSEvents(t)) = Len(VEvents(t))
<1> DEFINE some == {c \in ToSet(t) : c.name = "VEVENT"}
           vs == VEvents(t)
           n == Len(vs)
           es == [i \in DOMAIN vs |-> EventOf(vs[i])]
<1>1. vs \in Seq(some)
  BY ExtractIs
<1>2. \A c \in some : IsLines(c.lines)
  BY DEF IsText, ToSet
<1> HIDE DEF some, vs
<1>3. n \in Nat /\ DOMAIN vs = 1..n /\ \A i \in 1..n : vs[i] \in some
  BY <1>1
<1>4. DOMAIN es = 1..n /\ \A i \in 1..n : IsEvent(es[i])
  BY <1>2, <1>3, EventOfIs
<1>5. ParseICSEvents(t) = SortEvents(es)
  BY DEF ParseICSEvents, vs
<1> HIDE DEF es, n
<1> QED
  BY <1>3, <1>4, <1>5, SortedEvents DEF n, vs

LEMMA TextIn ==
  ASSUME NEW W, \A c \in W : IsLines(c.lines), NEW t \in Seq(W)
  PROVE  IsText(t)
<1>1. t \in Seq(ToSet(t)) /\ \A i \in DOMAIN t : t[i] \in W
  BY ToSetIs, InListOf
<1> QED
  BY <1>1 DEF IsText, IsList

LEMMA SerializedIs ==
  ASSUME NEW base, IsText(base), NEW es, IsStored(es)
  PROVE  IsText(Serialize(es, base))
<1> DEFINE all == ToSet(Extract(base))
           some == {c \in all : c.name # "VEVENT"}
           others == Only(Extract(base), some)
           n == Len(es)
           new == [i \in DOMAIN es |-> Component(es[i])]
           W == all \cup {Component(es[i]) : i \in DOMAIN es}
<1>1. Extract(base) \in Seq(all) /\ \A c \in all : IsLines(c.lines)
  BY ExtractIs DEF IsList
<1>2. DOMAIN es = 1..n /\ n \in Nat /\ \A i \in 1..n : IsLines(Component(es[i]).lines)
  BY ListHas, ComponentIs DEF IsStored
<1>3. \A c \in W : IsLines(c.lines)
  BY <1>1, <1>2
<1>4. others \in Seq(W)
  <2> HIDE DEF all, some
  <2>1. others \in Seq(all)
    BY <1>1, OnlyHas
  <2>2. all \subseteq W
    OBVIOUS
  <2> HIDE DEF W, others
  <2> QED
    BY <2>1, <2>2
<1>5. new \in Seq(W)
  <2>1. \A i \in 1..n : new[i] \in W
    BY <1>2
  <2>2. new = [i \in 1..n |-> new[i]]
    BY <1>2
  <2> HIDE DEF W, new, n
  <2> QED
    BY <1>2, <2>1, <2>2
<1>6. Serialize(es, base) = others \o new
  BY DEF Serialize
<1> HIDE DEF W, new, others
<1>7. others \o new \in Seq(W)
  BY <1>4, <1>5
<1> QED
  BY <1>3, <1>6, <1>7, TextIn

LEMMA InputsIn ==
  ASSUME NEW W, \A x \in W : IsInput(x), NEW xs \in Seq(W)
  PROVE  IsInputs(xs)
<1>1. xs \in Seq(ToSet(xs)) /\ \A i \in DOMAIN xs : xs[i] \in W
  BY ToSetIs, InListOf
<1> QED
  BY <1>1 DEF IsInputs, IsList

LEMMA SetsAre ==
  ASSUME NEW x, IsInput(x), NEW title, NEW a \in Instants, NEW b \in Instants
  PROVE  IsInput([x EXCEPT !.title = title, !.start = a, !.end = b])
<1> DEFINE v == [x EXCEPT !.title = title]
           w == [v EXCEPT !.start = a]
           y == [id |-> x.id, uid |-> x.uid, title |-> title, start |-> a, end |-> b,
                 rule |-> x.rule]
<1>1. [x EXCEPT !.title = title, !.start = a, !.end = b] = [w EXCEPT !.end = b]
  OBVIOUS
<1>2. v = [id |-> x.id, uid |-> x.uid, title |-> title, start |-> x.start, end |-> x.end,
           rule |-> x.rule]
  BY DEF IsInput
<1> HIDE DEF v
<1>3. w = [id |-> x.id, uid |-> x.uid, title |-> title, start |-> a, end |-> x.end,
           rule |-> x.rule]
  BY <1>2
<1> HIDE DEF w
<1>4. [w EXCEPT !.end = b] = y
  BY <1>3
<1>5. IsInput(y)
  BY DEF IsInput
<1> QED
  BY <1>1, <1>4, <1>5, Zenon

LEMMA RedatedIs == ASSUME NEW x, IsInput(x) PROVE IsInput(Redated(x))
<1> DEFINE title == IF x.title = None THEN "new" ELSE x.title
           start == IF x.start = NoTime THEN 0 ELSE x.start + Minute
           fits == NoTime \notin {x.start, x.end} /\ x.end - x.start \in 1..(Slots - 1)
           end == start + (IF fits THEN x.end - x.start ELSE Minute)
<1>1. start \in Nat
  BY BoundsAssumption DEF IsInput, Instants
<1>2. fits => x.end - x.start \in Nat
  BY SlotsAssumption
<1>3. (IF fits THEN x.end - x.start ELSE Minute) \in Nat
  BY <1>2, BoundsAssumption
<1>4. Redated(x) = [x EXCEPT !.title = title, !.start = start, !.end = end]
  BY DEF Redated
<1>5. end \in Nat
  <2> HIDE DEF title, start, fits
  <2> QED
    BY <1>1, <1>3
<1> HIDE DEF title, start, fits, end
<1>6. PICK a \in Instants : a = start
  BY <1>1 DEF Instants
<1>7. PICK b \in Instants : b = end
  BY <1>5 DEF Instants
<1>8. IsInput([x EXCEPT !.title = title, !.start = a, !.end = b])
  BY SetsAre
<1> QED
  BY <1>4, <1>6, <1>7, <1>8, Zenon

LEMMA EditsAre ==
  ASSUME NEW xs, IsInputs(xs), NEW new \in Edits(xs)
  PROVE  IsInputs(new)
<1> DEFINE n == Len(xs)
           old == ToSet(xs)
<1>1. /\ n \in Nat /\ DOMAIN xs = 1..n /\ xs \in Seq(old) /\ \A i \in 1..n : IsInput(xs[i])
      /\ \A x \in old : IsInput(x)
  BY ListHas DEF IsInputs, IsList, ToSet
<1> HIDE DEF n, old
<1>2. CASE new = xs
  BY <1>2
<1>3. CASE new = Append(xs, NewInput)
  <2> DEFINE W == old \cup {NewInput}
  <2>1. IsInput(NewInput)
    BY NothingIs, BoundsAssumption DEF NewInput, IsInput, Instants
  <2>2. \A x \in W : IsInput(x)
    BY <1>1, <2>1
  <2>3. NewInput \in W /\ xs \in Seq(W)
    BY <1>1
  <2> HIDE DEF W
  <2>4. new \in Seq(W)
    BY <1>3, <2>3
  <2> QED
    BY <2>2, <2>4, InputsIn
<1>4. ASSUME NEW i \in 1..n, new = [xs EXCEPT ![i] = Redated(xs[i])]
      PROVE  IsInputs(new)
  <2> DEFINE y == Redated(xs[i])
             W == old \cup {y}
  <2>1. IsInput(y)
    BY <1>1, RedatedIs
  <2>2. new = [xs EXCEPT ![i] = y]
    BY <1>4
  <2> HIDE DEF y
  <2>3. \A x \in W : IsInput(x)
    BY <1>1, <2>1
  <2>4. xs \in Seq(W) /\ y \in W
    BY <1>1
  <2> HIDE DEF W
  <2>5. new \in Seq(W)
    BY <1>1, <2>2, <2>4
  <2> QED
    BY <2>3, <2>5, InputsIn
<1>5. ASSUME NEW i \in 1..n, new = RemoveAt(xs, i) PROVE IsInputs(new)
  <2> DEFINE a == SubSeq(xs, 1, i - 1)
             b == SubSeq(xs, i + 1, Len(xs))
  <2>1. a \in Seq(old) /\ b \in Seq(old)
    BY <1>1 DEF n
  <2>2. new = a \o b
    BY <1>5 DEF RemoveAt
  <2> HIDE DEF a, b
  <2>3. new \in Seq(old)
    BY <2>1, <2>2
  <2> QED
    BY <1>1, <2>3, InputsIn
<1> QED
  <2>1. \/ new = xs \/ new = Append(xs, NewInput)
        \/ \E i \in 1..n : new = [xs EXCEPT ![i] = Redated(xs[i])]
        \/ \E i \in 1..n : new = RemoveAt(xs, i)
    BY <1>1, Zenon DEF Edits
  <2> QED
    BY <1>2, <1>3, <1>4, <1>5, <2>1

LEMMA SameIs ==
  ASSUME IsStored(stored), NEW x
  PROVE  /\ Same(x) \subseteq DOMAIN stored
         /\ Same(x) # {} => Min(Same(x)) \in Same(x)
<1>1. Same(x) \subseteq DOMAIN stored
  BY DEF Same
<1>2. DOMAIN stored \subseteq Nat
  BY DEF IsStored, IsList
<1> QED
  BY <1>1, <1>2, MinIs

LEMMA MadeIs ==
  ASSUME IsStored(stored), NEW x, IsInput(x)
  PROVE  IsEvent(MakeEvent(x))
<1>1. Local(x.start) \in Values /\ Local(x.end) \in Values /\ x.rule \in Recurrences
  BY LocalIs DEF IsInput
<1>2. \A i \in DOMAIN stored : IsLines(stored[i].raw)
  BY DEF IsStored, IsEvent
<1>3. IsLines(<<>>)
  <2> DEFINE no == <<>>
  <2>1. no \in Seq({}) /\ \A l \in {} : IsLine(l)
    OBVIOUS
  <2> HIDE DEF no
  <2>2. IsLines(no)
    BY <2>1, LinesIn
  <2> QED
    BY <2>2 DEF no
<1>4. IsLines(Original(x))
  <2>1. CASE Same(x) # {}
    <3>1. Original(x) = stored[Min(Same(x))].raw
      BY <2>1 DEF Original
    <3> QED
      BY <1>2, <2>1, <3>1, SameIs
  <2>2. CASE Same(x) = {} /\ x.id \in DOMAIN stored
    BY <1>2, <2>2 DEF Original
  <2>3. CASE Same(x) = {} /\ x.id \notin DOMAIN stored
    BY <1>3, <2>3 DEF Original
  <2> QED
    BY <2>1, <2>2, <2>3
<1> QED
  BY <1>1, <1>4 DEF MakeEvent, IsEvent

LEMMA SavedIs ==
  ASSUME IsStored(stored), NEW inputs, IsInputs(inputs), NEW es,
         es = [k \in DOMAIN inputs |-> MakeEvent(inputs[k])]
  PROVE  /\ Len(inputs) \in Nat /\ DOMAIN es = 1..Len(inputs) /\ DOMAIN inputs = 1..Len(inputs)
         /\ \A k \in DOMAIN es : IsEvent(es[k])
         /\ \E order : Sorting(order, es, Len(inputs))
         /\ IsStored(SortEvents(es))
<1> DEFINE n == Len(inputs)
<1>1. n \in Nat /\ DOMAIN inputs = 1..n /\ \A k \in 1..n : IsInput(inputs[k])
  BY ListHas DEF IsInputs
<1> HIDE DEF n
<1>2. DOMAIN es = 1..n /\ \A k \in 1..n : IsEvent(es[k])
  BY <1>1, MadeIs
<1>3. (\E order : Sorting(order, es, n)) /\ IsStored(SortEvents(es))
  BY <1>1, <1>2, SortedEvents
<1> QED
  BY <1>1, <1>2, <1>3 DEF n

LEMMA NothingStored ==
  IsText(<<>>) /\ IsStored(<<>>) /\ IsInputs(<<>>)
<1> DEFINE no == <<>>
<1>1. no \in Seq({}) /\ DOMAIN no = {} /\ ToSet(no) = {}
  BY DEF ToSet
<1> HIDE DEF no
<1> QED
  BY <1>1 DEF IsText, IsStored, IsInputs, IsList, no

LEMMA MinuteIs == ASSUME NEW t \in Instants PROVE ToMinute(t) \in Instants
<1>1. CASE t = NoTime
  BY <1>1 DEF ToMinute
<1>2. CASE t # NoTime
  <2>1. Minute \in Nat \ {0} /\ t \in Nat
    BY <1>2, BoundsAssumption DEF Instants
  <2>2. t \div Minute \in Nat
    BY <2>1
  <2> DEFINE q == t \div Minute
  <2> HIDE DEF q
  <2>3. Minute * q \in Nat
    BY <2>1, <2>2 DEF q
  <2> QED
    BY <1>2, <2>3 DEF ToMinute, Instants, q
<1> QED
  BY <1>1, <1>2

LEMMA CalendarStarts == CalendarInit => CalendarInv
<1> SUFFICES ASSUME CalendarInit PROVE CalendarInv
  OBVIOUS
<1>1. page.inputs = <<>> /\ text = <<>> /\ stored = <<>>
  BY DEF CalendarInit, NoPage
<1> QED
  BY <1>1, NothingStored, Zenon DEF CalendarInv

LEMMA CalendarStep == CalendarInv /\ [CalendarNext]_calendarVars => CalendarInv'
<1> SUFFICES ASSUME CalendarInv, [CalendarNext]_calendarVars PROVE CalendarInv'
  OBVIOUS
<1>0. IsText(text) /\ IsStored(stored) /\ IsInputs(page.inputs)
  BY DEF CalendarInv
<1>1. ASSUME NEW t \in Files, Upload(t) PROVE CalendarInv'
  <2>1. stored' = ParseICSEvents(t) /\ text' = t /\ page' = page
    BY <1>1 DEF Upload, Put
  <2>2. IsText(t) /\ IsStored(ParseICSEvents(t))
    BY FilesAssumption, ParsedIs
  <2>3. IsText(text') /\ IsStored(stored') /\ IsInputs(page'.inputs)
    BY <1>0, <2>1, <2>2, Zenon
  <2> QED
    BY <2>3 DEF CalendarInv
<1>2. ASSUME NEW s \in Shares, ImportShare(s) PROVE CalendarInv'
  <2> DEFINE es == ShareEvents(s)
  <2>1. stored' = es /\ text' = Serialize(es, <<>>) /\ page' = page
    BY <1>2 DEF ImportShare, Put
  <2>2. PICK n \in Nat : es = [i \in 1..n |-> es[i]] /\ \A i \in 1..n : IsEvent(es[i])
    BY SharesAssumption, ShareEventsAre
  <2> HIDE DEF es
  <2>3. IsStored(es)
    BY <2>2, ListIs DEF IsStored
  <2>4. IsText(Serialize(es, <<>>))
    BY <2>3, NothingStored, SerializedIs
  <2>5. IsText(text') /\ IsStored(stored') /\ IsInputs(page'.inputs)
    BY <1>0, <2>1, <2>3, <2>4, Zenon
  <2> QED
    BY <2>5 DEF CalendarInv
<1>3. CASE ShowPage
  <2> DEFINE xs == [i \in DOMAIN stored |-> Shown(stored[i], i)]
             n == Len(stored)
  <2>1. text' = text /\ stored' = stored /\ page'.inputs = xs
    BY <1>3 DEF ShowPage
  <2>2. n \in Nat /\ DOMAIN stored = 1..n
    BY <1>0, ListHas DEF IsStored
  <2>3. ASSUME NEW i \in 1..n PROVE IsInput(Shown(stored[i], i))
    <3>1. stored[i].start \in Values /\ stored[i].end \in Values /\ stored[i].rule \in Recurrences
      BY <1>0, <2>2 DEF IsStored, IsEvent
    <3>2. ToMinute(stored[i].start.at) \in Instants /\ ToMinute(stored[i].end.at) \in Instants
      BY <3>1, MinuteIs DEF Values
    <3> QED
      BY <3>1, <3>2 DEF Shown, IsInput
  <2>4. xs = [i \in 1..n |-> xs[i]] /\ \A i \in 1..n : IsInput(xs[i])
    BY <2>2, <2>3
  <2> HIDE DEF xs, n
  <2>5. IsInputs(xs)
    BY <2>2, <2>4, ListIs DEF IsInputs
  <2>6. IsText(text') /\ IsStored(stored') /\ IsInputs(page'.inputs)
    BY <1>0, <2>1, <2>5, Zenon
  <2> QED
    BY <2>6 DEF CalendarInv
<1>4. ASSUME NEW inputs \in Edits(page.inputs), SavePage(inputs) PROVE CalendarInv'
  <2> DEFINE es == [k \in DOMAIN inputs |-> MakeEvent(inputs[k])]
             sorted == SortEvents(es)
  <2>1. stored' = sorted /\ text' = Serialize(sorted, text) /\ page' = page
    BY <1>4 DEF SavePage, Put
  <2>2. IsInputs(inputs)
    BY <1>0, EditsAre
  <2>3. IsStored(sorted)
    BY <1>0, <2>2, SavedIs
  <2> HIDE DEF sorted
  <2>4. IsText(Serialize(sorted, text))
    BY <1>0, <2>3, SerializedIs
  <2>5. IsText(text') /\ IsStored(stored') /\ IsInputs(page'.inputs)
    BY <1>0, <2>1, <2>3, <2>4, Zenon
  <2> QED
    BY <2>5 DEF CalendarInv
<1>5. CASE UNCHANGED calendarVars
  BY <1>0, <1>5 DEF calendarVars, CalendarInv
<1> QED
  BY <1>1, <1>2, <1>3, <1>4, <1>5 DEF CalendarNext

(* The text can be read, what is stored are events, and the page shows     *)
(* what an event can be shown as, after any imports and saves.             *)
THEOREM CalendarIsTyped == CalendarSpec => []CalendarInv
  BY CalendarStarts, CalendarStep, PTL DEF CalendarSpec

(* What an untouched course becomes.                                       *)
LEMMA RemadeIs ==
  ASSUME IsStored(stored), UniqueUids, NEW i \in DOMAIN stored, Valid(Shown(stored[i], i))
  PROVE  LET new == MakeEvent(Shown(stored[i], i)) IN
         /\ Unseen(new) = Unseen(stored[i])
         /\ InMinutes(stored[i]) =>
              /\ Times(Meaning(new)) = Times(Meaning(stored[i]))
              /\ Length(Meaning(new)) = Length(Meaning(stored[i]))
<1> DEFINE e == stored[i]
           x == Shown(e, i)
           new == MakeEvent(x)
           m == Meaning(new)
           o == Meaning(e)
<1>1. /\ x.uid = e.uid /\ x.id = i /\ x.rule = e.rule
      /\ x.start = ToMinute(e.start.at) /\ x.end = ToMinute(e.end.at) /\ x.end # NoTime
  BY DEF Shown, Valid
<1>2. new.raw = Original(x) /\ new.start = Local(x.start) /\ new.end = Local(x.end) /\ new.rule = x.rule
  BY DEF MakeEvent
<1> HIDE DEF x, new
<1>3. Original(x) = e.raw
  <2>1. CASE Same(x) # {}
    <3>1. Min(Same(x)) \in Same(x)
      BY <2>1, SameIs
    <3>2. Min(Same(x)) \in DOMAIN stored /\ stored[Min(Same(x))].uid = e.uid
      BY <1>1, <3>1 DEF Same
    <3>3. Min(Same(x)) = i
      BY <3>2 DEF UniqueUids
    <3> QED
      BY <2>1, <3>3 DEF Original
  <2>2. CASE Same(x) = {}
    BY <1>1, <2>2 DEF Original
  <2> QED
    BY <2>1, <2>2
<1>4. new.raw = e.raw /\ new.start.at = x.start /\ new.end.at = x.end /\ new.rule = e.rule
  BY <1>1, <1>2, <1>3 DEF Local
<1>5. Unseen(new) = Unseen(e)
  BY <1>4, Zenon DEF Unseen
<1>6. ASSUME InMinutes(e) PROVE Times(m) = Times(o) /\ Length(m) = Length(o)
  <2>1. x.start = e.start.at /\ x.end = e.end.at
    BY <1>1, <1>6 DEF InMinutes
  <2>2. Dates(new, "EXDATE") = Dates(e, "EXDATE") /\ Dates(new, "RDATE") = Dates(e, "RDATE")
        /\ FirstDuration(new) = FirstDuration(e)
    BY <1>4, Zenon DEF Dates, FirstDuration
  <2>3. /\ m.start = o.start /\ m.end = o.end /\ m.every = o.every /\ m.count = o.count
        /\ m.raw = o.raw /\ m.end # NoTime
    BY <1>1, <1>4, <2>1, <2>2 DEF Meaning
  <2> HIDE DEF m, o
  <2>4. Times(m) = Times(o)
    BY <2>3 DEF Times
  <2>5. Length(m) = Length(o)
    BY <2>3 DEF Length, Said
  <2> QED
    BY <2>4, <2>5
<1> QED
  BY <1>5, <1>6 DEF m, o, new, x

(* A course the user has not touched keeps every line the page knows       *)
(* nothing of, whatever is moved, removed or added beside it, and when it  *)
(* starts and ends at whole minutes its times and its length.              *)
(* (SavePageScheduleAt, findOriginalEvent.)                                *)
THEOREM UntouchedCoursesAreKept == CalendarSpec => UntouchedAreKept
<1>1. CalendarInv /\ [CalendarNext]_calendarVars =>
        [\A inputs \in Edits(page.inputs) : SavePage(inputs) /\ UniqueUids =>
           \A i \in DOMAIN stored : IsUntouched(i, inputs) =>
             \E k \in DOMAIN stored' :
               /\ Unseen(stored'[k]) = Unseen(stored[i])
               /\ InMinutes(stored[i]) =>
                    /\ Times(Meaning(stored'[k])) = Times(Meaning(stored[i]))
                    /\ Length(Meaning(stored'[k])) = Length(Meaning(stored[i]))]_calendarVars
  <2> SUFFICES ASSUME CalendarInv, NEW inputs \in Edits(page.inputs), SavePage(inputs), UniqueUids,
                      NEW i \in DOMAIN stored, IsUntouched(i, inputs)
               PROVE  \E k \in DOMAIN stored' :
                        /\ Unseen(stored'[k]) = Unseen(stored[i])
                        /\ InMinutes(stored[i]) =>
                             /\ Times(Meaning(stored'[k])) = Times(Meaning(stored[i]))
                             /\ Length(Meaning(stored'[k])) = Length(Meaning(stored[i]))
    BY Zenon
  <2> DEFINE es == [k \in DOMAIN inputs |-> MakeEvent(inputs[k])]
             n == Len(inputs)
  <2>1. stored' = SortEvents(es) /\ \A k \in DOMAIN inputs : Valid(inputs[k])
    BY DEF SavePage, Put
  <2>2. IsStored(stored) /\ IsInputs(inputs)
    BY EditsAre DEF CalendarInv
  <2>3. DOMAIN inputs = 1..n /\ \E order : Sorting(order, es, n)
    BY <2>2, SavedIs
  <2>4. PICK k \in 1..n : inputs[k] = Shown(stored[i], i)
    BY <2>3 DEF IsUntouched
  <2>5. es[k] = MakeEvent(Shown(stored[i], i)) /\ Valid(Shown(stored[i], i))
    BY <2>1, <2>3, <2>4
  <2>6. PICK order : Sorting(order, es, n)
    BY <2>3
  <2> HIDE DEF es
  <2>7. /\ stored' = [j \in 1..n |-> es[order[j]]]
        /\ \E j \in 1..n : order[j] = k
    BY <2>1, <2>6 DEF Sorting
  <2>8. PICK j \in 1..n : order[j] = k
    BY <2>7
  <2>9. j \in DOMAIN stored' /\ stored'[j] = MakeEvent(Shown(stored[i], i))
    BY <2>5, <2>7, <2>8
  <2>10. /\ Unseen(stored'[j]) = Unseen(stored[i])
         /\ InMinutes(stored[i]) =>
              /\ Times(Meaning(stored'[j])) = Times(Meaning(stored[i]))
              /\ Length(Meaning(stored'[j])) = Length(Meaning(stored[i]))
    BY <2>2, <2>5, <2>9, RemadeIs, Zenon
  <2> QED
    BY <2>9, <2>10, Zenon
<1> QED
  BY <1>1, CalendarIsTyped, PTL DEF UntouchedAreKept, CalendarSpec

--------------------------------------------------------------------------------
(* What is written and read again means the same.                          *)
LEMMA FlattenOfAppend ==
  ASSUME NEW V, NEW lists \in Seq(Seq(V)), NEW x \in Seq(V)
  PROVE  FlattenSeq(Append(lists, x)) = FlattenSeq(lists) \o x
<1> DEFINE n == Len(lists)
           more == Append(lists, x)
<1>1. /\ more \in Seq(Seq(V)) /\ Len(more) = n + 1 /\ more[n + 1] = x /\ n \in Nat
      /\ \A i \in 1..n : more[i] = lists[i]
  BY AppendIs
<1> HIDE DEF more
<1>2. PICK f : Flattening(f, lists, V)
  BY FlattenIs
<1>3. PICK g : Flattening(g, more, V)
  BY <1>1, FlattenIs
<1>4. /\ f[0] = <<>> /\ f[n] = FlattenSeq(lists)
      /\ \A i \in 1..n : f[i] = f[i - 1] \o lists[i]
  BY <1>2 DEF Flattening
<1>5. /\ g[0] = <<>> /\ g[n + 1] = FlattenSeq(more)
      /\ \A i \in 1..(n + 1) : g[i] = g[i - 1] \o more[i]
  BY <1>1, <1>3 DEF Flattening
<1> HIDE DEF n
<1> DEFINE S == {i \in 0..n : f[i] = g[i]}
<1>6. 0 \in S
  <2>1. 0 \in 0..n
    BY <1>1
  <2> QED
    BY <1>4, <1>5, <2>1, Zenon
<1>7. ASSUME NEW i \in 1..n, i - 1 \in S PROVE i \in S
  <2>1. i \in 1..(n + 1) /\ more[i] = lists[i] /\ i \in 0..n /\ f[i - 1] = g[i - 1]
    BY <1>1, <1>7
  <2>2. f[i] = g[i]
    BY <1>4, <1>5, <2>1, Zenon
  <2> QED
    BY <2>1, <2>2
<1>8. f[n] = g[n]
  <2>1. n \in 0..n
    BY <1>1
  <2> HIDE DEF S
  <2>2. n \in S
    BY <1>1, <1>6, <1>7, <2>1, AlongIt
  <2> QED
    BY <2>2, Zenon DEF S
<1>9. g[n + 1] = g[n] \o x
  <2>1. n + 1 \in 1..(n + 1) /\ (n + 1) - 1 = n
    BY <1>1
  <2> QED
    BY <1>1, <1>5, <2>1, Zenon
<1> QED
  BY <1>4, <1>5, <1>8, <1>9, Zenon DEF more

LEMMA AllLinesOfAppend ==
  ASSUME NEW U, NEW V, \A l \in U : Inside(l) \in Seq(V), NEW k \in Seq(U), NEW l \in U
  PROVE  AllLines(k) \in Seq(V) /\ AllLines(Append(k, l)) = AllLines(k) \o Inside(l)
<1> DEFINE n == Len(k)
           more == Append(k, l)
           parts == [i \in DOMAIN k |-> Inside(k[i])]
           all == [i \in DOMAIN more |-> Inside(more[i])]
<1>1. n \in Nat /\ DOMAIN k = 1..n /\ \A i \in 1..n : k[i] \in U
  OBVIOUS
<1>2. /\ DOMAIN more = 1..(n + 1) /\ more[n + 1] = l /\ \A i \in 1..n : more[i] = k[i]
  OBVIOUS
<1> HIDE DEF more, n
<1>3. parts \in Seq(Seq(V)) /\ Len(parts) = n /\ \A i \in 1..n : parts[i] = Inside(k[i])
  BY <1>1
<1>4. /\ all \in Seq(Seq(V)) /\ Len(all) = n + 1 /\ all[n + 1] = Inside(l)
      /\ \A i \in 1..n : all[i] = Inside(k[i])
  <2>1. DOMAIN all = 1..(n + 1) /\ all = [i \in 1..(n + 1) |-> all[i]]
    BY <1>2
  <2>2. \A i \in 1..(n + 1) : i = n + 1 \/ i \in 1..n
    BY <1>1
  <2>3. n + 1 \in 1..(n + 1) /\ \A i \in 1..n : i \in 1..(n + 1)
    BY <1>1
  <2>4. all[n + 1] = Inside(l) /\ \A i \in 1..n : all[i] = Inside(k[i])
    BY <1>2, <2>3
  <2> HIDE DEF all
  <2>5. \A i \in 1..(n + 1) : all[i] \in Seq(V)
    <3> SUFFICES ASSUME NEW i \in 1..(n + 1) PROVE all[i] \in Seq(V)
      OBVIOUS
    <3>1. CASE i = n + 1
      BY <2>4, <3>1
    <3>2. CASE i \in 1..n
      <4>1. all[i] = Inside(k[i]) /\ k[i] \in U
        BY <1>1, <2>4, <3>2
      <4> QED
        BY <4>1
    <3> QED
      BY <2>2, <3>1, <3>2
  <2>6. all \in Seq(Seq(V)) /\ Len(all) = n + 1
    <3> DEFINE W == Seq(V)
    <3> HIDE DEF W
    <3>1. n + 1 \in Nat /\ all \in [1..(n + 1) -> W]
      BY <1>1, <2>1, <2>5 DEF W
    <3>2. all \in Seq(W) /\ Len(all) = n + 1
      BY <3>1
    <3> QED
      BY <3>2 DEF W
  <2> QED
    BY <2>4, <2>6, Zenon
<1>5. AllLines(k) = FlattenSeq(parts) /\ AllLines(more) = FlattenSeq(all)
  BY Zenon DEF AllLines
<1> HIDE DEF parts, all
<1> DEFINE x == Inside(l)
<1>6. x \in Seq(V)
  OBVIOUS
<1> HIDE DEF x
<1>7. all = Append(parts, x)
  <2>1. /\ Append(parts, x) \in Seq(Seq(V)) /\ Len(Append(parts, x)) = n + 1
        /\ \A i \in 1..n : Append(parts, x)[i] = parts[i]
        /\ Append(parts, x)[n + 1] = x
    BY <1>3, <1>6, AppendIs
  <2>2. \A i \in 1..(n + 1) : i = n + 1 \/ i \in 1..n
    BY <1>1
  <2>3. \A i \in 1..(n + 1) : all[i] = Append(parts, x)[i]
    BY <1>3, <1>4, <2>1, <2>2 DEF x
  <2> DEFINE got == Append(parts, x)
  <2> HIDE DEF got
  <2>4. all = got
    BY <1>4, <2>1, <2>3, SameList DEF got
  <2> QED
    BY <2>4 DEF got
<1>8. FlattenSeq(Append(parts, x)) = FlattenSeq(parts) \o x
  BY <1>3, <1>6, FlattenOfAppend
<1>9. FlattenSeq(parts) \in Seq(V)
  BY <1>3, FlattenHas
<1> QED
  BY <1>5, <1>7, <1>8, <1>9, Zenon DEF more, x

(* The lines of properties that are not known are those of what is kept.   *)
LEMMA UnseenHave ==
  ASSUME NEW lines, IsLines(lines), NEW p, p \notin Known, NEW some, NEW un,
         some = {l \in ToSet(lines) : l.prop \notin Known}, un = Only(lines, some)
  PROVE  Having(AllLines(lines), p) = Having(AllLines(un), p)
<1> DEFINE n == Len(lines)
           U == ToSet(lines)
           V == ToSet(AllLines(lines))
           ps == {l \in V : l.prop = p}
           parts == [i \in DOMAIN lines |-> Inside(lines[i])]
<1>1. n \in Nat /\ DOMAIN lines = 1..n /\ lines \in Seq(U) /\ \A i \in 1..n : lines[i] \in U
  BY ListHas DEF IsLines, IsList
<1>2. \A l \in U : Inside(l) \in Seq(V)
  <2> SUFFICES ASSUME NEW i \in DOMAIN lines PROVE Inside(lines[i]) \in Seq(V)
    BY DEF ToSet
  <2>1. IsList(Inside(lines[i])) /\ ToSet(Inside(lines[i])) \subseteq V
    BY LinesAre, AllLinesAre
  <2> HIDE DEF V
  <2> QED
    BY <2>1, InListOf DEF IsList
<1> HIDE DEF V, n
<1>3. PICK kept : Keeping(kept, lines, some, U)
  BY <1>1, OnlyIs
<1>4. parts \in Seq(Seq(V)) /\ Len(parts) = n /\ \A i \in 1..n : parts[i] = Inside(lines[i])
  <2>1. \A i \in 1..n : Inside(lines[i]) \in Seq(V)
    BY <1>1, <1>2
  <2>2. parts = [i \in 1..n |-> Inside(lines[i])]
    BY <1>1
  <2> HIDE DEF parts, U
  <2> QED
    BY <1>1, <2>1, <2>2
<1>5. AllLines(lines) = FlattenSeq(parts)
  BY Zenon DEF AllLines
<1> HIDE DEF parts
<1>6. PICK flat : Flattening(flat, parts, V)
  BY <1>4, FlattenIs
<1>7. /\ \A i \in 0..n : flat[i] \in Seq(V)
      /\ flat[0] = <<>> /\ flat[n] = AllLines(lines)
      /\ \A i \in 1..n : flat[i] = flat[i - 1] \o Inside(lines[i])
  BY <1>4, <1>5, <1>6 DEF Flattening
<1>8. /\ \A i \in 0..n : kept[i] \in Seq(U)
      /\ kept[0] = <<>> /\ kept[n] = un
      /\ \A i \in 1..n : lines[i] \in some => kept[i] = Append(kept[i - 1], lines[i])
      /\ \A i \in 1..n : lines[i] \notin some => kept[i] = kept[i - 1]
  BY <1>3 DEF Keeping, n
<1>9. \A i \in 1..n : lines[i] \notin some => lines[i].prop \in Known
  BY <1>1
<1> DEFINE S == {i \in 0..n : AllLines(kept[i]) \in Seq(V) /\ Only(AllLines(kept[i]), ps) = Only(flat[i], ps)}
<1> HIDE DEF U, ps
<1>10. 0 \in S
  <2> DEFINE no == <<>>
  <2>1. AllLines(no) = no /\ no \in Seq(V)
    <3> DEFINE e == [raw |-> no]
    <3>1. e.raw = no
      OBVIOUS
    <3> HIDE DEF e
    <3>2. AllLines(no) = no
      BY <3>1, NothingMeans
    <3>3. no \in Seq(V)
      OBVIOUS
    <3> QED
      BY <3>2, <3>3
  <2>2. 0 \in 0..n
    BY <1>1
  <2>3. AllLines(kept[0]) = flat[0]
    BY <1>7, <1>8, <2>1, Zenon
  <2>4. AllLines(kept[0]) \in Seq(V)
    BY <1>7, <2>2, <2>3
  <2> QED
    BY <2>2, <2>3, <2>4, Zenon
<1>11. ASSUME NEW i \in 1..n, i - 1 \in S PROVE i \in S
  <2> DEFINE k == kept[i - 1]
             l == lines[i]
             f == flat[i - 1]
             x == Inside(l)
  <2>1. i - 1 \in 0..n /\ i \in 0..n
    BY <1>1
  <2>2. k \in Seq(U) /\ l \in U /\ f \in Seq(V) /\ x \in Seq(V)
    BY <1>1, <1>2, <1>7, <1>8, <2>1
  <2>3. AllLines(k) \in Seq(V) /\ Only(AllLines(k), ps) = Only(f, ps)
    BY <1>11
  <2>4. flat[i] = f \o x
    BY <1>7
  <2>5. (l \in some => kept[i] = Append(k, l)) /\ (l \notin some => kept[i] = k)
    BY <1>8
  <2>6. l \notin some => l.prop \in Known
    BY <1>9
  <2> HIDE DEF k, l, f
  <2>7. Only(f \o x, ps) = Only(f, ps) \o Only(x, ps)
    <3> HIDE DEF x
    <3> QED
      BY <2>2, OnlyOfConcat
  <2>8. ASSUME l \in some
        PROVE  AllLines(kept[i]) \in Seq(V) /\ Only(AllLines(kept[i]), ps) = Only(flat[i], ps)
    <3>1. AllLines(Append(k, l)) = AllLines(k) \o x
      BY <1>2, <2>2, AllLinesOfAppend
    <3> HIDE DEF x
    <3>2. AllLines(k) \o x \in Seq(V)
      BY <2>2, <2>3, ConcatIs
    <3>3. Only(AllLines(k) \o x, ps) = Only(AllLines(k), ps) \o Only(x, ps)
      <4> DEFINE a == AllLines(k)
      <4>1. a \in Seq(V) /\ x \in Seq(V)
        BY <2>2, <2>3
      <4> HIDE DEF a
      <4>2. Only(a \o x, ps) = Only(a, ps) \o Only(x, ps)
        BY <4>1, OnlyOfConcat
      <4> QED
        BY <4>2 DEF a
    <3> QED
      BY <2>3, <2>4, <2>5, <2>7, <2>8, <3>1, <3>2, <3>3, Zenon
  <2>9. ASSUME l \notin some
        PROVE  AllLines(kept[i]) \in Seq(V) /\ Only(AllLines(kept[i]), ps) = Only(flat[i], ps)
    <3>1. l.prop \in Known /\ l.prop # "BEGIN" /\ l.prop # p
      <4>1. "BEGIN" \notin Known
        BY DEF Known, Fields
      <4> QED
        BY <2>6, <2>9, <4>1
    <3> DEFINE one == <<l>>
    <3>2. x = one
      BY <3>1 DEF Inside
    <3>3. ToSet(one) = {l}
      BY <2>2, OneIs
    <3> HIDE DEF one, x
    <3>4. ToSet(x) \cap ps = {}
      BY <3>1, <3>2, <3>3 DEF ps
    <3>5. Only(x, ps) = <<>>
      BY <2>2, <3>4, OnlyNone
    <3>6. Only(f, ps) \o <<>> = Only(f, ps)
      BY <2>2, OnlyHas, ConcatEmpty
    <3> QED
      BY <2>3, <2>4, <2>5, <2>7, <2>9, <3>5, <3>6, Zenon
  <2> QED
    BY <2>1, <2>8, <2>9, Zenon
<1>12. AllLines(un) \in Seq(V) /\ Only(AllLines(un), ps) = Only(AllLines(lines), ps)
  <2>1. n \in 0..n
    BY <1>1
  <2> HIDE DEF S
  <2>2. n \in S
    BY <1>1, <1>10, <1>11, <2>1, AlongIt
  <2>3. AllLines(kept[n]) \in Seq(V) /\ Only(AllLines(kept[n]), ps) = Only(flat[n], ps)
    BY <2>2, Zenon DEF S
  <2> QED
    BY <1>7, <1>8, <2>3, Zenon
<1>13. ASSUME NEW list \in Seq(V) PROVE Having(list, p) = Only(list, ps)
  <2> DEFINE those == {l \in ToSet(list) : l.prop = p}
  <2>1. ToSet(list) \subseteq V
    BY ToSetIs
  <2>2. ToSet(list) \cap those = ToSet(list) \cap ps
    BY <2>1 DEF ps
  <2> HIDE DEF those
  <2>3. Only(list, those) = Only(list, ps)
    BY <2>2, OnlyAgrees
  <2> QED
    BY <2>3, Zenon DEF Having, those
<1>14. AllLines(lines) \in Seq(V)
  BY AllLinesAre DEF IsList, V
<1> QED
  BY <1>12, <1>13, <1>14

TwoJoin(V, u, a, b) ==
  \E s \in Seq(V) : (u \o a) \o b = u \o s /\ ToSet(s) = ToSet(a) \cup ToSet(b)

LEMMA JoinNext ==
  ASSUME NEW V, NEW u \in Seq(V), NEW a \in Seq(V), NEW b \in Seq(V)
  PROVE  TwoJoin(V, u, a, b)
<1>1. a \o b \in Seq(V) /\ ToSet(a \o b) = ToSet(a) \cup ToSet(b)
  BY ConcatIs, ToSetConcat
<1>2. (u \o a) \o b = u \o (a \o b)
  BY ConcatThree
<1> QED
  BY <1>1, <1>2, Zenon DEF TwoJoin

Joinable(V, u, a, b, c, d, e) ==
  \E s \in Seq(V) : /\ u \o a \o b \o c \o d \o e = u \o s
                    /\ ToSet(s) = ToSet(a) \cup ToSet(b) \cup ToSet(c) \cup ToSet(d) \cup ToSet(e)

LEMMA FieldsJoin ==
  ASSUME NEW V, NEW u \in Seq(V), NEW a \in Seq(V), NEW b \in Seq(V), NEW c \in Seq(V),
         NEW d \in Seq(V), NEW e \in Seq(V)
  PROVE  Joinable(V, u, a, b, c, d, e)
<1>2. PICK s1 \in Seq(V) : (u \o a) \o b = u \o s1 /\ ToSet(s1) = ToSet(a) \cup ToSet(b)
  <2>1. TwoJoin(V, u, a, b)
    BY JoinNext, Zenon
  <2> QED
    BY <2>1, Zenon DEF TwoJoin
<1>3. PICK s2 \in Seq(V) : (u \o s1) \o c = u \o s2 /\ ToSet(s2) = ToSet(s1) \cup ToSet(c)
  <2>1. TwoJoin(V, u, s1, c)
    BY JoinNext, Zenon
  <2> QED
    BY <2>1, Zenon DEF TwoJoin
<1>4. PICK s3 \in Seq(V) : (u \o s2) \o d = u \o s3 /\ ToSet(s3) = ToSet(s2) \cup ToSet(d)
  <2>1. TwoJoin(V, u, s2, d)
    BY JoinNext, Zenon
  <2> QED
    BY <2>1, Zenon DEF TwoJoin
<1>5. PICK s4 \in Seq(V) : (u \o s3) \o e = u \o s4 /\ ToSet(s4) = ToSet(s3) \cup ToSet(e)
  <2>1. TwoJoin(V, u, s3, e)
    BY JoinNext, Zenon
  <2> QED
    BY <2>1, Zenon DEF TwoJoin
<1>6. u \o a \o b \o c \o d \o e = u \o s4
  BY <1>2, <1>3, <1>4, <1>5, Zenon
<1>7. ToSet(s4) = ToSet(a) \cup ToSet(b) \cup ToSet(c) \cup ToSet(d) \cup ToSet(e)
  BY <1>2, <1>3, <1>4, <1>5, Zenon
<1> QED
  BY <1>6, <1>7, Zenon DEF Joinable

(* What a component holds, and what is read from it again.                 *)
LEMMA ComponentHas ==
  ASSUME NEW e, IsEvent(e)
  PROVE  LET c == Component(e) IN
         /\ Only(c.lines, {l \in ToSet(c.lines) : l.prop \notin Known}) = Unseen(e)
         /\ \A l \in ToSet(c.lines) : l \in ToSet(Unseen(e)) \/ l \in Written(e)
         /\ e.start # NoValue => Line("DTSTART", e.start) \in ToSet(c.lines)
         /\ e.start = NoValue => Line("DTSTART", e.start) \notin ToSet(c.lines)
         /\ e.end # NoValue => Line("DTEND", e.end) \in ToSet(c.lines)
         /\ e.end = NoValue => Line("DTEND", e.end) \notin ToSet(c.lines)
         /\ e.rule # NoRule => Line("RRULE", e.rule) \in ToSet(c.lines)
         /\ e.rule = NoRule => Line("RRULE", e.rule) \notin ToSet(c.lines)
<1> DEFINE W == ToSet(e.raw) \cup Written(e)
           lines == Component(e).lines
           u == Unseen(e)
           one == <<Line("UID", UidOf(e))>>
           g1 == Given("DTSTART", e.start, NoValue)
           g2 == Given("DTEND", e.end, NoValue)
           g3 == Given("RRULE", e.rule, NoRule)
           g4 == Given("SUMMARY", e.title, None)
           some == {l \in ToSet(lines) : l.prop \notin Known}
<1>1. u \in Seq(ToSet(e.raw)) /\ ToSet(u) = {l \in ToSet(e.raw) : l.prop \notin Known}
  BY ComponentIs
<1>2. \A l \in Written(e) : l.prop \in Known
  BY DEF Written, Line, Known, Fields
<1>3. lines = u \o one \o g1 \o g2 \o g3 \o g4
  BY DEF Component, UidOf
<1>4. u \in Seq(W)
  <2> HIDE DEF u
  <2> QED
    BY <1>1, InListOf
<1>5. one \in Seq(W) /\ ToSet(one) = {Line("UID", UidOf(e))}
  BY OneIs DEF Written
<1>6. ASSUME NEW p, NEW v, NEW absent, Line(p, v) \in Written(e)
      PROVE  /\ Given(p, v, absent) \in Seq(W)
             /\ v = absent => ToSet(Given(p, v, absent)) = {}
             /\ v # absent => ToSet(Given(p, v, absent)) = {Line(p, v)}
  <2> DEFINE no == <<>>
             x == <<Line(p, v)>>
  <2>1. no \in Seq(W) /\ ToSet(no) = {}
    BY DEF ToSet
  <2>2. x \in Seq(W) /\ ToSet(x) = {Line(p, v)}
    BY <1>6, OneIs
  <2>3. Given(p, v, absent) = IF v = absent THEN no ELSE x
    BY DEF Given
  <2> HIDE DEF no, x, W
  <2> QED
    BY <2>1, <2>2, <2>3
<1>7. /\ g1 \in Seq(W) /\ g2 \in Seq(W) /\ g3 \in Seq(W) /\ g4 \in Seq(W)
      /\ e.start = NoValue => ToSet(g1) = {}
      /\ e.start # NoValue => ToSet(g1) = {Line("DTSTART", e.start)}
      /\ e.end = NoValue => ToSet(g2) = {}
      /\ e.end # NoValue => ToSet(g2) = {Line("DTEND", e.end)}
      /\ e.rule = NoRule => ToSet(g3) = {}
      /\ e.rule # NoRule => ToSet(g3) = {Line("RRULE", e.rule)}
      /\ ToSet(g4) \subseteq {Line("SUMMARY", e.title)}
  <2>1. /\ Line("DTSTART", e.start) \in Written(e) /\ Line("DTEND", e.end) \in Written(e)
        /\ Line("RRULE", e.rule) \in Written(e) /\ Line("SUMMARY", e.title) \in Written(e)
    BY DEF Written
  <2> HIDE DEF W
  <2>2. g1 \in Seq(W) /\ (e.start = NoValue => ToSet(g1) = {})
        /\ (e.start # NoValue => ToSet(g1) = {Line("DTSTART", e.start)})
    BY <1>6, <2>1, Zenon
  <2>3. g2 \in Seq(W) /\ (e.end = NoValue => ToSet(g2) = {})
        /\ (e.end # NoValue => ToSet(g2) = {Line("DTEND", e.end)})
    BY <1>6, <2>1, Zenon
  <2>4. g3 \in Seq(W) /\ (e.rule = NoRule => ToSet(g3) = {})
        /\ (e.rule # NoRule => ToSet(g3) = {Line("RRULE", e.rule)})
    BY <1>6, <2>1, Zenon
  <2>5. g4 \in Seq(W) /\ (e.title = None => ToSet(g4) = {})
        /\ (e.title # None => ToSet(g4) = {Line("SUMMARY", e.title)})
    BY <1>6, <2>1, Zenon
  <2> HIDE DEF g1, g2, g3, g4
  <2> QED
    BY <2>2, <2>3, <2>4, <2>5
<1> HIDE DEF one, g1, g2, g3, g4, W, u
<1> DEFINE all == ToSet(one) \cup ToSet(g1) \cup ToSet(g2) \cup ToSet(g3) \cup ToSet(g4)
<1>8. PICK fields \in Seq(W) : u \o one \o g1 \o g2 \o g3 \o g4 = u \o fields /\ ToSet(fields) = all
  <2>1. /\ u \in Seq(W) /\ one \in Seq(W) /\ g1 \in Seq(W) /\ g2 \in Seq(W) /\ g3 \in Seq(W)
        /\ g4 \in Seq(W)
    BY <1>4, <1>5, <1>7
  <2>2. Joinable(W, u, one, g1, g2, g3, g4)
    BY <2>1, FieldsJoin, Zenon
  <2> QED
    BY <2>2, Zenon DEF Joinable
<1>9. lines = u \o fields /\ fields \in Seq(W) /\ ToSet(fields) = all
  BY <1>3, <1>8, Zenon
<1>10. all \subseteq Written(e)
  <2>1. {Line("UID", UidOf(e)), Line("DTSTART", e.start), Line("DTEND", e.end), Line("RRULE", e.rule),
         Line("SUMMARY", e.title)} = Written(e)
    BY DEF Written
  <2> QED
    BY <1>5, <1>7, <2>1
<1> HIDE DEF lines
<1>11. ToSet(lines) = ToSet(u) \cup all
  BY <1>4, <1>9, ToSetConcat
<1>12. Only(lines, some) = u
  <2>1. \A l \in ToSet(u) : l.prop \notin Known
    BY <1>1
  <2>2. ToSet(u) \subseteq some
    BY <1>11, <2>1
  <2>3. ToSet(fields) \cap some = {}
    BY <1>2, <1>9, <1>10
  <2> HIDE DEF some
  <2>4. Only(u, some) = u /\ Only(fields, some) = <<>>
    BY <1>4, <1>9, <2>2, <2>3, OnlyAll, OnlyNone
  <2>5. Only(u \o fields, some) = Only(u, some) \o Only(fields, some)
    BY <1>4, <1>9, OnlyOfConcat
  <2>6. u \o <<>> = u
    BY <1>4, ConcatEmpty
  <2> QED
    BY <1>9, <2>4, <2>5, <2>6, Zenon
<1>13. \A l \in ToSet(lines) : l \in ToSet(u) \/ l \in Written(e)
  BY <1>10, <1>11
<1> DEFINE d == Line("DTSTART", e.start)
           f == Line("DTEND", e.end)
           r == Line("RRULE", e.rule)
<1>14. /\ d.prop = "DTSTART" /\ f.prop = "DTEND" /\ r.prop = "RRULE"
       /\ Line("UID", UidOf(e)).prop = "UID" /\ Line("SUMMARY", e.title).prop = "SUMMARY"
       /\ {"DTSTART", "DTEND", "RRULE"} \subseteq Known
  BY DEF Line, Known, Fields
<1>15. /\ e.start # NoValue => d \in ToSet(lines)
       /\ e.end # NoValue => f \in ToSet(lines)
       /\ e.rule # NoRule => r \in ToSet(lines)
  BY <1>7, <1>11
<1>16. d \notin ToSet(u) /\ f \notin ToSet(u) /\ r \notin ToSet(u)
  BY <1>1, <1>14
<1> HIDE DEF d, f, r
<1>17. /\ e.start = NoValue => d \notin all
       /\ e.end = NoValue => f \notin all
       /\ e.rule = NoRule => r \notin all
  <2> DEFINE i == Line("UID", UidOf(e))
             t == Line("SUMMARY", e.title)
  <2>1. i.prop = "UID" /\ t.prop = "SUMMARY" /\ ToSet(one) = {i} /\ ToSet(g4) \subseteq {t}
    BY <1>5, <1>7, <1>14
  <2>2. ToSet(g1) \subseteq {d} /\ ToSet(g2) \subseteq {f} /\ ToSet(g3) \subseteq {r}
    BY <1>7 DEF d, f, r
  <2>3. /\ e.start = NoValue => ToSet(g1) = {}
        /\ e.end = NoValue => ToSet(g2) = {}
        /\ e.rule = NoRule => ToSet(g3) = {}
    BY <1>7
  <2> HIDE DEF i, t
  <2>4. d # i /\ d # f /\ d # r /\ d # t /\ f # i /\ f # r /\ f # t /\ r # i /\ r # t
    BY <1>14, <2>1
  <2> QED
    BY <2>1, <2>2, <2>3, <2>4
<1> QED
  BY <1>11, <1>12, <1>13, <1>15, <1>16, <1>17 DEF lines, u, d, f, r

(* The field of a component is the event's own.                            *)
LEMMA FieldOf ==
  ASSUME NEW e, IsEvent(e), NEW p, NEW v, NEW default, p \in Known,
         \A l \in Written(e) : l.prop = p => l.value = v,
         v # default => Line(p, v) \in ToSet(Component(e).lines)
  PROVE  Field(Component(e).lines, p, default) = v
<1> DEFINE lines == Component(e).lines
           old == {l \in ToSet(e.raw) : l.prop \notin Known}
<1>1. IsLines(lines) /\ ToSet(Unseen(e)) = old
  BY ComponentIs, Zenon
<1>2. \A l \in ToSet(lines) : l \in ToSet(Unseen(e)) \/ l \in Written(e)
  BY ComponentHas, Zenon
<1> HIDE DEF lines
<1>3. \A l \in ToSet(lines) : l.prop = p => l.value = v
  BY <1>1, <1>2
<1>4. \/ Field(lines, p, default) = default /\ Having(lines, p) = <<>>
      \/ /\ Having(lines, p) # <<>>
         /\ \E l \in ToSet(lines) : l.prop = p /\ Field(lines, p, default) = l.value
  BY <1>1, FieldIs
<1>5. CASE \E l \in ToSet(lines) : l.prop = p /\ Field(lines, p, default) = l.value
  <2>1. PICK l \in ToSet(lines) : l.prop = p /\ Field(lines, p, default) = l.value
    BY <1>5, Zenon
  <2>2. l.value = v
    BY <1>3, <2>1, Zenon
  <2> QED
    BY <2>1, <2>2, Zenon DEF lines
<1>6. CASE Field(lines, p, default) = default /\ Having(lines, p) = <<>>
  <2>1. ToSet(Having(lines, p)) = {l \in ToSet(lines) : l.prop = p}
    BY <1>1, HavingIs DEF IsLines
  <2>2. ToSet(Having(lines, p)) = {}
    BY <1>6 DEF ToSet
  <2>3. Line(p, v).prop = p
    BY DEF Line
  <2>4. Line(p, v) \notin ToSet(lines)
    BY <2>1, <2>2, <2>3
  <2> QED
    BY <1>6, <2>4, Zenon DEF lines
<1> QED
  BY <1>4, <1>5, <1>6, Zenon

(* What is read back from the component of an event means what the event   *)
(* means.                                                                  *)
LEMMA RereadIs ==
  ASSUME NEW e, IsEvent(e)
  PROVE  IsEvent(EventOf(Component(e))) /\ Meaning(EventOf(Component(e))) = Meaning(e)
<1> DEFINE lines == Component(e).lines
           r == EventOf(Component(e))
           un == Unseen(e)
           some == {l \in ToSet(lines) : l.prop \notin Known}
           old == {l \in ToSet(e.raw) : l.prop \notin Known}
<1>1. IsLines(lines) /\ un \in Seq(ToSet(e.raw)) /\ ToSet(un) = old
  BY ComponentIs, Zenon
<1>2. /\ Only(lines, some) = un
      /\ \A l \in ToSet(lines) : l \in ToSet(un) \/ l \in Written(e)
      /\ e.start # NoValue => Line("DTSTART", e.start) \in ToSet(lines)
      /\ e.end # NoValue => Line("DTEND", e.end) \in ToSet(lines)
      /\ e.rule # NoRule => Line("RRULE", e.rule) \in ToSet(lines)
  BY ComponentHas, Zenon
<1>3. /\ r.start = Field(lines, "DTSTART", NoValue) /\ r.end = Field(lines, "DTEND", NoValue)
      /\ r.rule = Field(lines, "RRULE", NoRule) /\ r.raw = lines
  BY DEF EventOf
<1>4. IsEvent(r)
  BY <1>1, EventOfIs
<1> HIDE DEF lines, r, un
<1>5. /\ "DTSTART" \in Known /\ "DTEND" \in Known /\ "RRULE" \in Known
      /\ {"EXDATE", "RDATE", "DURATION"} \cap Known = {}
  BY DEF Known, Fields
<1>7. \A l \in Written(e) :
        /\ l.prop = "DTSTART" => l.value = e.start
        /\ l.prop = "DTEND" => l.value = e.end
        /\ l.prop = "RRULE" => l.value = e.rule
  BY DEF Written, Line
<1>9. r.start = e.start
  <2>1. Field(lines, "DTSTART", NoValue) = e.start
    <3>1. e.start # NoValue => Line("DTSTART", e.start) \in ToSet(Component(e).lines)
      BY <1>2, Zenon DEF lines
    <3>2. \A l \in Written(e) : l.prop = "DTSTART" => l.value = e.start
      BY <1>7, Zenon
    <3>3. Field(Component(e).lines, "DTSTART", NoValue) = e.start
      BY <1>5, <3>1, <3>2, FieldOf
    <3> QED
      BY <3>3, Zenon DEF lines
  <2> QED
    BY <1>3, <2>1, Zenon
<1>10. r.end = e.end
  <2>1. Field(lines, "DTEND", NoValue) = e.end
    <3>1. e.end # NoValue => Line("DTEND", e.end) \in ToSet(Component(e).lines)
      BY <1>2, Zenon DEF lines
    <3>2. \A l \in Written(e) : l.prop = "DTEND" => l.value = e.end
      BY <1>7, Zenon
    <3>3. Field(Component(e).lines, "DTEND", NoValue) = e.end
      BY <1>5, <3>1, <3>2, FieldOf
    <3> QED
      BY <3>3, Zenon DEF lines
  <2> QED
    BY <1>3, <2>1, Zenon
<1>11. r.rule = e.rule
  <2>1. Field(lines, "RRULE", NoRule) = e.rule
    <3>1. e.rule # NoRule => Line("RRULE", e.rule) \in ToSet(Component(e).lines)
      BY <1>2, Zenon DEF lines
    <3>2. \A l \in Written(e) : l.prop = "RRULE" => l.value = e.rule
      BY <1>7, Zenon
    <3>3. Field(Component(e).lines, "RRULE", NoRule) = e.rule
      BY <1>5, <3>1, <3>2, FieldOf
    <3> QED
      BY <3>3, Zenon DEF lines
  <2> QED
    BY <1>3, <2>1, Zenon
<1>12. ASSUME NEW p, p \notin Known
       PROVE  Having(AllLines(r.raw), p) = Having(AllLines(e.raw), p)
  <2>1. Having(AllLines(lines), p) = Having(AllLines(un), p)
    BY <1>1, <1>2, <1>12, UnseenHave, Zenon
  <2>2. IsLines(e.raw)
    BY DEF IsEvent
  <2>3. un = Only(e.raw, old)
    BY Zenon DEF un, Unseen
  <2>4. Having(AllLines(e.raw), p) = Having(AllLines(un), p)
    BY <1>12, <2>2, <2>3, UnseenHave, Zenon
  <2> QED
    BY <1>3, <2>1, <2>4, Zenon
<1>13. "EXDATE" \notin Known /\ "RDATE" \notin Known /\ "DURATION" \notin Known
  BY <1>5
<1>14. /\ Dates(r, "EXDATE") = Dates(e, "EXDATE") /\ Dates(r, "RDATE") = Dates(e, "RDATE")
  BY <1>12, <1>13, Zenon DEF Dates
<1>15. FirstDuration(r) = FirstDuration(e)
  <2>1. Having(AllLines(r.raw), "DURATION") = Having(AllLines(e.raw), "DURATION")
    BY <1>12, <1>13, Zenon
  <2> QED
    BY <2>1 DEF FirstDuration
<1>16. Meaning(r) = Meaning(e)
  <2>1. /\ r.start.at = e.start.at /\ r.end.at = e.end.at /\ r.start.form = e.start.form
        /\ r.rule.every = e.rule.every /\ r.rule.count = e.rule.count
    BY <1>9, <1>10, <1>11, Zenon
  <2> QED
    BY <1>14, <1>15, <2>1, Zenon DEF Meaning
<1> QED
  BY <1>4, <1>16, Zenon DEF r

(* The events among what is written are the components of the events, in   *)
(* their order.                                                            *)
LEMMA WrittenEvents ==
  ASSUME NEW base, IsText(base), NEW es, IsStored(es)
  PROVE  VEvents(Serialize(es, base)) = [i \in DOMAIN es |-> Component(es[i])]
<1> DEFINE all == ToSet(Extract(base))
           some == {c \in all : c.name # "VEVENT"}
           others == Only(Extract(base), some)
           n == Len(es)
           new == [i \in DOMAIN es |-> Component(es[i])]
           C == {Component(es[i]) : i \in DOMAIN es}
           W == all \cup C
           t == Serialize(es, base)
           vevents == {c \in ToSet(t) : c.name = "VEVENT"}
<1>1. Extract(base) \in Seq(all)
  BY ExtractIs DEF IsList
<1>2. DOMAIN es = 1..n /\ n \in Nat /\ \A i \in 1..n : Component(es[i]).name = "VEVENT"
  BY ListHas, ComponentIs DEF IsStored
<1>3. others \in Seq(all) /\ ToSet(others) \subseteq some
  <2> HIDE DEF all, some
  <2> QED
    BY <1>1, OnlyHas
<1>4. \A c \in C : c.name = "VEVENT"
  BY <1>2
<1>5. new \in Seq(C)
  <2>1. \A i \in 1..n : new[i] \in C
    BY <1>2
  <2>2. new = [i \in 1..n |-> new[i]]
    BY <1>2
  <2> HIDE DEF C, new, n
  <2> QED
    BY <1>2, <2>1, <2>2
<1>6. t = others \o new /\ IsText(t)
  BY SerializedIs DEF Serialize
<1>7. VEvents(t) = Only(t, vevents)
  BY <1>6, ExtractIs, Zenon
<1>8. \A c \in ToSet(others) : c.name # "VEVENT"
  BY <1>3
<1> HIDE DEF all, some, others, new, C, n, t
<1>9. others \in Seq(W) /\ new \in Seq(W) /\ ToSet(new) \subseteq C
  <2>1. all \subseteq W /\ C \subseteq W
    OBVIOUS
  <2>2. ToSet(new) \subseteq C
    BY <1>5, ToSetIs, Zenon
  <2> HIDE DEF W
  <2>3. others \in Seq(W)
    BY <1>3, <2>1
  <2>4. new \in Seq(W)
    BY <1>5, <2>1
  <2> QED
    BY <2>2, <2>3, <2>4
<1> HIDE DEF W
<1>10. ToSet(t) = ToSet(others) \cup ToSet(new)
  <2>1. others \in Seq(W) /\ new \in Seq(W)
    BY <1>9
  <2>2. ToSet(others \o new) = ToSet(others) \cup ToSet(new)
    BY <2>1, ToSetConcat
  <2> QED
    BY <1>6, <2>2, Zenon
<1>11. ToSet(new) \subseteq vevents /\ ToSet(others) \cap vevents = {}
  BY <1>4, <1>8, <1>9, <1>10
<1> HIDE DEF vevents
<1>12. Only(others, vevents) = <<>> /\ Only(new, vevents) = new
  BY <1>9, <1>11, OnlyNone, OnlyAll
<1>13. Only(others \o new, vevents) = Only(others, vevents) \o Only(new, vevents)
  BY <1>9, OnlyOfConcat
<1>14. <<>> \o new = new
  BY <1>9, ConcatEmpty
<1>15. VEvents(t) = new
  BY <1>6, <1>7, <1>12, <1>13, <1>14, Zenon
<1> QED
  BY <1>15 DEF t, new

(* A text holds events: one and the other are too many, or neither is.     *)
Agree(es, t) ==
  IF Len(es) > MaxEvents THEN TooMany(t)
  ELSE ~TooMany(t) /\ Meanings(ParseICSEvents(t)) = Meanings(es)

(* Events that are sorted are read back as they were written.              *)
LEMMA SerializedRead ==
  ASSUME NEW base, IsText(base), NEW es, IsStored(es), AreSorted(es, Len(es))
  PROVE  Agree(es, Serialize(es, base))
<1> DEFINE n == Len(es)
           new == [i \in DOMAIN es |-> Component(es[i])]
           t == Serialize(es, base)
           read == [i \in DOMAIN VEvents(t) |-> EventOf(VEvents(t)[i])]
           got == [i \in 1..n |-> EventOf(Component(es[i]))]
<1>1. DOMAIN es = 1..n /\ n \in Nat /\ \A i \in 1..n : IsEvent(es[i])
  BY ListHas DEF IsStored
<1>2. VEvents(t) = new
  BY WrittenEvents
<1>3. read = got
  <2>1. DOMAIN new = 1..n /\ \A i \in 1..n : new[i] = Component(es[i])
    BY <1>1
  <2> HIDE DEF new, t, n
  <2> QED
    BY <1>2, <2>1
<1>4. ParseICSEvents(t) = SortEvents(read)
  BY DEF ParseICSEvents
<1> HIDE DEF t, read
<1>5. \A i \in 1..n : IsEvent(got[i]) /\ Meaning(got[i]) = Meaning(es[i])
  <2> SUFFICES ASSUME NEW i \in 1..n PROVE IsEvent(got[i]) /\ Meaning(got[i]) = Meaning(es[i])
    BY Zenon
  <2>1. IsEvent(es[i])
    BY <1>1
  <2>2. got[i] = EventOf(Component(es[i]))
    OBVIOUS
  <2> QED
    BY <2>1, <2>2, RereadIs, Zenon
<1>6. DOMAIN got = 1..n /\ got = [i \in 1..n |-> got[i]]
  OBVIOUS
<1> HIDE DEF got
<1>7. AreRows(got, n)
  BY <1>5, <1>6, MeaningIs DEF AreRows
<1>8. AreSorted(got, n)
  <2> SUFFICES ASSUME NEW i \in 1..n, NEW j \in 1..n, i < j PROVE ~Precedes(got[j], got[i])
    BY DEF AreSorted
  <2>1. ~Precedes(es[j], es[i])
    BY DEF AreSorted
  <2>2. Meaning(got[i]) = Meaning(es[i]) /\ Meaning(got[j]) = Meaning(es[j])
    BY <1>5
  <2>3. Precedes(got[j], got[i]) <=> Precedes(es[j], es[i])
    BY <2>2, Zenon DEF Precedes
  <2> QED
    BY <2>1, <2>3
<1>9. SortEvents(got) = got
  BY <1>1, <1>6, <1>7, <1>8, SortedStays
<1>10. ParseICSEvents(t) = got
  BY <1>3, <1>4, <1>9, Zenon
<1>11. Meanings(got) = Meanings(es)
  BY <1>1, <1>5, <1>6 DEF Meanings
<1>12. Len(VEvents(t)) = n
  <2>1. new = [i \in 1..n |-> new[i]]
    BY <1>1
  <2> HIDE DEF new, n
  <2>2. Len(new) = n
    BY <1>1, <2>1, ListIs, Zenon
  <2> QED
    BY <1>2, <2>2, Zenon
<1>13. TooMany(t) <=> n > MaxEvents
  BY <1>12, Zenon DEF TooMany
<1>14. Meanings(ParseICSEvents(t)) = Meanings(es)
  BY <1>10, <1>11, Zenon
<1> QED
  BY <1>13, <1>14, Zenon DEF t, Agree, n

LEMMA NothingHeld == Agree(<<>>, <<>>)
<1> DEFINE no == <<>>
           vs == VEvents(no)
           es == [i \in DOMAIN vs |-> EventOf(vs[i])]
<1>1. IsText(no) /\ ToSet(no) = {}
  BY NothingStored DEF ToSet
<1>2. no = <<>>
  OBVIOUS
<1> HIDE DEF no
<1>3. vs \in Seq({c \in ToSet(no) : c.name = "VEVENT"})
  BY <1>1, ExtractIs
<1>4. Len(vs) = 0 /\ DOMAIN vs = 1..0
  BY <1>1, <1>3
<1> HIDE DEF vs
<1>5. DOMAIN es = 1..0
  BY <1>4
<1>6. ParseICSEvents(no) = SortEvents(es)
  BY DEF ParseICSEvents, vs
<1> HIDE DEF es
<1>7. IsStored(SortEvents(es)) /\ Len(SortEvents(es)) = 0
  BY <1>5, SortedEvents
<1>8. SortEvents(es) = no
  BY <1>2, <1>7 DEF IsStored, IsList
<1>9. ~(0 > MaxEvents)
  BY BoundsAssumption
<1>10. ~TooMany(no)
  BY <1>4, <1>9, Zenon DEF TooMany, vs
<1>11. Len(no) = 0
  BY <1>2
<1>12. Meanings(ParseICSEvents(no)) = Meanings(no)
  BY <1>6, <1>8, Zenon
<1>13. Agree(no, no)
  BY <1>9, <1>10, <1>11, <1>12, Zenon DEF Agree
<1> QED
  BY <1>2, <1>13, Zenon

LEMMA TextStep == CalendarInv /\ TextHoldsEvents /\ [CalendarNext]_calendarVars => TextHoldsEvents'
<1> SUFFICES ASSUME CalendarInv, TextHoldsEvents, [CalendarNext]_calendarVars
             PROVE  TextHoldsEvents'
  OBVIOUS
<1>0. IsText(text) /\ IsStored(stored) /\ IsInputs(page.inputs)
  BY DEF CalendarInv
<1>1. ASSUME NEW t \in Files, Upload(t) PROVE TextHoldsEvents'
  <2>1. stored' = ParseICSEvents(t) /\ text' = t
    BY <1>1 DEF Upload, Put
  <2>2. IsText(t) /\ ~TooMany(t)
    BY <1>1, FilesAssumption DEF Upload
  <2>3. Len(ParseICSEvents(t)) = Len(VEvents(t))
    BY <2>2, ParsedIs
  <2>4. ~(Len(ParseICSEvents(t)) > MaxEvents)
    BY <2>2, <2>3, Zenon DEF TooMany
  <2>5. Agree(stored', text')
    BY <2>1, <2>2, <2>4, Zenon DEF Agree
  <2> QED
    BY <2>5 DEF TextHoldsEvents, Agree
<1>2. ASSUME NEW s \in Shares, ImportShare(s) PROVE TextHoldsEvents'
  <2> DEFINE es == ShareEvents(s)
  <2>1. stored' = es /\ text' = Serialize(es, <<>>)
    BY <1>2 DEF ImportShare, Put
  <2>2. PICK n \in Nat : /\ es = [i \in 1..n |-> es[i]] /\ \A i \in 1..n : IsEvent(es[i])
                         /\ AreSorted(es, n)
    BY SharesAssumption, ShareEventsAre
  <2> HIDE DEF es
  <2>3. IsStored(es) /\ Len(es) = n
    BY <2>2, ListIs DEF IsStored
  <2>4. AreSorted(es, Len(es))
    BY <2>2, <2>3, Zenon
  <2>5. Agree(es, Serialize(es, <<>>))
    BY <2>3, <2>4, NothingStored, SerializedRead, Zenon
  <2>6. Agree(stored', text')
    BY <2>1, <2>5, Zenon
  <2> QED
    BY <2>6 DEF TextHoldsEvents, Agree
<1>3. CASE ShowPage
  <2>1. text' = text /\ stored' = stored
    BY <1>3 DEF ShowPage
  <2>2. Agree(stored', text')
    BY <2>1, Zenon DEF TextHoldsEvents, Agree
  <2> QED
    BY <2>2 DEF TextHoldsEvents, Agree
<1>4. ASSUME NEW inputs \in Edits(page.inputs), SavePage(inputs) PROVE TextHoldsEvents'
  <2> DEFINE es == [k \in DOMAIN inputs |-> MakeEvent(inputs[k])]
             sorted == SortEvents(es)
             n == Len(inputs)
  <2>1. stored' = sorted /\ text' = Serialize(sorted, text)
    BY <1>4 DEF SavePage, Put
  <2>2. IsInputs(inputs)
    BY <1>0, EditsAre
  <2>3. /\ n \in Nat /\ DOMAIN es = 1..n /\ \A k \in 1..n : IsEvent(es[k])
        /\ \E order : Sorting(order, es, n)
    <3>1. /\ n \in Nat /\ DOMAIN es = 1..n /\ \A k \in DOMAIN es : IsEvent(es[k])
          /\ \E order : Sorting(order, es, n)
      BY <1>0, <2>2, SavedIs
    <3> HIDE DEF es, n
    <3> QED
      BY <3>1
  <2> HIDE DEF es, n
  <2>4. IsStored(sorted) /\ Len(sorted) = n
    BY <2>3, SortedEvents
  <2>5. AreSorted(sorted, n)
    BY <2>3 DEF Sorting
  <2> HIDE DEF sorted
  <2>6. AreSorted(sorted, Len(sorted))
    BY <2>4, <2>5, Zenon
  <2>7. Agree(sorted, Serialize(sorted, text))
    BY <1>0, <2>4, <2>6, SerializedRead, Zenon
  <2>8. Agree(stored', text')
    BY <2>1, <2>7, Zenon
  <2> QED
    BY <2>8 DEF TextHoldsEvents, Agree
<1>5. CASE UNCHANGED calendarVars
  <2>1. text' = text /\ stored' = stored
    BY <1>5 DEF calendarVars
  <2>2. Agree(stored', text')
    BY <2>1, Zenon DEF TextHoldsEvents, Agree
  <2> QED
    BY <2>2 DEF TextHoldsEvents, Agree
<1> QED
  BY <1>1, <1>2, <1>3, <1>4, <1>5 DEF CalendarNext

(* The stored text, imported again, gives the courses that are stored,     *)
(* after any imports and saves; with more than MaxEvents of them, which    *)
(* only a share can bring, it is refused.  (SerializeScheduleICS,          *)
(* ParseICSEvents.)                                                        *)
THEOREM StoredTextHoldsEvents == CalendarSpec => []TextHoldsEvents
<1>1. CalendarInit => TextHoldsEvents
  <2> SUFFICES ASSUME CalendarInit PROVE TextHoldsEvents
    OBVIOUS
  <2>1. text = <<>> /\ stored = <<>>
    BY DEF CalendarInit
  <2> QED
    BY <2>1, NothingHeld, Zenon DEF TextHoldsEvents, Agree
<1>2. CalendarInv /\ TextHoldsEvents /\ [CalendarNext]_calendarVars => TextHoldsEvents'
  BY TextStep
<1> QED
  BY <1>1, <1>2, CalendarIsTyped, PTL DEF CalendarSpec

================================================================================
