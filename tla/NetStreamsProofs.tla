----------------------------- MODULE NetStreamsProofs -----------------------------
(***************************************************************************)
(* Theorems about the streams of Net: a client is told what the server's   *)
(* backend puts on its streams, and it has been told what its own batches  *)
(* did when it is told of their results.                                   *)
(*                                                                         *)
(* What a client has of a stream, what is on the way to it and what the    *)
(* server's backend still holds form one list, the list of what was put    *)
(* on the stream, of which a step moves the joints.                        *)
(***************************************************************************)
EXTENDS NetProofs

-----------------------------------------------------------------------------
(* Functions of sequences that are given by the elements *)

\* Nothing is kept of an empty sequence.
LEMMA ThoseOfNone ==
  ASSUME NEW S
  PROVE  Those(<< >>, S) = << >>
<1>1. << >> \in Seq({}) /\ Len(<< >>) = 0
  BY EmptySeq
<1>2. PICK kept : IsKept(<< >>, {}, S, kept)
  BY <1>1, ThoseDefined
<1>. QED
  BY <1>1, <1>2 DEF IsKept

\* What is kept of a sequence to which an element is appended.
LEMMA ThoseOfAppended ==
  ASSUME NEW T, NEW seq \in Seq(T), NEW e \in T, NEW S
  PROVE  Those(Append(seq, e), S) = IF e \in S THEN Append(Those(seq, S), e) ELSE Those(seq, S)
<1>. DEFINE long == Append(seq, e)
<1>1. /\ long \in Seq(T) /\ Len(seq) \in Nat /\ Len(long) = Len(seq) + 1
      /\ \A i \in 1 .. Len(seq) : long[i] = seq[i]
      /\ long[Len(seq) + 1] = e
  BY Appended, LenProperties
<1>. HIDE DEF long
<1>2. PICK k : IsKept(seq, T, S, k)
  BY ThoseDefined
<1>3. PICK l : IsKept(long, T, S, l)
  BY <1>1, ThoseDefined
<1>. DEFINE N == {n \in Nat : n <= Len(seq) => l[n] = k[n]}
<1>4. 0 \in N
  BY <1>1, <1>2, <1>3 DEF IsKept
<1>5. ASSUME NEW n \in Nat, n \in N PROVE n + 1 \in N
  <2>. SUFFICES ASSUME n + 1 <= Len(seq) PROVE l[n + 1] = k[n + 1]
    OBVIOUS
  <2>1. n + 1 \in 1 .. Len(seq) /\ n + 1 \in 1 .. Len(long) /\ (n + 1) - 1 = n /\ l[n] = k[n]
    BY <1>1, <1>5
  <2>2. k[n + 1] = IF seq[n + 1] \in S THEN Append(k[n], seq[n + 1]) ELSE k[n]
    BY <1>2, <2>1 DEF IsKept
  <2>3. l[n + 1] = IF long[n + 1] \in S THEN Append(l[n], long[n + 1]) ELSE l[n]
    BY <1>3, <2>1 DEF IsKept
  <2>. QED
    BY <1>1, <2>1, <2>2, <2>3
<1>6. l[Len(seq)] = k[Len(seq)]
  <2>1. Len(seq) \in N
    <3>. HIDE DEF N
    <3>. QED
      BY <1>1, <1>4, <1>5, SetInduction
  <2>. QED
    BY <1>1, <2>1
<1>7. Len(seq) + 1 \in 1 .. Len(long) /\ (Len(seq) + 1) - 1 = Len(seq)
  BY <1>1
<1>8. l[Len(seq) + 1] = IF long[Len(seq) + 1] \in S THEN Append(l[Len(seq)], long[Len(seq) + 1]) ELSE l[Len(seq)]
  BY <1>3, <1>7 DEF IsKept
<1>9. Those(long, S) = l[Len(seq) + 1] /\ Those(seq, S) = k[Len(seq)]
  BY <1>1, <1>2, <1>3 DEF IsKept
<1>. QED
  BY <1>1, <1>6, <1>8, <1>9 DEF long

\* Nothing is kept of a sequence none of whose elements is in the set.
LEMMA ThoseOfOthers ==
  ASSUME NEW T, NEW seq \in Seq(T), NEW S, T \cap S = {}
  PROVE  Those(seq, S) = << >>
<1>1. Those(seq, S) \in Seq({})
  BY ThoseType
<1>2. Len(Those(seq, S)) = 0
  <2>1. SUFFICES ASSUME Len(Those(seq, S)) # 0 PROVE FALSE
    OBVIOUS
  <2>2. 1 \in 1 .. Len(Those(seq, S))
    BY <1>1, <2>1, LenProperties
  <2>. QED
    BY <1>1, <2>2, ElementOfSeq
<1>. QED
  BY <1>1, <1>2, EmptySeq

\* The images of the elements of a sequence to which an element is appended.
LEMMA ImagesOfAppended ==
  ASSUME NEW T, NEW U, NEW seq \in Seq(T), NEW e \in T, NEW h \in [T -> U]
  PROVE  /\ [i \in DOMAIN Append(seq, e) |-> h[Append(seq, e)[i]]]
              = Append([i \in DOMAIN seq |-> h[seq[i]]], h[e])
         /\ [i \in DOMAIN seq |-> h[seq[i]]] \in Seq(U)
         /\ Len([i \in DOMAIN seq |-> h[seq[i]]]) = Len(seq)
<1>. DEFINE long == Append(seq, e)
            images == [i \in DOMAIN seq |-> h[seq[i]]]
            new == [i \in DOMAIN long |-> h[long[i]]]
            old == Append(images, h[e])
<1>1. /\ long \in Seq(T) /\ Len(seq) \in Nat /\ Len(long) = Len(seq) + 1
      /\ DOMAIN seq = 1 .. Len(seq) /\ DOMAIN long = 1 .. Len(seq) + 1
      /\ \A i \in 1 .. Len(seq) : long[i] = seq[i] /\ seq[i] \in T
      /\ long[Len(seq) + 1] = e
  <2>1. /\ long \in Seq(T) /\ Len(seq) \in Nat /\ Len(long) = Len(seq) + 1
        /\ \A i \in 1 .. Len(seq) : long[i] = seq[i]
        /\ long[Len(seq) + 1] = e /\ DOMAIN seq = 1 .. Len(seq)
    BY Appended, LenProperties
  <2>2. DOMAIN long = 1 .. Len(long)
    <3>. HIDE DEF long
    <3>. QED
      BY <2>1, LenProperties
  <2>. QED
    BY <2>1, <2>2, ElementOfSeq
<1>. HIDE DEF long
<1>2. h[e] \in U /\ \A i \in 1 .. Len(seq) : h[seq[i]] \in U
  BY <1>1
<1>3. images \in Seq(U) /\ Len(images) = Len(seq) /\ \A i \in 1 .. Len(seq) : images[i] = h[seq[i]]
  BY <1>1, <1>2
<1>. HIDE DEF images
<1>4. /\ old \in Seq(U) /\ Len(old) = Len(seq) + 1
      /\ \A i \in 1 .. Len(seq) : old[i] = h[seq[i]]
      /\ old[Len(seq) + 1] = h[e]
  BY <1>2, <1>3, AppendProperties
<1>. HIDE DEF old
<1>5. \A i \in 1 .. Len(seq) + 1 : new[i] = h[long[i]] /\ h[long[i]] \in U
  BY <1>1, <1>2
<1>6. new \in Seq(U) /\ Len(new) = Len(seq) + 1
  BY <1>1, <1>5
<1>7. \A i \in 1 .. Len(new) : new[i] = old[i]
  BY <1>1, <1>4, <1>5, <1>6
<1>. HIDE DEF new
<1>8. new = old
  BY <1>4, <1>6, <1>7, SeqEqual
<1>. QED
  BY <1>3, <1>8 DEF new, old, images, long

\* A function of the sequences of T which goes through a sequence element by element: g says what
\* an element adds.
ByElements(f, g, T, U) ==
  /\ f \in [Seq(T) -> Seq(U)] /\ g \in [T -> Seq(U)]
  /\ f[<< >>] = << >>
  /\ \A seq \in Seq(T), e \in T : f[Append(seq, e)] = f[seq] \o g[e]

\* A function which goes through two sequences one after the other.
Distributes(f, T) == \A s, t \in Seq(T) : f[s \o t] = f[s] \o f[t]

\* Such a function does.
LEMMA ByElementsConcat ==
  ASSUME NEW T, NEW U, NEW f, NEW g, ByElements(f, g, T, U)
  PROVE  Distributes(f, T)
<1>1. /\ f \in [Seq(T) -> Seq(U)] /\ g \in [T -> Seq(U)]
      /\ f[<< >>] = << >>
      /\ \A seq \in Seq(T), e \in T : f[Append(seq, e)] = f[seq] \o g[e]
  BY DEF ByElements
<1>. DEFINE N == {n \in Nat : \A s, t \in Seq(T) : Len(t) = n => f[s \o t] = f[s] \o f[t]}
<1>2. 0 \in N
  <2>1. ASSUME NEW s \in Seq(T), NEW t \in Seq(T), Len(t) = 0 PROVE f[s \o t] = f[s] \o f[t]
    <3>1. t = << >>
      BY <2>1, EmptySeq
    <3>2. s \o t = s
      BY <3>1, ConcatEmptySeq
    <3>3. f[s] \in Seq(U) /\ f[t] = << >>
      BY <1>1, <3>1
    <3>4. f[s] \o f[t] = f[s]
      BY <3>3, ConcatEmptySeq
    <3>. QED
      BY <3>2, <3>4
  <2>. QED
    BY <2>1
<1>3. ASSUME NEW n \in Nat, n \in N PROVE n + 1 \in N
  <2>1. ASSUME NEW s \in Seq(T), NEW t \in Seq(T), Len(t) = n + 1 PROVE f[s \o t] = f[s] \o f[t]
    <3>1. t # << >>
      BY <2>1, EmptySeq
    <3>2. PICK r \in Seq(T), e \in T : t = Append(r, e)
      BY <3>1, SequenceEmptyOrAppend
    <3>3. Len(r) = n
      BY <2>1, <3>2, AppendProperties, LenProperties
    <3>4. f[s \o r] = f[s] \o f[r]
      BY <1>3, <3>3
    <3>5. s \o t = Append(s \o r, e) /\ s \o r \in Seq(T)
      BY <3>2, ConcatAppended, ConcatProperties
    <3>6. f[s \o t] = f[s \o r] \o g[e] /\ f[t] = f[r] \o g[e]
      BY <1>1, <3>2, <3>5
    <3>7. f[s] \in Seq(U) /\ f[r] \in Seq(U) /\ g[e] \in Seq(U)
      BY <1>1
    <3>8. Associated(f[s], f[r], g[e])
      BY <3>7, Associate
    <3>9. (f[s] \o f[r]) \o g[e] = f[s] \o (f[r] \o g[e])
      BY <3>8 DEF Associated
    <3>. QED
      BY <3>4, <3>6, <3>9
  <2>2. \A s, t \in Seq(T) : Len(t) = n + 1 => f[s \o t] = f[s] \o f[t]
    BY <2>1
  <2>3. n + 1 \in Nat
    OBVIOUS
  <2>. QED
    BY <2>2, <2>3
<1>4. \A n \in Nat : n \in N
  <2>. HIDE DEF N
  <2>. QED
    BY <1>2, <1>3, SetInduction
<1>5. \A t \in Seq(T) : Len(t) \in Nat
  BY LenProperties
<1>6. \A s, t \in Seq(T) : f[s \o t] = f[s] \o f[t]
  BY <1>4, <1>5
<1>. QED
  BY <1>6 DEF Distributes

\* Such a function is given by what an element adds.
LEMMA ByElementsEqual ==
  ASSUME NEW T, NEW U, NEW f, NEW h, NEW g, ByElements(f, g, T, U), ByElements(h, g, T, U)
  PROVE  \A seq \in Seq(T) : f[seq] = h[seq]
<1>1. /\ f[<< >>] = << >> /\ h[<< >>] = << >>
      /\ \A seq \in Seq(T), e \in T : f[Append(seq, e)] = f[seq] \o g[e] /\ h[Append(seq, e)] = h[seq] \o g[e]
  BY DEF ByElements
<1>. DEFINE N == {n \in Nat : \A t \in Seq(T) : Len(t) = n => f[t] = h[t]}
<1>2. 0 \in N
  <2>1. ASSUME NEW t \in Seq(T), Len(t) = 0 PROVE f[t] = h[t]
    <3>1. t = << >>
      BY <2>1, EmptySeq
    <3>. QED
      BY <1>1, <3>1
  <2>. QED
    BY <2>1
<1>3. ASSUME NEW n \in Nat, n \in N PROVE n + 1 \in N
  <2>1. ASSUME NEW t \in Seq(T), Len(t) = n + 1 PROVE f[t] = h[t]
    <3>1. t # << >>
      BY <2>1, EmptySeq
    <3>2. PICK r \in Seq(T), e \in T : t = Append(r, e)
      BY <3>1, SequenceEmptyOrAppend
    <3>3. Len(r) = n
      BY <2>1, <3>2, AppendProperties, LenProperties
    <3>4. f[r] = h[r]
      BY <1>3, <3>3
    <3>. QED
      BY <1>1, <3>2, <3>4
  <2>2. \A t \in Seq(T) : Len(t) = n + 1 => f[t] = h[t]
    BY <2>1
  <2>3. n + 1 \in Nat
    OBVIOUS
  <2>. QED
    BY <2>2, <2>3
<1>4. \A n \in Nat : n \in N
  <2>. HIDE DEF N
  <2>. QED
    BY <1>2, <1>3, SetInduction
<1>. QED
  BY <1>4, LenProperties

\* What a function is on sequences of one element.
OnOne(f, g, T) == \A e \in T : f[<<e>>] = g[e]

\* Such a function on a sequence of one element.
LEMMA ByElementsOne ==
  ASSUME NEW T, NEW U, NEW f, NEW g, ByElements(f, g, T, U)
  PROVE  OnOne(f, g, T)
<1>. SUFFICES ASSUME NEW e \in T PROVE f[<<e>>] = g[e]
  BY DEF OnOne
<1>1. /\ f[<< >>] = << >> /\ g[e] \in Seq(U)
      /\ \A seq \in Seq(T) : f[Append(seq, e)] = f[seq] \o g[e]
  BY DEF ByElements
<1>2. << >> \in Seq(T) /\ Append(<< >>, e) = <<e>>
  <2>1. << >> \in Seq(T)
    BY EmptySeq
  <2>2. Append(<< >>, e) = << >> \o <<e>>
    BY <2>1, AppendIsConcat
  <2>3. <<e>> \in Seq(T)
    OBVIOUS
  <2>. QED
    BY <2>1, <2>2, <2>3, ConcatEmptySeq
<1>3. f[<<e>>] = << >> \o g[e]
  BY <1>1, <1>2
<1>. QED
  BY <1>1, <1>3, ConcatEmptySeq

\* What is kept of a sequence is kept element by element.
LEMMA ThoseByElements ==
  ASSUME NEW T, NEW S
  PROVE  ByElements([seq \in Seq(T) |-> Those(seq, S)], [e \in T |-> IF e \in S THEN <<e>> ELSE << >>], T, T)
<1>1. \A seq \in Seq(T) : Those(seq, S) \in Seq(T)
  BY ThoseType
<1>2. << >> \in Seq(T) /\ Those(<< >>, S) = << >>
  BY EmptySeq, ThoseOfNone
<1>3. ASSUME NEW seq \in Seq(T), NEW e \in T
      PROVE  /\ Append(seq, e) \in Seq(T)
             /\ Those(Append(seq, e), S) = Those(seq, S) \o (IF e \in S THEN <<e>> ELSE << >>)
  <2>1. Those(Append(seq, e), S) = IF e \in S THEN Append(Those(seq, S), e) ELSE Those(seq, S)
    BY ThoseOfAppended
  <2>2. Append(Those(seq, S), e) = Those(seq, S) \o <<e>>
    BY <1>1, AppendIsConcat
  <2>3. Those(seq, S) \o << >> = Those(seq, S)
    BY <1>1, ConcatEmptySeq
  <2>4. Append(seq, e) \in Seq(T)
    BY AppendProperties
  <2>. QED
    BY <2>1, <2>2, <2>3, <2>4
<1>4. \A e \in T : (IF e \in S THEN <<e>> ELSE << >>) \in Seq(T)
  BY <1>2
<1>. QED
  BY <1>1, <1>2, <1>3, <1>4 DEF ByElements

\* The images of what is kept of a sequence are made element by element.
LEMMA ImagesByElements ==
  ASSUME NEW T, NEW U, NEW S, NEW h \in [T \cap S -> U]
  PROVE  ByElements([seq \in Seq(T) |-> [i \in DOMAIN Those(seq, S) |-> h[Those(seq, S)[i]]]],
                    [e \in T |-> IF e \in S THEN <<h[e]>> ELSE << >>], T, U)
<1>. DEFINE images(k) == [i \in DOMAIN k |-> h[k[i]]]
            f == [seq \in Seq(T) |-> images(Those(seq, S))]
            g == [e \in T |-> IF e \in S THEN <<h[e]>> ELSE << >>]
<1>1. ASSUME NEW k \in Seq(T \cap S) PROVE images(k) \in Seq(U) /\ Len(images(k)) = Len(k)
  <2>1. Len(k) \in Nat /\ DOMAIN k = 1 .. Len(k) /\ \A i \in 1 .. Len(k) : k[i] \in T \cap S
    BY LenProperties, ElementOfSeq
  <2>. QED
    BY <2>1
<1>2. images(<< >>) = << >>
  <2>1. << >> \in Seq(T \cap S)
    BY EmptySeq
  <2>2. images(<< >>) \in Seq(U) /\ Len(images(<< >>)) = 0
    BY <1>1, <2>1, EmptySeq
  <2>. HIDE DEF images
  <2>. QED
    BY <2>2, EmptySeq
<1>3. ASSUME NEW k \in Seq(T \cap S), NEW e \in T \cap S
      PROVE  images(Append(k, e)) = Append(images(k), h[e])
  BY ImagesOfAppended
<1>. HIDE DEF images
<1>4. \A seq \in Seq(T) : Those(seq, S) \in Seq(T \cap S)
  BY ThoseType
<1>5. << >> \in Seq(T) /\ << >> \in Seq(U) /\ Those(<< >>, S) = << >>
  BY EmptySeq, ThoseOfNone
<1>6. ASSUME NEW seq \in Seq(T), NEW e \in T
      PROVE  /\ Append(seq, e) \in Seq(T)
             /\ images(Those(Append(seq, e), S)) = images(Those(seq, S)) \o (IF e \in S THEN <<h[e]>> ELSE << >>)
  <2>1. Those(Append(seq, e), S) = IF e \in S THEN Append(Those(seq, S), e) ELSE Those(seq, S)
    BY ThoseOfAppended
  <2>2. Append(seq, e) \in Seq(T) /\ Those(seq, S) \in Seq(T \cap S)
    BY <1>4, AppendProperties
  <2>3. images(Those(seq, S)) \in Seq(U)
    BY <1>1, <2>2
  <2>4. CASE e \in S
    <3>1. images(Those(Append(seq, e), S)) = Append(images(Those(seq, S)), h[e]) /\ h[e] \in U
      BY <1>3, <2>1, <2>2, <2>4
    <3>2. Append(images(Those(seq, S)), h[e]) = images(Those(seq, S)) \o <<h[e]>>
      BY <2>3, <3>1, AppendIsConcat
    <3>. QED
      BY <2>2, <2>4, <3>1, <3>2
  <2>5. CASE e \notin S
    <3>1. images(Those(seq, S)) \o << >> = images(Those(seq, S))
      BY <2>3, ConcatEmptySeq
    <3>. QED
      BY <2>1, <2>2, <2>5, <3>1
  <2>. QED
    BY <2>4, <2>5
<1>7. \A e \in T : (IF e \in S THEN <<h[e]>> ELSE << >>) \in Seq(U)
  BY <1>5
<1>8. \A seq \in Seq(T) : images(Those(seq, S)) \in Seq(U)
  BY <1>1, <1>4
<1>9. f \in [Seq(T) -> Seq(U)] /\ g \in [T -> Seq(U)]
  BY <1>7, <1>8
<1>10. f[<< >>] = << >>
  BY <1>2, <1>5
<1>11. \A seq \in Seq(T), e \in T : f[Append(seq, e)] = f[seq] \o g[e]
  BY <1>6
<1>12. ByElements(f, g, T, U)
  <2>. HIDE DEF f, g
  <2>. QED
    BY <1>9, <1>10, <1>11 DEF ByElements
<1>. QED
  BY <1>12 DEF images

-----------------------------------------------------------------------------
(* The changes in lists of changes and of messages *)

\* The changes a client knows, of those of a list.
LEMMA WithoutClearsParts ==
  /\ WithoutClears(<< >>) = << >>
  /\ \A a \in Seq(Change) : WithoutClears(a) \in Seq(Change)
  /\ \A a, b \in Seq(Change) : WithoutClears(a \o b) = WithoutClears(a) \o WithoutClears(b)
  /\ \A change \in Change : WithoutClears(<<change>>) = IF Knows(change) THEN <<change>> ELSE << >>
<1>. DEFINE S == {change \in Change : Knows(change)}
            f == [a \in Seq(Change) |-> Those(a, S)]
            g == [change \in Change |-> IF change \in S THEN <<change>> ELSE << >>]
<1>1. ByElements(f, g, Change, Change)
  <2>. HIDE DEF S
  <2>. QED
    BY ThoseByElements
<1>2. \A a \in Seq(Change) : WithoutClears(a) = f[a]
  BY DEF WithoutClears
<1>3. \A change \in Change : g[change] = IF Knows(change) THEN <<change>> ELSE << >>
  OBVIOUS
<1>4. \A a, b \in Seq(Change) : a \o b \in Seq(Change)
  BY ConcatProperties
<1>5. << >> \in Seq(Change) /\ \A change \in Change : <<change>> \in Seq(Change)
  BY EmptySeq
<1>. HIDE DEF f, g
<1>6. \A a, b \in Seq(Change) : f[a \o b] = f[a] \o f[b]
  <2>1. Distributes(f, Change)
    BY <1>1, ByElementsConcat
  <2>. QED
    BY <2>1 DEF Distributes
<1>7. \A change \in Change : f[<<change>>] = g[change]
  <2>1. OnOne(f, g, Change)
    BY <1>1, ByElementsOne
  <2>. QED
    BY <2>1 DEF OnOne
<1>8. f[<< >>] = << >> /\ f \in [Seq(Change) -> Seq(Change)]
  BY <1>1 DEF ByElements
<1>9. WithoutClears(<< >>) = << >> /\ \A a \in Seq(Change) : WithoutClears(a) \in Seq(Change)
  BY <1>2, <1>5, <1>8
<1>10. \A a, b \in Seq(Change) : WithoutClears(a \o b) = WithoutClears(a) \o WithoutClears(b)
  BY <1>2, <1>4, <1>6
<1>11. \A change \in Change : WithoutClears(<<change>>) = IF Knows(change) THEN <<change>> ELSE << >>
  BY <1>2, <1>3, <1>5, <1>7
<1>. QED
  BY <1>9, <1>10, <1>11

\* The change a message tells of a stream.
IsChangeOf(reply, id) == reply.op = "stream_change" /\ reply.id = id

\* The changes of a stream, in a list of messages.
LEMMA ChangesInParts ==
  ASSUME NEW id \in Nat
  PROVE  /\ ChangesIn(<< >>, id) = << >>
         /\ \A m \in Seq(Reply) : ChangesIn(m, id) \in Seq(Change)
         /\ \A m, n \in Seq(Reply) : ChangesIn(m \o n, id) = ChangesIn(m, id) \o ChangesIn(n, id)
         /\ \A reply \in Reply :
              ChangesIn(<<reply>>, id) = IF IsChangeOf(reply, id) THEN <<reply.change>> ELSE << >>
<1>. DEFINE S == [op : {"stream_change"}, id : {id}, change : Change]
            h == [reply \in Reply \cap S |-> reply.change]
            f == [m \in Seq(Reply) |-> [i \in DOMAIN Those(m, S) |-> h[Those(m, S)[i]]]]
            g == [reply \in Reply |-> IF reply \in S THEN <<h[reply]>> ELSE << >>]
<1>1. \A reply \in Reply : reply \in S <=> IsChangeOf(reply, id)
  BY DEF Reply, IsChangeOf
<1>2. h \in [Reply \cap S -> Change]
  OBVIOUS
<1>3. ByElements(f, g, Reply, Change)
  <2>. HIDE DEF S, h
  <2>. QED
    BY <1>2, ImagesByElements
<1>4. ASSUME NEW m \in Seq(Reply) PROVE ChangesIn(m, id) = f[m]
  <2>. HIDE DEF h
  <2>1. Those(m, S) \in Seq(Reply \cap S)
    <3>. HIDE DEF S
    <3>. QED
      BY ThoseType
  <2>. DEFINE k == Those(m, S)
  <2>2. \A i \in DOMAIN k : k[i] \in Reply \cap S
    <3>. HIDE DEF S
    <3>. QED
      BY <2>1, LenProperties, ElementOfSeq
  <2>. HIDE DEF k
  <2>3. \A i \in DOMAIN k : h[k[i]] = k[i].change
    <3>. HIDE DEF S
    <3>. QED
      BY <2>2 DEF h
  <2>4. ChangesIn(m, id) = [i \in DOMAIN k |-> k[i].change]
    BY DEF ChangesIn, k
  <2>5. f[m] = [i \in DOMAIN k |-> h[k[i]]]
    BY DEF k
  <2>. QED
    BY <2>3, <2>4, <2>5
<1>5. ASSUME NEW reply \in Reply PROVE g[reply] = IF IsChangeOf(reply, id) THEN <<reply.change>> ELSE << >>
  <2>. HIDE DEF S
  <2>. QED
    BY <1>1
<1>6. \A m, n \in Seq(Reply) : m \o n \in Seq(Reply)
  BY ConcatProperties
<1>7. << >> \in Seq(Reply) /\ \A reply \in Reply : <<reply>> \in Seq(Reply)
  BY EmptySeq
<1>. HIDE DEF f, g
<1>8. \A m, n \in Seq(Reply) : f[m \o n] = f[m] \o f[n]
  <2>1. Distributes(f, Reply)
    BY <1>3, ByElementsConcat
  <2>. QED
    BY <2>1 DEF Distributes
<1>9. \A reply \in Reply : f[<<reply>>] = g[reply]
  <2>1. OnOne(f, g, Reply)
    BY <1>3, ByElementsOne
  <2>. QED
    BY <2>1 DEF OnOne
<1>10. f[<< >>] = << >> /\ f \in [Seq(Reply) -> Seq(Change)]
  BY <1>3 DEF ByElements
<1>. HIDE DEF S, h
<1>11. ChangesIn(<< >>, id) = << >> /\ \A m \in Seq(Reply) : ChangesIn(m, id) \in Seq(Change)
  BY <1>4, <1>7, <1>10
<1>12. \A m, n \in Seq(Reply) : ChangesIn(m \o n, id) = ChangesIn(m, id) \o ChangesIn(n, id)
  BY <1>4, <1>6, <1>8
<1>13. \A reply \in Reply : ChangesIn(<<reply>>, id) = IF IsChangeOf(reply, id) THEN <<reply.change>> ELSE << >>
  BY <1>4, <1>5, <1>7, <1>9
<1>. QED
  BY <1>11, <1>12, <1>13

\* The changes of a stream which its client knows, in a list of messages to it.
Known(messages, id) == WithoutClears(ChangesIn(messages, id))

\* A client knows the changes of its stream part by part.
LEMMA KnownParts ==
  ASSUME NEW id \in Nat
  PROVE  /\ Known(<< >>, id) = << >>
         /\ \A m \in Seq(Reply) : Known(m, id) \in Seq(Change)
         /\ \A m, n \in Seq(Reply) : Known(m \o n, id) = Known(m, id) \o Known(n, id)
         /\ \A reply \in Reply :
              Known(<<reply>>, id) = IF IsChangeOf(reply, id) /\ Knows(reply.change) THEN <<reply.change>> ELSE << >>
<1>1. Known(<< >>, id) = << >>
  BY WithoutClearsParts, ChangesInParts DEF Known
<1>2. ASSUME NEW m \in Seq(Reply) PROVE Known(m, id) \in Seq(Change)
  <2>1. ChangesIn(m, id) \in Seq(Change)
    BY ChangesInParts
  <2>. QED
    BY <2>1, WithoutClearsParts DEF Known
<1>3. ASSUME NEW m \in Seq(Reply), NEW n \in Seq(Reply)
      PROVE  Known(m \o n, id) = Known(m, id) \o Known(n, id)
  <2>1. /\ ChangesIn(m, id) \in Seq(Change) /\ ChangesIn(n, id) \in Seq(Change)
        /\ ChangesIn(m \o n, id) = ChangesIn(m, id) \o ChangesIn(n, id)
    BY ChangesInParts
  <2>. QED
    BY <2>1, WithoutClearsParts DEF Known
<1>4. ASSUME NEW reply \in Reply
      PROVE  Known(<<reply>>, id) = IF IsChangeOf(reply, id) /\ Knows(reply.change) THEN <<reply.change>> ELSE << >>
  <2>1. ChangesIn(<<reply>>, id) = IF IsChangeOf(reply, id) THEN <<reply.change>> ELSE << >>
    BY ChangesInParts
  <2>2. IsChangeOf(reply, id) => reply.change \in Change
    BY DEF IsChangeOf, Reply
  <2>. QED
    BY <2>1, <2>2, WithoutClearsParts DEF Known
<1>. QED
  BY <1>1, <1>2, <1>3, <1>4

\* What a queued change adds to the changes of a stream.
AddsTo(s) == [q \in QueuedChange |-> IF q.stream = s THEN <<q.change>> ELSE << >>]

\* The changes of a stream are found among those of all streams one by one.
LEMMA ChangesOfByElements ==
  ASSUME NEW s \in ServerStreams
  PROVE  ByElements([qs \in Seq(QueuedChange) |-> ChangesOf(s, qs)], AddsTo(s), QueuedChange, Change)
<1>. DEFINE S == [stream : {s}, change : Change]
            h == [q \in QueuedChange \cap S |-> q.change]
            f == [qs \in Seq(QueuedChange) |-> [i \in DOMAIN Those(qs, S) |-> h[Those(qs, S)[i]]]]
            g == [q \in QueuedChange |-> IF q \in S THEN <<h[q]>> ELSE << >>]
<1>1. \A q \in QueuedChange : q \in S <=> q.stream = s
  BY DEF QueuedChange
<1>2. h \in [QueuedChange \cap S -> Change]
  OBVIOUS
<1>3. ByElements(f, g, QueuedChange, Change)
  <2>. HIDE DEF S, h
  <2>. QED
    BY <1>2, ImagesByElements
<1>4. ASSUME NEW qs \in Seq(QueuedChange) PROVE ChangesOf(s, qs) = f[qs]
  <2>. HIDE DEF h
  <2>. DEFINE k == Those(qs, S)
  <2>1. \A i \in DOMAIN k : k[i] \in QueuedChange \cap S
    <3>. HIDE DEF S
    <3>1. k \in Seq(QueuedChange \cap S)
      BY ThoseType
    <3>. HIDE DEF k
    <3>. QED
      BY <3>1, LenProperties, ElementOfSeq
  <2>. HIDE DEF k
  <2>2. \A i \in DOMAIN k : h[k[i]] = k[i].change
    <3>. HIDE DEF S
    <3>. QED
      BY <2>1 DEF h
  <2>3. ChangesOf(s, qs) = [i \in DOMAIN k |-> k[i].change]
    BY DEF ChangesOf, k
  <2>4. f[qs] = [i \in DOMAIN k |-> h[k[i]]]
    BY DEF k
  <2>. QED
    BY <2>2, <2>3, <2>4
<1>5. g = AddsTo(s)
  <2>. HIDE DEF S
  <2>. QED
    BY <1>1 DEF AddsTo
<1>. DEFINE F == [qs \in Seq(QueuedChange) |-> ChangesOf(s, qs)]
<1>6. f = F
  <2>1. f = [qs \in Seq(QueuedChange) |-> f[qs]]
    <3>. HIDE DEF S, h
    <3>. QED
      OBVIOUS
  <2>. HIDE DEF f
  <2>. QED
    BY <1>4, <2>1
<1>. HIDE DEF f, g, F
<1>7. ByElements(F, AddsTo(s), QueuedChange, Change)
  BY <1>3, <1>5, <1>6
<1>. QED
  BY <1>7 DEF F

\* The changes of a stream, in a list of changes.
LEMMA ChangesOfParts ==
  ASSUME NEW s \in ServerStreams
  PROVE  /\ ChangesOf(s, << >>) = << >>
         /\ \A a \in Seq(QueuedChange) : ChangesOf(s, a) \in Seq(Change)
         /\ \A a, b \in Seq(QueuedChange) : ChangesOf(s, a \o b) = ChangesOf(s, a) \o ChangesOf(s, b)
<1>. DEFINE f == [qs \in Seq(QueuedChange) |-> ChangesOf(s, qs)]
<1>1. ByElements(f, AddsTo(s), QueuedChange, Change)
  BY ChangesOfByElements
<1>2. \A a \in Seq(QueuedChange) : ChangesOf(s, a) = f[a]
  OBVIOUS
<1>3. << >> \in Seq(QueuedChange) /\ \A a, b \in Seq(QueuedChange) : a \o b \in Seq(QueuedChange)
  BY EmptySeq, ConcatProperties
<1>. HIDE DEF f
<1>4. \A a, b \in Seq(QueuedChange) : f[a \o b] = f[a] \o f[b]
  <2>1. Distributes(f, QueuedChange)
    BY <1>1, ByElementsConcat
  <2>. QED
    BY <2>1 DEF Distributes
<1>5. f[<< >>] = << >> /\ f \in [Seq(QueuedChange) -> Seq(Change)]
  BY <1>1 DEF ByElements
<1>6. ChangesOf(s, << >>) = << >> /\ \A a \in Seq(QueuedChange) : ChangesOf(s, a) \in Seq(Change)
  BY <1>2, <1>3, <1>5
<1>7. ASSUME NEW a \in Seq(QueuedChange), NEW b \in Seq(QueuedChange)
      PROVE  ChangesOf(s, a \o b) = ChangesOf(s, a) \o ChangesOf(s, b)
  <2>. DEFINE d == a \o b
  <2>1. d \in Seq(QueuedChange)
    BY <1>3
  <2>2. f[d] = f[a] \o f[b]
    BY <1>4
  <2>. HIDE DEF d
  <2>3. ChangesOf(s, d) = f[d] /\ ChangesOf(s, a) = f[a] /\ ChangesOf(s, b) = f[b]
    BY <1>2, <2>1
  <2>4. ChangesOf(s, d) = ChangesOf(s, a) \o ChangesOf(s, b)
    BY <2>2, <2>3
  <2>. QED
    BY <2>4 DEF d
<1>. QED
  BY <1>6, <1>7

\* A stream is opened once.
OpenedOnce ==
  \A s, t \in DOMAIN opened : opened[s].client = opened[t].client /\ opened[s].id = opened[t].id => s = t

\* The messages made of queued changes for a client are made one by one.
LEMMA StreamMessagesByElements ==
  ASSUME NEW c \in Clients, opened \in Seq(OpenedStream), held \subseteq DOMAIN opened
  PROVE  ByElements([qs \in Seq(QueuedChange) |-> StreamMessages(c, qs)],
                    [q \in QueuedChange |-> IF q.stream \in StreamsOf(c)
                                              THEN <<StreamMessage(opened[q.stream].id, q.change)>> ELSE << >>],
                    QueuedChange, Reply)
<1>. DEFINE S == [stream : StreamsOf(c), change : Change]
            m(q) == StreamMessage(opened[q.stream].id, q.change)
            h == [q \in QueuedChange \cap S |-> m(q)]
            f == [qs \in Seq(QueuedChange) |-> [i \in DOMAIN Those(qs, S) |-> h[Those(qs, S)[i]]]]
            g == [q \in QueuedChange |-> IF q \in S THEN <<h[q]>> ELSE << >>]
<1>1. \A q \in QueuedChange : q \in S <=> q.stream \in StreamsOf(c)
  BY DEF QueuedChange
<1>2. h \in [QueuedChange \cap S -> Reply]
  <2>1. ASSUME NEW q \in QueuedChange \cap S PROVE m(q) \in Reply
    <3>1. q.stream \in StreamsOf(c) /\ q.change \in Change
      OBVIOUS
    <3>2. opened[q.stream].id \in Nat
      <4>1. q.stream \in 1 .. Len(opened)
        BY <3>1, LenProperties DEF StreamsOf
      <4>2. opened[q.stream] \in OpenedStream
        BY <4>1, ElementOfSeq
      <4>. QED
        BY <4>2 DEF OpenedStream
    <3>. QED
      BY <3>1, <3>2 DEF StreamMessage, Reply
  <2>. HIDE DEF S, m
  <2>. QED
    BY <2>1
<1>3. ByElements(f, g, QueuedChange, Reply)
  <2>. HIDE DEF S, h
  <2>. QED
    BY <1>2, ImagesByElements
<1>4. ASSUME NEW qs \in Seq(QueuedChange) PROVE StreamMessages(c, qs) = f[qs]
  <2>. HIDE DEF h
  <2>. DEFINE k == Those(qs, S)
  <2>1. \A i \in DOMAIN k : k[i] \in QueuedChange \cap S
    <3>. HIDE DEF S
    <3>1. k \in Seq(QueuedChange \cap S)
      BY ThoseType
    <3>. HIDE DEF k
    <3>. QED
      BY <3>1, LenProperties, ElementOfSeq
  <2>. HIDE DEF k
  <2>2. \A i \in DOMAIN k : h[k[i]] = StreamMessage(opened[k[i].stream].id, k[i].change)
    <3>. HIDE DEF S
    <3>. QED
      BY <2>1 DEF h
  <2>3. StreamMessages(c, qs) = [i \in DOMAIN k |-> StreamMessage(opened[k[i].stream].id, k[i].change)]
    BY DEF StreamMessages, k
  <2>4. f[qs] = [i \in DOMAIN k |-> h[k[i]]]
    BY DEF k
  <2>5. [i \in DOMAIN k |-> StreamMessage(opened[k[i].stream].id, k[i].change)] = [i \in DOMAIN k |-> h[k[i]]]
    BY <2>2, Zenon
  <2>. QED
    BY <2>3, <2>4, <2>5
<1>. DEFINE G == [q \in QueuedChange |-> IF q.stream \in StreamsOf(c)
                                           THEN <<StreamMessage(opened[q.stream].id, q.change)>> ELSE << >>]
            F == [qs \in Seq(QueuedChange) |-> StreamMessages(c, qs)]
<1>5. g = G
  <2>1. \A q \in QueuedChange : q \in S => h[q] = StreamMessage(opened[q.stream].id, q.change)
    <3>. HIDE DEF S
    <3>. QED
      OBVIOUS
  <2>. HIDE DEF S, h
  <2>. QED
    BY <1>1, <2>1
<1>6. f = F
  <2>1. f = [qs \in Seq(QueuedChange) |-> f[qs]]
    <3>. HIDE DEF S, h
    <3>. QED
      OBVIOUS
  <2>. HIDE DEF f
  <2>. QED
    BY <1>4, <2>1
<1>. HIDE DEF f, g, F, G
<1>7. ByElements(F, G, QueuedChange, Reply)
  BY <1>3, <1>5, <1>6
<1>. QED
  BY <1>7 DEF F, G

\* What a client is told of its stream are the changes of that stream.
LEMMA MessagesOfStream ==
  ASSUME NEW c \in Clients, opened \in Seq(OpenedStream), held \subseteq DOMAIN opened, OpenedOnce,
         NEW s \in ServerStreams, s \in StreamsOf(c)
  PROVE  \A qs \in Seq(QueuedChange) : ChangesIn(StreamMessages(c, qs), opened[s].id) = ChangesOf(s, qs)
<1>. DEFINE id == opened[s].id
            M == [qs \in Seq(QueuedChange) |-> StreamMessages(c, qs)]
            G == [q \in QueuedChange |-> IF q.stream \in StreamsOf(c)
                                           THEN <<StreamMessage(opened[q.stream].id, q.change)>> ELSE << >>]
            F == [qs \in Seq(QueuedChange) |-> ChangesIn(StreamMessages(c, qs), id)]
            H == [qs \in Seq(QueuedChange) |-> ChangesOf(s, qs)]
<1>1. s \in DOMAIN opened /\ opened[s].client = c /\ id \in Nat
  <2>1. s \in 1 .. Len(opened) /\ s \in DOMAIN opened /\ opened[s].client = c
    BY LenProperties DEF StreamsOf
  <2>2. opened[s] \in OpenedStream
    BY <2>1, ElementOfSeq
  <2>. QED
    BY <2>1, <2>2 DEF OpenedStream
<1>2. ByElements(M, G, QueuedChange, Reply)
  BY StreamMessagesByElements
<1>3. /\ M \in [Seq(QueuedChange) -> Seq(Reply)] /\ G \in [QueuedChange -> Seq(Reply)] /\ M[<< >>] = << >>
      /\ \A qs \in Seq(QueuedChange), q \in QueuedChange : M[Append(qs, q)] = M[qs] \o G[q]
  <2>. HIDE DEF M, G
  <2>. QED
    BY <1>2 DEF ByElements
<1>4. ASSUME NEW q \in QueuedChange PROVE ChangesIn(G[q], id) = AddsTo(s)[q]
  <2>1. AddsTo(s)[q] = IF q.stream = s THEN <<q.change>> ELSE << >>
    BY DEF AddsTo
  <2>2. CASE q.stream \in StreamsOf(c)
    <3>. DEFINE reply == StreamMessage(opened[q.stream].id, q.change)
    <3>1. q.stream \in DOMAIN opened /\ opened[q.stream].client = c /\ opened[q.stream] \in OpenedStream
      <4>1. q.stream \in DOMAIN opened /\ opened[q.stream].client = c /\ q.stream \in 1 .. Len(opened)
        BY <2>2, LenProperties DEF StreamsOf
      <4>. QED
        BY <4>1, ElementOfSeq
    <3>2. reply \in Reply /\ reply.op = "stream_change" /\ reply.id = opened[q.stream].id /\ reply.change = q.change
      BY <3>1 DEF StreamMessage, Reply, OpenedStream, QueuedChange
    <3>3. G[q] = <<reply>>
      BY <2>2
    <3>4. reply.id = id <=> q.stream = s
      BY <1>1, <3>1, <3>2 DEF OpenedOnce
    <3>. HIDE DEF reply, G
    <3>5. ChangesIn(<<reply>>, id) = IF IsChangeOf(reply, id) THEN <<reply.change>> ELSE << >>
      <4>. HIDE DEF id
      <4>. QED
        BY <1>1, <3>2, ChangesInParts
    <3>. QED
      BY <2>1, <3>2, <3>3, <3>4, <3>5 DEF IsChangeOf
  <2>3. CASE q.stream \notin StreamsOf(c)
    <3>1. G[q] = << >> /\ q.stream # s
      BY <2>3
    <3>2. ChangesIn(<< >>, id) = << >>
      <4>. HIDE DEF id
      <4>. QED
        BY <1>1, ChangesInParts
    <3>. QED
      BY <2>1, <3>1, <3>2
  <2>. QED
    BY <2>2, <2>3
<1>. HIDE DEF id, G
<1>5. << >> \in Seq(QueuedChange)
      /\ \A qs \in Seq(QueuedChange), q \in QueuedChange : Append(qs, q) \in Seq(QueuedChange)
  BY EmptySeq, AppendProperties
<1>6. \A qs \in Seq(QueuedChange) : F[qs] = ChangesIn(M[qs], id)
  OBVIOUS
<1>. HIDE DEF M
<1>7. F \in [Seq(QueuedChange) -> Seq(Change)] /\ AddsTo(s) \in [QueuedChange -> Seq(Change)]
  <2>1. \A qs \in Seq(QueuedChange) : F[qs] \in Seq(Change)
    <3>. HIDE DEF F
    <3>. QED
      BY <1>1, <1>3, <1>6, ChangesInParts
  <2>2. AddsTo(s) \in [QueuedChange -> Seq(Change)]
    BY <1>5, EmptySeq DEF AddsTo, QueuedChange
  <2>3. F = [qs \in Seq(QueuedChange) |-> F[qs]]
    OBVIOUS
  <2>. HIDE DEF F
  <2>. QED
    BY <2>1, <2>2, <2>3
<1>. HIDE DEF F
<1>8. F[<< >>] = << >>
  BY <1>1, <1>3, <1>5, <1>6, ChangesInParts
<1>9. ASSUME NEW qs \in Seq(QueuedChange), NEW q \in QueuedChange PROVE F[Append(qs, q)] = F[qs] \o AddsTo(s)[q]
  <2>1. F[Append(qs, q)] = ChangesIn(M[Append(qs, q)], id) /\ F[qs] = ChangesIn(M[qs], id)
    BY <1>5, <1>6
  <2>2. M[Append(qs, q)] = M[qs] \o G[q] /\ M[qs] \in Seq(Reply) /\ G[q] \in Seq(Reply)
    BY <1>3
  <2>3. ChangesIn(M[qs] \o G[q], id) = ChangesIn(M[qs], id) \o ChangesIn(G[q], id)
    BY <1>1, <2>2, ChangesInParts
  <2>. QED
    BY <1>4, <2>1, <2>2, <2>3
<1>10. ByElements(F, AddsTo(s), QueuedChange, Change)
  BY <1>7, <1>8, <1>9 DEF ByElements
<1>11. ByElements(H, AddsTo(s), QueuedChange, Change)
  BY ChangesOfByElements
<1>12. \A qs \in Seq(QueuedChange) : F[qs] = H[qs]
  <2>. HIDE DEF H
  <2>. QED
    BY <1>10, <1>11, ByElementsEqual
<1>. QED
  BY <1>12 DEF F, id

-----------------------------------------------------------------------------
(* The places of the streams *)

\* The client's numbers of the streams it has opened on the server.
OpenedIds(c) == {opened[s].id : s \in {t \in DOMAIN opened : opened[t].client = c}}

\* The messages on the way from a client are about the streams it has made, and ask to open those
\* which are not open yet; one is removed after its observer has gone.
StreamsFit(messages, n, ids, live) ==
  /\ Numbered(messages, "create_stream")
  /\ \A i \in DOMAIN messages :
       /\ messages[i].op = "create_stream" => messages[i].id \in 1 .. n /\ messages[i].id \notin ids
       /\ messages[i].op = "remove_stream" => messages[i].id \in 1 .. n /\ messages[i].id \notin live

\* A stream is on its way to the server, or it is open there; the change queue keeps those with
\* an observer.
StreamPlaces ==
  \A c \in Clients :
    /\ StreamsFit(OnTheWay(c), Len(streams[c]), OpenedIds(c), connected[c])
    /\ OpenedIds(c) \subseteq 1 .. Len(streams[c])
    /\ connected[c] \subseteq tracked[c]

\* A list which shrinks still fits, and may with more streams made and fewer observed.
LEMMA ShrinksStreamsFit ==
  ASSUME NEW old, NEW new, Shrinks(old, new), NEW n \in Nat, NEW m \in Nat, n <= m,
         NEW ids, NEW live, NEW left, left \subseteq live, StreamsFit(old, n, ids, live)
  PROVE  StreamsFit(new, m, ids, left)
<1>1. PICK k \in Nat : \A i \in DOMAIN new : i \in Nat /\ i + k \in DOMAIN old /\ new[i] = old[i + k]
  BY DEF Shrinks
<1>2. Numbered(new, "create_stream")
  BY ShrinksNumbered DEF StreamsFit
<1>3. ASSUME NEW i \in DOMAIN new
      PROVE  /\ new[i].op = "create_stream" => new[i].id \in 1 .. m /\ new[i].id \notin ids
             /\ new[i].op = "remove_stream" => new[i].id \in 1 .. m /\ new[i].id \notin left
  <2>1. i + k \in DOMAIN old /\ new[i] = old[i + k]
    BY <1>1
  <2>. DEFINE e == old[i + k]
  <2>2. /\ e.op = "create_stream" => e.id \in 1 .. n /\ e.id \notin ids
        /\ e.op = "remove_stream" => e.id \in 1 .. n /\ e.id \notin live
    BY <2>1 DEF StreamsFit
  <2>3. \A j : j \in 1 .. n => j \in 1 .. m
    OBVIOUS
  <2>. HIDE DEF e
  <2>4. new[i] = e
    BY <2>1 DEF e
  <2>. QED
    BY <2>2, <2>3, <2>4
<1>. QED
  BY <1>2, <1>3 DEF StreamsFit

\* A list at whose end a message is put that comes after all others still fits.
LEMMA AppendedStreamsFit ==
  ASSUME NEW S, NEW old \in Seq(S), NEW message \in S, NEW n \in Nat, NEW m \in Nat, n <= m,
         NEW ids, NEW live, NEW left, \A id \in 1 .. n : id \in left => id \in live,
         StreamsFit(old, n, ids, live),
         message.op = "create_stream" => message.id \in (n + 1) .. m /\ message.id \notin ids,
         message.op = "remove_stream" => message.id \in 1 .. m /\ message.id \notin left
  PROVE  StreamsFit(Append(old, message), m, ids, left)
<1>. DEFINE new == Append(old, message)
<1>1. /\ new \in Seq(S) /\ Len(old) \in Nat /\ DOMAIN old = 1 .. Len(old)
      /\ DOMAIN new = DOMAIN old \cup {Len(old) + 1}
      /\ \A i \in 1 .. Len(old) : new[i] = old[i]
      /\ new[Len(old) + 1] = message
  BY Appended, LenProperties
<1>2. Numbered(new, "create_stream")
  <2>1. ASSUME message.op = "create_stream", NEW i \in DOMAIN old, old[i].op = "create_stream"
        PROVE  old[i].id < message.id
    <3>1. old[i].id \in 1 .. n
      BY <2>1 DEF StreamsFit
    <3>. QED
      BY <2>1, <3>1
  <2>2. Numbered(old, "create_stream")
    BY DEF StreamsFit
  <2>. HIDE DEF new
  <2>. QED
    BY <2>1, <2>2, AppendedNumbered DEF new
<1>. HIDE DEF new
<1>3. ASSUME NEW i \in DOMAIN new
      PROVE  /\ new[i].op = "create_stream" => new[i].id \in 1 .. m /\ new[i].id \notin ids
             /\ new[i].op = "remove_stream" => new[i].id \in 1 .. m /\ new[i].id \notin left
  <2>1. CASE i \in DOMAIN old
    <3>1. /\ old[i].op = "create_stream" => old[i].id \in 1 .. n /\ old[i].id \notin ids
          /\ old[i].op = "remove_stream" => old[i].id \in 1 .. n /\ old[i].id \notin live
      BY <2>1 DEF StreamsFit
    <3>2. \A j : j \in 1 .. n => j \in 1 .. m
      OBVIOUS
    <3>3. new[i] = old[i]
      BY <1>1, <2>1
    <3>. QED
      BY <3>1, <3>2, <3>3
  <2>2. CASE i \notin DOMAIN old
    <3>1. new[i] = message
      BY <1>1, <2>2
    <3>2. \A j \in (n + 1) .. m : j \in 1 .. m
      OBVIOUS
    <3>. QED
      BY <3>1, <3>2
  <2>. QED
    BY <2>1, <2>2
<1>. QED
  BY <1>2, <1>3 DEF StreamsFit, new

\* What a client has opened is what it has opened on the server.
LEMMA OpenedStreamIds ==
  ASSUME ServerTypes
  PROVE  /\ opened \in Seq(OpenedStream) /\ DOMAIN opened = 1 .. Len(opened) /\ Len(opened) \in Nat
         /\ \A s \in DOMAIN opened : /\ opened[s] \in OpenedStream
                                     /\ opened[s].client \in Clients /\ opened[s].id \in Nat
                                     /\ opened[s].client \in accepted
                                     /\ opened[s].id \in OpenedIds(opened[s].client)
<1>1. opened \in Seq(OpenedStream)
  BY DEF ServerTypes, ServerTypeOK, OpenedStream
<1>2. DOMAIN opened = 1 .. Len(opened) /\ Len(opened) \in Nat /\ \A s \in DOMAIN opened : opened[s] \in OpenedStream
  BY <1>1, LenProperties, ElementOfSeq
<1>3. \A s \in DOMAIN opened : opened[s].client \in Clients /\ opened[s].id \in Nat /\ opened[s].client \in accepted
  BY <1>2 DEF OpenedStream, ServerTypes, StreamOwners
<1>4. \A s \in DOMAIN opened : opened[s].id \in OpenedIds(opened[s].client)
  BY DEF OpenedIds
<1>. QED
  BY <1>1, <1>2, <1>3, <1>4

\* A client's streams.
LEMMA ClientStreams ==
  ASSUME ClientTypes, NEW c \in Clients
  PROVE  /\ streams[c] \in Seq(Endpoint) /\ Len(streams[c]) \in Nat /\ DOMAIN streams[c] = 1 .. Len(streams[c])
         /\ connected[c] \subseteq DOMAIN streams[c] /\ connected[c] \subseteq StreamIds
<1>1. /\ streams[c] \in Seq(Endpoint)
      /\ connected[c] \subseteq DOMAIN streams[c] /\ connected[c] \subseteq StreamIds
  BY DEF ClientTypes, ClientTypeOK
<1>. QED
  BY <1>1, LenProperties

\* A step that opens no streams.
LEMMA StreamsStay ==
  ASSUME ClientTypes, StreamPlaces, UNCHANGED <<opened, streams, connected>>,
         \A d \in Clients : Shrinks(OnTheWay(d), OnTheWay(d)'),
         \A d \in Clients : connected'[d] \subseteq tracked'[d]
  PROVE  StreamPlaces'
<1>1. \A d \in Clients : OpenedIds(d)' = OpenedIds(d)
  BY DEF OpenedIds
<1>2. ASSUME NEW d \in Clients PROVE StreamsFit(OnTheWay(d)', Len(streams[d]), OpenedIds(d), connected[d])
  <2>1. StreamsFit(OnTheWay(d), Len(streams[d]), OpenedIds(d), connected[d])
    BY DEF StreamPlaces
  <2>2. Shrinks(OnTheWay(d), OnTheWay(d)') /\ Len(streams[d]) \in Nat /\ Len(streams[d]) <= Len(streams[d])
        /\ connected[d] \subseteq connected[d]
    BY ClientStreams
  <2>. QED
    BY <2>1, <2>2, ShrinksStreamsFit
<1>. QED
  BY <1>1, <1>2 DEF StreamPlaces

\* What the main thread does with streams.
LEMMA MainThreadStreams ==
  ASSUME ClientTypes, WritesInv, StreamPlaces, NEW c \in Clients, MainThread(c), UNCHANGED serverVars
  PROVE  StreamPlaces'
<1>. USE DEF wireVars, commVars, taskVars, streamVars
<1>a. opened' = opened /\ \A d \in Clients : OpenedIds(d)' = OpenedIds(d)
  BY DEF serverVars, backendVars, OpenedIds
<1>b. OnTheWay(c) \in Seq(Posted)
  BY WayType
<1>c. ASSUME NEW d \in Clients
      PROVE  /\ Len(streams[d]) \in Nat /\ DOMAIN streams[d] = 1 .. Len(streams[d])
             /\ connected[d] \subseteq 1 .. Len(streams[d])
             /\ StreamsFit(OnTheWay(d), Len(streams[d]), OpenedIds(d), connected[d])
             /\ OpenedIds(d) \subseteq 1 .. Len(streams[d])
             /\ connected[d] \subseteq tracked[d]
  BY ClientStreams DEF StreamPlaces
<1>1. ASSUME UNCHANGED <<link, toServer, writing, unsubmitted, posted, streams, connected>>,
             \A d \in Clients : connected[d] \subseteq tracked'[d]
      PROVE  StreamPlaces'
  <2>1. \A d \in Clients : Shrinks(OnTheWay(d), OnTheWay(d)')
    BY <1>1, LostWay, SameWay
  <2>. QED
    BY <1>1, <1>a, <2>1, StreamsStay
<1>2. ASSUME NEW message \in Posted, Post(c, message), UNCHANGED <<link, toServer, writing, unsubmitted>>,
             NEW m \in Nat, Len(streams[c]) <= m, Len(streams'[c]) = m,
             \A id \in 1 .. Len(streams[c]) : id \in connected'[c] => id \in connected[c],
             message.op = "create_stream" => message.id \in (Len(streams[c]) + 1) .. m,
             message.op = "remove_stream" => message.id \in 1 .. m /\ message.id \notin connected'[c],
             connected'[c] \subseteq tracked'[c],
             \A d \in Clients \ {c} : streams'[d] = streams[d] /\ connected'[d] = connected[d] /\ tracked'[d] = tracked[d]
      PROVE  StreamPlaces'
  <2>1. /\ Shrinks(Append(OnTheWay(c), message), OnTheWay(c)')
        /\ \A d \in Clients : d # c => OnTheWay(d)' = OnTheWay(d)
    BY <1>2, PostedWay
  <2>. DEFINE n == Len(streams[c])
  <2>2. n \in Nat /\ OpenedIds(c) \subseteq 1 .. n /\ StreamsFit(OnTheWay(c), n, OpenedIds(c), connected[c])
    BY <1>c
  <2>3. \A id \in (n + 1) .. m : id \notin OpenedIds(c)
    BY <2>2
  <2>4. /\ n <= m /\ \A id \in 1 .. n : id \in connected'[c] => id \in connected[c]
        /\ message.op = "create_stream" => message.id \in (n + 1) .. m
    BY <1>2
  <2>. HIDE DEF n
  <2>5. StreamsFit(Append(OnTheWay(c), message), m, OpenedIds(c), connected'[c])
    BY <1>2, <1>b, <2>2, <2>3, <2>4, AppendedStreamsFit
  <2>6. StreamsFit(OnTheWay(c)', m, OpenedIds(c), connected'[c])
    <3>1. m <= m /\ connected'[c] \subseteq connected'[c]
      OBVIOUS
    <3>. QED
      BY <2>1, <2>5, <3>1, ShrinksStreamsFit
  <2>7. OpenedIds(c) \subseteq 1 .. m
    BY <2>2, <2>4
  <2>8. ASSUME NEW d \in Clients
        PROVE  /\ StreamsFit(OnTheWay(d)', Len(streams'[d]), OpenedIds(d), connected'[d])
               /\ OpenedIds(d) \subseteq 1 .. Len(streams'[d])
               /\ connected'[d] \subseteq tracked'[d]
    <3>1. CASE d = c
      BY <1>2, <2>6, <2>7, <3>1
    <3>2. CASE d # c
      <4>1. OnTheWay(d)' = OnTheWay(d) /\ streams'[d] = streams[d] /\ connected'[d] = connected[d] /\ tracked'[d] = tracked[d]
        BY <1>2, <2>1, <3>2
      <4>. QED
        BY <1>c, <4>1
    <3>. QED
      BY <3>1, <3>2
  <2>. QED
    BY <1>a, <2>8 DEF StreamPlaces
<1>3. ASSUME NEW batch \in Batches, QueueOperations(c, batch) PROVE StreamPlaces'
  BY <1>1, <1>3, <1>c DEF QueueOperations
<1>4. ASSUME NEW message \in Posted, Post(c, message), UNCHANGED <<link, toServer, writing, unsubmitted, streamVars>>,
             message.op \notin {"create_stream", "remove_stream"}
      PROVE  StreamPlaces'
  <2>1. Len(streams[c]) \in Nat /\ Len(streams[c]) <= Len(streams[c]) /\ connected[c] \subseteq tracked[c]
    BY <1>c
  <2>. QED
    BY <1>2, <1>4, <2>1
<1>5. CASE SubmitOperations(c)
  <2>. DEFINE id == Len(futures[c])
              message == ScheduleOperations(id, futures[c][id].batch)
  <2>1. message \in Posted
    <3>. DEFINE F == [batch : Seq(Operation), ready : BOOLEAN, value : Seq(Status)]
    <3>1. futures[c] \in Seq(F) /\ futures[c] # << >>
      BY <1>5 DEF ClientTypes, ClientTypeOK, Emplacing, SubmitOperations
    <3>2. id \in Nat /\ futures[c][id] \in F
      <4>. HIDE DEF F
      <4>1. id \in Nat /\ id \in 1 .. Len(futures[c])
        BY <3>1, EmptySeq
      <4>. QED
        BY <3>1, <4>1, ElementOfSeq
    <3>. QED
      BY <3>2 DEF ScheduleOperations, Posted, Request
  <2>2. Post(c, message) /\ UNCHANGED <<link, toServer, writing, unsubmitted, streamVars>>
    BY <1>5 DEF SubmitOperations
  <2>3. message.op = "schedule_operations"
    BY DEF ScheduleOperations
  <2>. HIDE DEF message
  <2>. QED
    BY <1>4, <2>1, <2>2, <2>3
<1>6. ASSUME NEW e \in Endpoints, CreateStream(c, e) PROVE StreamPlaces'
  <2>. DEFINE n == Len(streams[c])
              message == CreateStreamMessage(n + 1, e)
  <2>1. n \in Nat /\ e \in Endpoint /\ streams[c] \in Seq(Endpoint)
    BY NetAssumption, ClientStreams
  <2>2. message \in Posted /\ message.op = "create_stream" /\ message.id = n + 1
    BY <2>1 DEF CreateStreamMessage, Posted, Request
  <2>3. /\ Post(c, message) /\ UNCHANGED <<link, toServer, writing, unsubmitted>>
        /\ streams' = [streams EXCEPT ![c] = Append(@, e)]
        /\ connected' = [connected EXCEPT ![c] = @ \cup {n + 1}]
        /\ tracked' = [tracked EXCEPT ![c] = @ \cup {n + 1}]
    BY <1>6 DEF CreateStream
  <2>4. /\ DOMAIN streams = Clients /\ DOMAIN connected = Clients /\ DOMAIN tracked = Clients
    BY DEF ClientTypes, ClientTypeOK
  <2>5. /\ streams'[c] = Append(streams[c], e) /\ connected'[c] = connected[c] \cup {n + 1}
        /\ tracked'[c] = tracked[c] \cup {n + 1}
        /\ \A d \in Clients \ {c} : streams'[d] = streams[d] /\ connected'[d] = connected[d] /\ tracked'[d] = tracked[d]
    BY <2>3, <2>4
  <2>6. Len(streams'[c]) = n + 1
    BY <2>1, <2>5, AppendProperties
  <2>7. /\ n + 1 \in Nat /\ n <= n + 1 /\ \A id \in 1 .. n : id \in connected'[c] => id \in connected[c]
        /\ n + 1 \in (n + 1) .. (n + 1)
    BY <2>1, <2>5
  <2>8. connected'[c] \subseteq tracked'[c]
    BY <1>c, <2>5
  <2>. HIDE DEF message
  <2>. QED
    BY <1>2, <2>2, <2>3, <2>5, <2>6, <2>7, <2>8
<1>7. ASSUME NEW s \in StreamIds, ResetHandle(c, s) PROVE StreamPlaces'
  <2>. DEFINE n == Len(streams[c])
              message == RemoveStreamMessage(s)
  <2>1. n \in Nat /\ s \in connected[c] /\ s \in 1 .. n
    BY <1>7, <1>c DEF ResetHandle
  <2>2. message \in Posted /\ message.op = "remove_stream" /\ message.id = s
    BY <2>1 DEF RemoveStreamMessage, Posted, Request
  <2>3. /\ Post(c, message) /\ UNCHANGED <<link, toServer, writing, unsubmitted, streams, tracked>>
        /\ connected' = [connected EXCEPT ![c] = @ \ {s}]
    BY <1>7 DEF ResetHandle
  <2>4. /\ connected'[c] = connected[c] \ {s}
        /\ \A d \in Clients \ {c} : connected'[d] = connected[d]
    BY <2>3 DEF ClientTypes, ClientTypeOK
  <2>5. connected'[c] \subseteq tracked'[c]
    BY <1>c, <2>3, <2>4
  <2>6. n <= n /\ Len(streams'[c]) = n
    BY <2>1, <2>3
  <2>. HIDE DEF message
  <2>. QED
    BY <1>2, <2>1, <2>2, <2>3, <2>4, <2>5, <2>6
<1>8. CASE ApplyStreamChanges(c)
  <2>1. UNCHANGED <<link, toServer, writing, unsubmitted, posted, streams, connected>>
        /\ tracked' = [tracked EXCEPT ![c] = @ \cap connected[c]]
    BY <1>8 DEF ApplyStreamChanges
  <2>2. \A d \in Clients : connected[d] \subseteq tracked'[d]
    BY <1>c, <2>1 DEF ClientTypes, ClientTypeOK
  <2>. QED
    BY <1>1, <2>1, <2>2
<1>9. CASE Join(c)
  BY <1>1, <1>9, <1>c DEF Join
<1>10. CASE Stop(c)
  <2>. DEFINE message == [op |-> "close"]
  <2>1. message \in Posted /\ message.op = "close"
    BY DEF Posted
  <2>2. Post(c, message) /\ UNCHANGED <<link, toServer, writing, unsubmitted, streamVars>>
    BY <1>10 DEF Stop
  <2>. HIDE DEF message
  <2>. QED
    BY <1>4, <2>1, <2>2
<1>. QED
  BY <1>3, <1>5, <1>6, <1>7, <1>8, <1>9, <1>10 DEF MainThread

\* What is opened comes before what is on the way to be opened, and once.
LEMMA OpeningStreams ==
  ASSUME ClientTypes, ServerTypes, WritesInv, StreamPlaces, OpenedOnce, NEW c \in Clients, RunCreateStream(c),
         UNCHANGED clientVars
  PROVE  /\ StreamPlaces' /\ OpenedOnce'
         /\ \A s \in DOMAIN opened : s \in DOMAIN opened' /\ opened'[s] = opened[s]
         /\ \A s \in DOMAIN opened' : s \notin DOMAIN opened =>
              s = Len(opened) + 1 /\ opened'[s].client = c /\ opened'[s].id \notin OpenedIds(c)
         /\ \A d \in Clients : OpenedIds(d) \subseteq OpenedIds(d)'
<1>. DEFINE h == Head(toServer[c])
            new == [client |-> c, id |-> h.id, endpoint |-> h.endpoint]
            t == IF link[c] \in {"connecting", "open"} THEN Waiting(c) \o posted[c] ELSE << >>
<1>1. /\ toServer \in [Clients -> Seq(Request)] /\ toServer[c] # << >> /\ h.op = "create_stream"
      /\ toServer'[c] = Tail(toServer[c]) /\ \A d \in Clients \ {c} : toServer'[d] = toServer[d]
      /\ UNCHANGED <<link, writing, unsubmitted, posted, streams, connected, tracked>>
      /\ opened' = Append(opened, new)
  BY DEF RunCreateStream, Reads, ClientTypes, WireTypeOK, clientVars, commVars, streamVars
<1>2. /\ opened \in Seq(OpenedStream) /\ DOMAIN opened = 1 .. Len(opened) /\ Len(opened) \in Nat
      /\ \A s \in DOMAIN opened : opened[s].client \in Clients
  BY OpenedStreamIds
<1>3. /\ toServer[c] \in Seq(Posted) /\ t \in Seq(Posted)
      /\ OnTheWay(c) = toServer[c] \o t /\ OnTheWay(c)' = Tail(toServer[c]) \o t
  BY <1>1, WayType, EmptySeq DEF OnTheWay, Waiting
<1>4. h \in Request /\ h.id \in Nat /\ new \in OpenedStream
  <2>1. h \in Request
    BY <1>1, HeadTailProperties
  <2>2. h.id \in Nat /\ h.endpoint \in Endpoint
    BY <1>1, <2>1 DEF Request
  <2>. QED
    BY <2>1, <2>2 DEF OpenedStream
<1>5. /\ OnTheWay(c)[1] = h /\ 1 \in DOMAIN OnTheWay(c)
      /\ \A i \in DOMAIN OnTheWay(c)' : /\ i + 1 \in DOMAIN OnTheWay(c) /\ OnTheWay(c)'[i] = OnTheWay(c)[i + 1]
                                        /\ i \in Nat \ {0}
      /\ Shrinks(OnTheWay(c), OnTheWay(c)')
  <2>. DEFINE s == toServer[c]
              way == OnTheWay(c)
              rest == OnTheWay(c)'
  <2>1. s \in Seq(Posted) /\ s # << >> /\ t \in Seq(Posted) /\ h = Head(s)
        /\ way = s \o t /\ rest = Tail(s) \o t
    BY <1>1, <1>3
  <2>. HIDE DEF t, s, h, way, rest
  <2>2. /\ Shrinks(s \o t, Tail(s) \o t)
        /\ (s \o t)[1] = Head(s) /\ DOMAIN (s \o t) = 1 .. Len(s \o t) /\ Len(s \o t) \in Nat \ {0}
        /\ \A i \in DOMAIN (Tail(s) \o t) : i + 1 \in DOMAIN (s \o t) /\ (Tail(s) \o t)[i] = (s \o t)[i + 1]
                                            /\ i \in Nat \ {0}
    BY <2>1, RestShrinks
  <2>3. /\ way[1] = h /\ 1 \in DOMAIN way
        /\ \A i \in DOMAIN rest : i + 1 \in DOMAIN way /\ rest[i] = way[i + 1] /\ i \in Nat \ {0}
        /\ Shrinks(way, rest)
    <3>1. way[1] = h /\ DOMAIN way = 1 .. Len(way) /\ Len(way) \in Nat \ {0}
      BY <2>1, <2>2
    <3>2. /\ \A i \in DOMAIN rest : i + 1 \in DOMAIN way /\ rest[i] = way[i + 1] /\ i \in Nat \ {0}
          /\ Shrinks(way, rest)
      BY <2>1, <2>2
    <3>. QED
      BY <3>1, <3>2
  <2>. QED
    BY <2>3 DEF way, rest
<1>6. \A d \in Clients \ {c} : OnTheWay(d)' = OnTheWay(d)
  BY <1>1, SameWay
<1>7. new.client = c /\ new.id = h.id
  OBVIOUS
<1>. HIDE DEF h, new, t
<1>8. /\ DOMAIN opened' = DOMAIN opened \cup {Len(opened) + 1}
      /\ \A s \in DOMAIN opened : opened'[s] = opened[s]
      /\ opened'[Len(opened) + 1] = new
      /\ Len(opened) + 1 \notin DOMAIN opened
  BY <1>1, <1>2, <1>4, Appended
<1>9. /\ StreamsFit(OnTheWay(c), Len(streams[c]), OpenedIds(c), connected[c])
      /\ OpenedIds(c) \subseteq 1 .. Len(streams[c])
      /\ Len(streams[c]) \in Nat
  BY ClientStreams DEF StreamPlaces
<1>10. h.id \in 1 .. Len(streams[c]) /\ h.id \notin OpenedIds(c)
  BY <1>1, <1>5, <1>9 DEF StreamsFit
<1>11. ASSUME NEW d \in Clients PROVE OpenedIds(d)' = IF d = c THEN OpenedIds(c) \cup {h.id} ELSE OpenedIds(d)
  BY <1>7, <1>8 DEF OpenedIds
<1>12. StreamPlaces'
  <2>1. StreamsFit(OnTheWay(c)', Len(streams[c]), OpenedIds(c), connected[c])
    <3>1. Len(streams[c]) <= Len(streams[c]) /\ connected[c] \subseteq connected[c]
      BY <1>9
    <3>. QED
      BY <1>5, <1>9, <3>1, ShrinksStreamsFit
  <2>2. ASSUME NEW i \in DOMAIN OnTheWay(c)', OnTheWay(c)'[i].op = "create_stream" PROVE OnTheWay(c)'[i].id # h.id
    <3>1. i + 1 \in DOMAIN OnTheWay(c) /\ OnTheWay(c)'[i] = OnTheWay(c)[i + 1] /\ 1 < i + 1
      BY <1>5
    <3>2. h.id < OnTheWay(c)'[i].id
      <4>1. Numbered(OnTheWay(c), "create_stream")
        BY <1>9 DEF StreamsFit
      <4>. QED
        BY <1>1, <1>5, <2>2, <3>1, <4>1 DEF Numbered
    <3>3. h.id \in Nat
      BY <1>4
    <3>. QED
      BY <3>2, <3>3
  <2>3. StreamsFit(OnTheWay(c)', Len(streams[c]), OpenedIds(c) \cup {h.id}, connected[c])
    BY <2>1, <2>2 DEF StreamsFit
  <2>4. ASSUME NEW d \in Clients
        PROVE  /\ StreamsFit(OnTheWay(d)', Len(streams[d]), OpenedIds(d)', connected[d])
               /\ OpenedIds(d)' \subseteq 1 .. Len(streams[d])
               /\ connected[d] \subseteq tracked[d]
    <3>1. CASE d = c
      BY <1>9, <1>10, <1>11, <2>3, <3>1 DEF StreamPlaces
    <3>2. CASE d # c
      BY <1>6, <1>11, <3>2 DEF StreamPlaces
    <3>. QED
      BY <3>1, <3>2
  <2>. QED
    BY <1>1, <2>4 DEF StreamPlaces
<1>13. OpenedOnce'
  <2>1. ASSUME NEW s \in DOMAIN opened', NEW u \in DOMAIN opened', s # u,
               opened'[s].client = opened'[u].client, opened'[s].id = opened'[u].id
        PROVE  FALSE
    <3>1. ASSUME NEW v \in DOMAIN opened, opened[v].client = c PROVE opened[v].id # h.id
      BY <1>10, <3>1 DEF OpenedIds
    <3>2. CASE s = Len(opened) + 1
      BY <1>7, <1>8, <2>1, <3>1, <3>2
    <3>3. CASE u = Len(opened) + 1
      BY <1>7, <1>8, <2>1, <3>1, <3>3
    <3>4. CASE s # Len(opened) + 1 /\ u # Len(opened) + 1
      <4>1. s \in DOMAIN opened /\ u \in DOMAIN opened /\ opened'[s] = opened[s] /\ opened'[u] = opened[u]
        BY <1>8, <3>4
      <4>. QED
        BY <2>1, <4>1 DEF OpenedOnce
    <3>. QED
      BY <3>2, <3>3, <3>4
  <2>. QED
    BY <2>1 DEF OpenedOnce
<1>14. \A s \in DOMAIN opened' : s \notin DOMAIN opened =>
         s = Len(opened) + 1 /\ opened'[s].client = c /\ opened'[s].id \notin OpenedIds(c)
  BY <1>7, <1>8, <1>10
<1>15. \A d \in Clients : OpenedIds(d) \subseteq OpenedIds(d)'
  BY <1>11
<1>. QED
  BY <1>8, <1>12, <1>13, <1>14, <1>15

\* The streams open on the server stay so, and others are opened when a message asks for it.
LEMMA OpenedStays ==
  ASSUME [Next]_vars, ~(\E c \in Clients : RunCreateStream(c) /\ UNCHANGED clientVars)
  PROVE  opened' = opened
<1>1. CASE Client
  BY <1>1 DEF Client, serverVars, backendVars
<1>2. CASE Server
  <2>1. UNCHANGED clientVars
    BY <1>2 DEF Server
  <2>2. ASSUME NEW c \in Clients,
               \/ Accept(c) \/ RunRemoveStream(c) \/ RunScheduleOperations(c)
               \/ SessionReadFails(c) \/ SessionWriteDone(c) \/ SessionWriteFails(c)
        PROVE  opened' = opened
    BY <2>2 DEF Accept, RunRemoveStream, RunScheduleOperations, SessionReadFails, SessionWriteDone, SessionWriteFails,
                backendVars
  <2>3. ASSUME RunApply \/ RunAnswer \/ RunCloseServer \/ StopServer \/ ServiceEnds \/ ExecuteBatch
                 \/ \E s \in ServerStreams : StartStream(s)
        PROVE  opened' = opened
    BY <2>3, EndsKeep DEF RunApply, RunAnswer, RunCloseServer, StopServer, ExecuteBatch, StartStream, backendVars
  <2>. QED
    BY <1>2, <2>1, <2>2, <2>3 DEF Server, ServerThread, BackendThread, Handlers, ServiceEnds
<1>3. CASE Network
  BY <1>3 DEF Network, Disconnect, serverVars, backendVars
<1>4. CASE UNCHANGED vars
  BY <1>4 DEF vars, serverVars, backendVars
<1>. QED
  BY <1>1, <1>2, <1>3, <1>4 DEF Next, Terminated

\* No step disturbs the places of the streams.
LEMMA NextStreams ==
  ASSUME ClientTypes, ServerTypes, WritesInv, StreamPlaces, OpenedOnce, [Next]_vars
  PROVE  StreamPlaces' /\ OpenedOnce'
<1>a. ASSUME opened' = opened PROVE OpenedOnce'
  BY <1>a DEF OpenedOnce
<1>1. ASSUME NEW c \in Clients, RunCreateStream(c), UNCHANGED clientVars PROVE StreamPlaces' /\ OpenedOnce'
  BY <1>1, OpeningStreams
<1>2. CASE opened' = opened
  <2>1. \A d \in Clients : connected[d] \subseteq tracked[d]
    BY DEF StreamPlaces
  <2>2. ASSUME UNCHANGED <<streams, connected, tracked>>, \A d \in Clients : Shrinks(OnTheWay(d), OnTheWay(d)')
        PROVE  StreamPlaces'
    BY <1>2, <2>1, <2>2, StreamsStay
  <2>3. ASSUME Client PROVE StreamPlaces'
    <3>1. ASSUME NEW c \in Clients, MainThread(c), UNCHANGED serverVars PROVE StreamPlaces'
      BY <3>1, MainThreadStreams
    <3>2. ASSUME NEW c \in Clients, CommunicationThread(c) \/ ConnectFails(c) PROVE StreamPlaces'
      <4>1. UNCHANGED streamVars \/ ReceiveMessage(c)
        BY <3>2 DEF CommunicationThread, RunSubmit, RunClose, SocketConnected, WriteDone, WriteFails, ReceiveResults,
                    ReadFails, IoServiceRunsOut, ConnectFails
      <4>2. UNCHANGED <<streams, connected, tracked>>
        BY <4>1 DEF streamVars, ReceiveMessage
      <4>. QED
        BY <2>2, <3>2, <4>2, CommunicationWay
    <3>. QED
      BY <2>3, <3>1, <3>2 DEF Client
  <2>4. ASSUME Server PROVE StreamPlaces'
    <3>1. UNCHANGED <<streams, connected, tracked>>
      BY <2>4 DEF Server, clientVars, streamVars
    <3>. QED
      BY <2>2, <2>4, <3>1, ServerWay
  <2>5. ASSUME Network PROVE StreamPlaces'
    <3>1. PICK c \in Clients : Disconnect(c)
      BY <2>5 DEF Network
    <3>2. UNCHANGED <<streams, connected, tracked>>
      BY <3>1 DEF Disconnect, clientVars, streamVars
    <3>. QED
      BY <2>2, <3>1, <3>2, NetworkWay
  <2>6. ASSUME UNCHANGED vars PROVE StreamPlaces'
    <3>1. UNCHANGED <<link, toServer, writing, unsubmitted, posted, streams, connected, tracked>>
      BY <2>6 DEF vars, wireVars, clientVars, commVars, streamVars
    <3>2. \A d \in Clients : Shrinks(OnTheWay(d), OnTheWay(d)')
      BY <3>1, LostWay, SameWay
    <3>. QED
      BY <2>2, <3>1, <3>2
  <2>. QED
    BY <1>2, <1>a, <2>3, <2>4, <2>5, <2>6 DEF Next, Terminated
<1>. QED
  BY <1>1, <1>2, OpenedStays

-----------------------------------------------------------------------------
(* Sessions *)

\* A session reads as long as its connection stands, and holds the streams that have an observer.
SessionsStand ==
  /\ \A c \in accepted : link[c] \in {"open", "broken"} /\ (link[c] = "open" => c \in receiving)
  /\ \A s \in DOMAIN opened : IsConnected(s) /\ link[opened[s].client] = "open" => s \in held

\* What may become of an accepted connection is that it breaks.
LinksFall == \A d \in accepted : link'[d] = link[d] \/ (link[d] = "open" /\ link'[d] = "broken")

\* Every step leaves the accepted connections as they are, or breaks them.
LEMMA NextLinks ==
  ASSUME ClientTypes, ServerTypes, WritesInv, SessionsStand, [Next]_vars
  PROVE  LinksFall
<1>1. /\ link \in [Clients -> {"connecting", "refused", "open", "broken"}] /\ accepted \subseteq Clients
      /\ \A d \in accepted : link[d] \in {"open", "broken"}
  BY DEF ClientTypes, WireTypeOK, ServerTypes, ServerTypeOK, SessionsStand
<1>2. ASSUME UNCHANGED link PROVE LinksFall
  BY <1>2 DEF LinksFall
<1>3. ASSUME NEW c \in Clients, Breaks(c) PROVE LinksFall
  BY <1>1, <1>3 DEF LinksFall, Breaks
<1>4. CASE Client
  <2>1. ASSUME NEW c \in Clients, MainThread(c) PROVE UNCHANGED link
    BY <2>1 DEF MainThread, QueueOperations, SubmitOperations, CreateStream, ResetHandle, ApplyStreamChanges, Stop, Join,
                wireVars
  <2>2. ASSUME NEW c \in Clients, SocketConnected(c) \/ ConnectFails(c) PROVE LinksFall
    <3>1. status[c] = "Connecting"
      BY <2>2 DEF SocketConnected, ConnectFails
    <3>2. link[c] \in {"connecting", "refused"}
      BY <3>1 DEF WritesInv
    <3>3. \A d \in Clients \ {c} : link'[d] = link[d]
      BY <1>1, <2>2 DEF SocketConnected, ConnectFails
    <3>. QED
      BY <1>1, <3>2, <3>3 DEF LinksFall
  <2>3. ASSUME NEW c \in Clients,
               RunSubmit(c) \/ WriteDone(c) \/ WriteFails(c) \/ ReceiveMessage(c) \/ ReceiveResults(c) \/ ReadFails(c)
                 \/ IoServiceRunsOut(c)
        PROVE  UNCHANGED link
    BY <2>3 DEF RunSubmit, WriteDone, WriteFails, ReceiveMessage, ReceiveResults, ReadFails, IoServiceRunsOut, StartWrite,
                wireVars
  <2>4. ASSUME NEW c \in Clients, RunClose(c) PROVE LinksFall
    BY <1>3, <2>4 DEF RunClose
  <2>. QED
    BY <1>2, <1>4, <2>1, <2>2, <2>3, <2>4 DEF Client, CommunicationThread
<1>5. CASE Server
  <2>1. CASE RunCloseServer
    <3>1. late' \subseteq Clients \ accepted
      BY <2>1 DEF RunCloseServer, Accepting
    <3>2. ASSUME NEW d \in accepted PROVE link'[d] = link[d] \/ (link[d] = "open" /\ link'[d] = "broken")
      <4>1. d \notin late' /\ d \in Clients
        BY <1>1, <3>1
      <4>2. link'[d] = CASE link[d] = "connecting"                -> "refused"
                         [] link[d] = "open" /\ d \notin late'     -> "broken"
                         [] link[d] = "open" /\ d \in late'        -> "open"
                         [] link[d] \in {"refused", "broken"}      -> link[d]
        BY <2>1, <4>1 DEF RunCloseServer
      <4>. QED
        BY <1>1, <4>1, <4>2
    <3>. QED
      BY <3>2 DEF LinksFall
  <2>2. ASSUME Handlers \/ StopServer \/ BackendThread PROVE UNCHANGED link
    BY <2>2 DEF Handlers, Accept, Reads, RunCreateStream, RunRemoveStream, RunScheduleOperations, SessionReadFails,
                SessionWriteDone, SessionWriteFails, RunApply, RunAnswer, StopServer, BackendThread,
                ExecuteBatch, StartStream, wireVars
  <2>3. ASSUME ServiceEnds PROVE LinksFall
    BY <1>1, <2>3, EndsKeep DEF LinksFall, AllBreak
  <2>. QED
    BY <1>2, <1>5, <2>1, <2>2, <2>3 DEF Server, ServerThread, ServiceEnds
<1>6. CASE Network
  BY <1>3, <1>6 DEF Network, Disconnect
<1>7. CASE UNCHANGED vars
  BY <1>2, <1>7 DEF vars, wireVars
<1>. QED
  BY <1>4, <1>5, <1>6, <1>7 DEF Next, Terminated

\* An open stream does not get an observer again.
LEMMA NextObservers ==
  ASSUME ClientTypes, ServerTypes, StreamPlaces, [Next]_vars, NEW s \in DOMAIN opened,
         opened[s].id \in connected'[opened[s].client]
  PROVE  IsConnected(s)
<1>1. opened[s].client \in Clients /\ opened[s].id \in OpenedIds(opened[s].client)
  BY OpenedStreamIds
<1>2. opened[s].id \in 1 .. Len(streams[opened[s].client])
  BY <1>1 DEF StreamPlaces
<1>3. connected \in [Clients -> SUBSET StreamIds] /\ Len(streams[opened[s].client]) \in Nat
  BY <1>1, ClientStreams DEF ClientTypes, ClientTypeOK
<1>4. CASE UNCHANGED connected
  BY <1>4 DEF IsConnected
<1>5. ASSUME NEW c \in Clients, NEW e \in Endpoints, CreateStream(c, e) PROVE IsConnected(s)
  <2>1. connected' = [connected EXCEPT ![c] = @ \cup {Len(streams[c]) + 1}]
    BY <1>5 DEF CreateStream
  <2>. QED
    BY <1>1, <1>2, <1>3, <2>1 DEF IsConnected
<1>6. ASSUME NEW c \in Clients, NEW id \in StreamIds, ResetHandle(c, id) PROVE IsConnected(s)
  <2>1. connected' = [connected EXCEPT ![c] = @ \ {id}]
    BY <1>6 DEF ResetHandle
  <2>. QED
    BY <1>1, <1>3, <2>1 DEF IsConnected
<1>7. ASSUME NEW c \in Clients, MainThread(c) PROVE IsConnected(s)
  <2>1. ASSUME (\E batch \in Batches : QueueOperations(c, batch)) \/ SubmitOperations(c)
                 \/ ApplyStreamChanges(c) \/ Stop(c) \/ Join(c)
        PROVE  UNCHANGED connected
    BY <2>1 DEF QueueOperations, SubmitOperations, ApplyStreamChanges, Stop, Join, streamVars
  <2>. QED
    BY <1>4, <1>5, <1>6, <1>7, <2>1 DEF MainThread
<1>8. ASSUME NEW c \in Clients, CommunicationThread(c) \/ ConnectFails(c) PROVE UNCHANGED connected
  BY <1>8 DEF CommunicationThread, RunSubmit, RunClose, SocketConnected, WriteDone, WriteFails, ReceiveMessage,
              ReceiveResults, ReadFails, IoServiceRunsOut, ConnectFails, streamVars
<1>9. ASSUME Server \/ Network \/ UNCHANGED vars PROVE UNCHANGED connected
  BY <1>9 DEF Server, Network, Disconnect, vars, clientVars, streamVars
<1>. QED
  BY <1>4, <1>7, <1>8, <1>9 DEF Next, Terminated, Client

\* What the session reads is the first message on the way to it.
LEMMA FirstOnTheWay ==
  ASSUME ClientTypes, WritesInv, NEW c \in Clients, toServer[c] # << >>
  PROVE  1 \in DOMAIN OnTheWay(c) /\ OnTheWay(c)[1] = Head(toServer[c])
<1>. DEFINE s == toServer[c]
            t == IF link[c] \in {"connecting", "open"} THEN Waiting(c) \o posted[c] ELSE << >>
            way == OnTheWay(c)
            h == Head(toServer[c])
<1>1. s \in Seq(Posted) /\ s # << >> /\ t \in Seq(Posted) /\ way = s \o t /\ h = Head(s)
  BY WayType, EmptySeq DEF OnTheWay
<1>. HIDE DEF s, t, way, h
<1>2. (s \o t)[1] = Head(s) /\ DOMAIN (s \o t) = 1 .. Len(s \o t) /\ Len(s \o t) \in Nat \ {0}
  BY <1>1, RestShrinks
<1>3. 1 \in DOMAIN way /\ way[1] = h
  BY <1>1, <1>2
<1>. QED
  BY <1>3 DEF way, h

\* No step disturbs the sessions.
LEMMA NextSessions ==
  ASSUME ClientTypes, ServerTypes, WritesInv, StreamPlaces, OpenedOnce, SessionsStand, [Next]_vars
  PROVE  SessionsStand'
<1>1. /\ \A d \in accepted : link'[d] = link[d] \/ (link[d] = "open" /\ link'[d] = "broken")
      /\ \A s \in DOMAIN opened : opened[s].id \in connected'[opened[s].client] => IsConnected(s)
  BY NextLinks, NextObservers DEF LinksFall
<1>2. /\ \A c \in accepted : link[c] \in {"open", "broken"} /\ (link[c] = "open" => c \in receiving)
      /\ \A s \in DOMAIN opened : IsConnected(s) /\ link[opened[s].client] = "open" => s \in held
  BY DEF SessionsStand
<1>3. \A s \in DOMAIN opened : opened[s].client \in accepted
  BY OpenedStreamIds
\* Nothing new is accepted or opened, and what goes belongs to a broken connection, or has no observer.
<1>4. ASSUME accepted' = accepted, opened' = opened,
             \A d \in receiving : d \in receiving' \/ link[d] = "broken",
             \A s \in held : s \in held' \/ link[opened[s].client] = "broken" \/ ~IsConnected(s)
      PROVE  SessionsStand'
  <2>1. \A c \in accepted' : link'[c] \in {"open", "broken"} /\ (link'[c] = "open" => c \in receiving')
    BY <1>1, <1>2, <1>4
  <2>2. ASSUME NEW s \in DOMAIN opened', opened'[s].id \in connected'[opened'[s].client],
               link'[opened'[s].client] = "open"
        PROVE  s \in held'
    <3>1. s \in DOMAIN opened /\ IsConnected(s) /\ opened[s].client \in accepted
      BY <1>1, <1>3, <1>4, <2>2
    <3>2. link[opened[s].client] = "open"
      BY <1>1, <1>4, <2>2, <3>1
    <3>. QED
      BY <1>2, <1>4, <3>1, <3>2
  <2>. QED
    BY <2>1, <2>2 DEF SessionsStand, IsConnected
<1>5. ASSUME UNCHANGED <<accepted, receiving, opened, held>> PROVE SessionsStand'
  BY <1>4, <1>5
<1>6. CASE Client \/ Network \/ UNCHANGED vars
  BY <1>5, <1>6 DEF Client, Network, Disconnect, vars, serverVars, sessionVars, backendVars
<1>7. CASE Server
  <2>1. ASSUME NEW c \in Clients, Accept(c) PROVE SessionsStand'
    <3>1. /\ UNCHANGED <<opened, held, link>> /\ link[c] \in {"open", "broken"}
          /\ accepted' = accepted \cup {c} /\ receiving' = receiving \cup {c}
      BY <2>1 DEF Accept, Accepting, backendVars, wireVars
    <3>2. \A d \in accepted' : link'[d] \in {"open", "broken"} /\ (link'[d] = "open" => d \in receiving')
      BY <1>2, <3>1
    <3>3. \A s \in DOMAIN opened' :
            opened'[s].id \in connected'[opened'[s].client] /\ link'[opened'[s].client] = "open" => s \in held'
      BY <1>1, <1>2, <3>1
    <3>. QED
      BY <3>2, <3>3 DEF SessionsStand, IsConnected
  <2>2. ASSUME NEW c \in Clients, RunCreateStream(c), UNCHANGED clientVars PROVE SessionsStand'
    <3>1. UNCHANGED <<accepted, receiving, link, connected>> /\ held' = held \cup {Len(opened) + 1}
      BY <2>2 DEF RunCreateStream, Reads, sessionVars, clientVars, streamVars
    <3>2. /\ \A s \in DOMAIN opened : s \in DOMAIN opened' /\ opened'[s] = opened[s]
          /\ \A s \in DOMAIN opened' : s \notin DOMAIN opened => s = Len(opened) + 1
      BY <2>2, OpeningStreams
    <3>3. \A d \in accepted' : link'[d] \in {"open", "broken"} /\ (link'[d] = "open" => d \in receiving')
      BY <1>2, <3>1
    <3>4. \A s \in DOMAIN opened' :
            opened'[s].id \in connected'[opened'[s].client] /\ link'[opened'[s].client] = "open" => s \in held'
      BY <1>2, <3>1, <3>2 DEF IsConnected
    <3>. QED
      BY <3>3, <3>4 DEF SessionsStand, IsConnected
  <2>3. ASSUME NEW c \in Clients, RunRemoveStream(c), UNCHANGED clientVars PROVE SessionsStand'
    <3>1. /\ UNCHANGED <<accepted, receiving, opened>> /\ toServer[c] # << >> /\ Head(toServer[c]).op = "remove_stream"
          /\ held' = held \ {s \in StreamsOf(c) : opened[s].id = Head(toServer[c]).id}
      BY <2>3 DEF RunRemoveStream, Reads, sessionVars
    <3>2. Head(toServer[c]).id \notin connected[c]
      <4>1. 1 \in DOMAIN OnTheWay(c) /\ OnTheWay(c)[1] = Head(toServer[c])
        BY <3>1, FirstOnTheWay
      <4>2. StreamsFit(OnTheWay(c), Len(streams[c]), OpenedIds(c), connected[c])
        BY DEF StreamPlaces
      <4>. QED
        BY <3>1, <4>1, <4>2 DEF StreamsFit
    <3>3. \A s \in held : s \in held' \/ ~IsConnected(s)
      BY <3>1, <3>2 DEF StreamsOf, IsConnected
    <3>. QED
      BY <1>4, <3>1, <3>3
  <2>4. ASSUME NEW c \in Clients, SessionReadFails(c) \/ SessionWriteFails(c) PROVE SessionsStand'
    <3>1. /\ UNCHANGED <<accepted, opened>> /\ link[c] = "broken"
          /\ \A d \in receiving : d \in receiving' \/ d = c
          /\ held' = held \/ held' = held \ StreamsOf(c)
      BY <2>4 DEF SessionReadFails, SessionWriteFails, RestIsLost, SessionGoesOn
    <3>2. \A s \in held : s \in held' \/ link[opened[s].client] = "broken"
      BY <3>1 DEF StreamsOf
    <3>. QED
      BY <1>4, <3>1, <3>2
  <2>5. ASSUME NEW c \in Clients, SessionWriteDone(c) PROVE SessionsStand'
    <3>1. /\ UNCHANGED <<accepted, opened, receiving>> /\ link[c] = "open" /\ c \in accepted
      BY <2>5 DEF SessionWriteDone, ServerTypes, ServerTypeOK
    <3>2. c \in receiving'
      BY <1>2, <3>1
    <3>3. held' = held
      BY <2>5, <3>2 DEF SessionWriteDone, SessionGoesOn
    <3>. QED
      BY <1>5, <3>1, <3>3
  <2>6. ASSUME \/ \E c \in Clients : RunScheduleOperations(c)
               \/ RunApply \/ RunAnswer \/ RunCloseServer \/ StopServer \/ ServiceEnds \/ BackendThread
        PROVE  SessionsStand'
    <3>1. UNCHANGED <<accepted, receiving, opened, held>>
      BY <2>6, EndsKeep
      DEF RunScheduleOperations, Reads, RunApply, RunAnswer, RunCloseServer, StopServer, BackendThread,
          ExecuteBatch, StartStream, sessionVars, backendVars
    <3>. QED
      BY <1>5, <3>1
  <2>. QED
    BY <1>7, <2>1, <2>2, <2>3, <2>4, <2>5, <2>6 DEF Server, ServerThread, Handlers, ServiceEnds
<1>. QED
  BY <1>6, <1>7 DEF Next, Terminated

-----------------------------------------------------------------------------
(* The bound on streams *)

\* What clients have numbered.
Numbers(f) == UNION {{c} \X DOMAIN f[c] : c \in Clients}

\* The bound counts finitely many numbers.
LEMMA NumbersCounted ==
  ASSUME NEW S, NEW f \in [Clients -> Seq(S)]
  PROVE  /\ IsFiniteSet(Numbers(f)) /\ Calls(f) = Cardinality(Numbers(f)) /\ Calls(f) \in Nat
         /\ \A c \in Clients : \A id \in 1 .. Len(f[c]) : <<c, id>> \in Numbers(f)
<1>1. \A d \in Clients : Len(f[d]) \in Nat /\ DOMAIN f[d] = 1 .. Len(f[d])
  BY LenProperties
<1>2. IsFiniteSet({{d} \X DOMAIN f[d] : d \in Clients})
  <2>. DEFINE T == {{d} \X DOMAIN f[d] : d \in Clients}
              g == [d \in Clients |-> {d} \X DOMAIN f[d]]
  <2>1. g \in Surjection(Clients, T)
    BY DEF Surjection
  <2>. HIDE DEF g, T
  <2>2. IsFiniteSet(T)
    BY <2>1, NetAssumption, FS_Surjection
  <2>. QED
    BY <2>2 DEF T
<1>3. ASSUME NEW d \in Clients PROVE IsFiniteSet({d} \X DOMAIN f[d])
  <2>1. IsFiniteSet({d})
    BY FS_Singleton
  <2>2. IsFiniteSet(1 .. Len(f[d]))
    BY <1>1, FS_Interval
  <2>. QED
    BY <1>1, <2>1, <2>2, FS_Product
<1>4. IsFiniteSet(Numbers(f))
  BY <1>2, <1>3, FS_UNION DEF Numbers
<1>5. Calls(f) = Cardinality(Numbers(f))
  BY DEF Calls, Numbers
<1>6. \A c \in Clients : \A id \in 1 .. Len(f[c]) : <<c, id>> \in Numbers(f)
  BY <1>1 DEF Numbers
<1>. QED
  BY <1>4, <1>5, <1>6, FS_CardinalityType

\* No step opens more streams than there may be.
LEMMA NextNumbers ==
  ASSUME ClientTypes, Calls(streams) <= MaxStreams, [Next]_vars
  PROVE  Calls(streams') <= MaxStreams
<1>1. streams \in [Clients -> Seq(Endpoint)] /\ MaxStreams \in Nat
  BY NetAssumption DEF ClientTypes, ClientTypeOK
<1>2. ASSUME UNCHANGED streams PROVE Calls(streams') <= MaxStreams
  BY <1>2
<1>3. ASSUME NEW c \in Clients, NEW e \in Endpoints, CreateStream(c, e) PROVE Calls(streams') <= MaxStreams
  <2>. DEFINE next == [streams EXCEPT ![c] = Append(@, e)]
  <2>1. /\ streams' = next /\ Calls(streams) < MaxStreams /\ e \in Endpoint
    BY <1>3, NetAssumption DEF CreateStream
  <2>2. next \in [Clients -> Seq(Endpoint)]
    BY <1>1, <2>1, AppendedFor
  <2>3. /\ IsFiniteSet(Numbers(streams)) /\ Calls(streams) = Cardinality(Numbers(streams)) /\ Calls(streams) \in Nat
        /\ Calls(next) = Cardinality(Numbers(next))
    <3>. HIDE DEF next
    <3>. QED
      BY <1>1, <2>2, NumbersCounted
  <2>4. Numbers(next) = Numbers(streams) \cup {<<c, Len(streams[c]) + 1>>}
    <3>1. DOMAIN next[c] = DOMAIN streams[c] \cup {Len(streams[c]) + 1}
      BY <1>1, <2>1, Appended
    <3>2. \A d \in Clients \ {c} : next[d] = streams[d]
      BY <1>1
    <3>. HIDE DEF next
    <3>. QED
      BY <3>1, <3>2 DEF Numbers
  <2>5. Cardinality(Numbers(next)) <= Cardinality(Numbers(streams)) + 1
    <3>. HIDE DEF next
    <3>. DEFINE N == Numbers(streams)
                x == <<c, Len(streams[c]) + 1>>
    <3>1. IsFiniteSet(N) /\ Cardinality(N) \in Nat /\ Numbers(next) = N \cup {x}
      BY <2>3, <2>4
    <3>. HIDE DEF N, x
    <3>2. Cardinality(N \cup {x}) = IF x \in N THEN Cardinality(N) ELSE Cardinality(N) + 1
      BY <3>1, FS_AddElement
    <3>3. Cardinality(N \cup {x}) <= Cardinality(N) + 1
      BY <3>1, <3>2
    <3>. QED
      BY <3>1, <3>3 DEF N
  <2>6. Calls(next) <= MaxStreams
    <3>. HIDE DEF next
    <3>1. Cardinality(Numbers(streams)) \in Nat /\ Cardinality(Numbers(streams)) < MaxStreams
      BY <2>1, <2>3
    <3>2. Cardinality(Numbers(next)) \in Nat
      <4>1. IsFiniteSet(Numbers(next))
        BY <2>2, NumbersCounted
      <4>. QED
        BY <4>1, FS_CardinalityType
    <3>. QED
      BY <1>1, <2>3, <2>5, <3>1, <3>2
  <2>. QED
    BY <2>1, <2>6
<1>4. ASSUME NEW c \in Clients, MainThread(c) PROVE Calls(streams') <= MaxStreams
  <2>1. ASSUME (\E batch \in Batches : QueueOperations(c, batch)) \/ SubmitOperations(c)
                 \/ (\E s \in StreamIds : ResetHandle(c, s)) \/ ApplyStreamChanges(c) \/ Stop(c) \/ Join(c)
        PROVE  UNCHANGED streams
    BY <2>1 DEF QueueOperations, SubmitOperations, ResetHandle, ApplyStreamChanges, Stop, Join, streamVars
  <2>. QED
    BY <1>2, <1>3, <1>4, <2>1 DEF MainThread
<1>5. ASSUME NEW c \in Clients, CommunicationThread(c) \/ ConnectFails(c) PROVE UNCHANGED streams
  BY <1>5 DEF CommunicationThread, RunSubmit, RunClose, SocketConnected, WriteDone, WriteFails, ReceiveMessage,
              ReceiveResults, ReadFails, IoServiceRunsOut, ConnectFails, streamVars
<1>6. ASSUME Server \/ Network \/ UNCHANGED vars PROVE UNCHANGED streams
  BY <1>6 DEF Server, Network, Disconnect, vars, clientVars, streamVars
<1>. QED
  BY <1>2, <1>4, <1>5, <1>6 DEF Next, Terminated, Client

\* The streams the server has opened are among those the clients have made.
LEMMA OpenedCounted ==
  ASSUME ClientTypes, ServerTypes, StreamPlaces, OpenedOnce, Calls(streams) <= MaxStreams
  PROVE  DOMAIN opened \subseteq ServerStreams
<1>1. /\ DOMAIN opened = 1 .. Len(opened) /\ Len(opened) \in Nat
      /\ \A s \in DOMAIN opened : opened[s].client \in Clients /\ opened[s].id \in OpenedIds(opened[s].client)
  BY OpenedStreamIds
<1>2. streams \in [Clients -> Seq(Endpoint)] /\ MaxStreams \in Nat
  BY NetAssumption DEF ClientTypes, ClientTypeOK
<1>3. /\ IsFiniteSet(Numbers(streams)) /\ Calls(streams) = Cardinality(Numbers(streams)) /\ Calls(streams) \in Nat
      /\ \A c \in Clients : \A id \in 1 .. Len(streams[c]) : <<c, id>> \in Numbers(streams)
  BY <1>2, NumbersCounted
<1>. DEFINE N == Numbers(streams)
            g == [s \in DOMAIN opened |-> <<opened[s].client, opened[s].id>>]
<1>4. g \in Injection(DOMAIN opened, N)
  <2>1. g \in [DOMAIN opened -> N]
    <3>1. ASSUME NEW s \in DOMAIN opened PROVE <<opened[s].client, opened[s].id>> \in N
      <4>1. opened[s].id \in 1 .. Len(streams[opened[s].client])
        BY <1>1 DEF StreamPlaces
      <4>. QED
        BY <1>1, <1>3, <4>1
    <3>. QED
      BY <3>1
  <2>2. ASSUME NEW s \in DOMAIN opened, NEW t \in DOMAIN opened, g[s] = g[t] PROVE s = t
    BY <2>2 DEF OpenedOnce
  <2>. HIDE DEF g, N
  <2>. QED
    BY <2>1, <2>2 DEF Injection, IsInjective
<1>5. Cardinality(DOMAIN opened) <= Cardinality(N) /\ Cardinality(N) \in Nat
  <2>1. IsFiniteSet(N) /\ Cardinality(N) \in Nat
    BY <1>3
  <2>. HIDE DEF g, N
  <2>. QED
    BY <1>4, <2>1, FS_Injection
<1>6. Cardinality(1 .. Len(opened)) = Len(opened)
  <2>1. 1 \in Int /\ Len(opened) \in Int /\ Len(opened) \in Nat
    BY <1>1
  <2>2. Cardinality(1 .. Len(opened)) = IF 1 > Len(opened) THEN 0 ELSE Len(opened) - 1 + 1
    BY <2>1, FS_Interval
  <2>. QED
    BY <2>1, <2>2
<1>7. Len(opened) <= MaxStreams
  <2>1. Len(opened) <= Cardinality(N)
    BY <1>1, <1>5, <1>6
  <2>2. Cardinality(N) <= MaxStreams
    BY <1>3
  <2>. HIDE DEF N
  <2>. QED
    BY <1>1, <1>2, <1>5, <2>1, <2>2
<1>. QED
  BY <1>1, <1>2, <1>7 DEF ServerStreams

\* The places of the streams and the state of the sessions.
StreamsInv == StreamPlaces /\ OpenedOnce /\ SessionsStand /\ Calls(streams) <= MaxStreams

\* In every reachable state each stream is on its way to the server or opened there once, and a
\* session whose connection stands holds those which have an observer.
THEOREM StreamsInvariant == Spec => []StreamsInv
<1>1. ASSUME Init PROVE StreamsInv
  <2>. USE <1>1 DEF Init, WireInit, ClientInit, ServerInit
  <2>1. DOMAIN opened = {} /\ \A c \in Clients : OpenedIds(c) = {} /\ OnTheWay(c) = << >>
    <3>1. \A c \in Clients : OnTheWay(c) = << >>
      BY DEF OnTheWay, Waiting
    <3>. QED
      BY <3>1, EmptySeq DEF OpenedIds
  <2>2. StreamPlaces
    <3>1. \A c \in Clients : StreamsFit(<< >>, Len(streams[c]), {}, connected[c])
      BY EmptySeq DEF StreamsFit, Numbered
    <3>. QED
      BY <2>1, <3>1 DEF StreamPlaces
  <2>3. OpenedOnce /\ SessionsStand
    BY <2>1 DEF OpenedOnce, SessionsStand
  <2>4. Calls(streams) <= MaxStreams
    <3>1. Numbers(streams) = {}
      BY EmptySeq DEF Numbers
    <3>2. Calls(streams) = Cardinality(Numbers(streams))
      BY DEF Calls, Numbers
    <3>3. Cardinality({}) = 0 /\ MaxStreams \in Nat
      BY FS_EmptySet, NetAssumption
    <3>4. Calls(streams) = 0
      BY <3>1, <3>2, <3>3
    <3>. QED
      BY <3>3, <3>4
  <2>. QED
    BY <2>2, <2>3, <2>4 DEF StreamsInv
<1>2. ASSUME NetInv, StreamsInv, [Next]_vars PROVE StreamsInv'
  <2>1. ClientTypes /\ ServerTypes /\ WritesInv
    BY <1>2 DEF NetInv
  <2>2. StreamPlaces /\ OpenedOnce /\ SessionsStand /\ Calls(streams) <= MaxStreams
    BY <1>2 DEF StreamsInv
  <2>3. StreamPlaces' /\ OpenedOnce'
    BY <1>2, <2>1, <2>2, NextStreams
  <2>4. SessionsStand'
    BY <1>2, <2>1, <2>2, NextSessions
  <2>5. Calls(streams') <= MaxStreams
    BY <1>2, <2>1, <2>2, NextNumbers
  <2>6. Calls(streams)' = Calls(streams')
    BY DEF Calls
  <2>. QED
    BY <2>3, <2>4, <2>5, <2>6 DEF StreamsInv
<1>. QED
  BY <1>1, <1>2, NetInvariant, PTL DEF Spec

-----------------------------------------------------------------------------

(* The messages on the way to a client *)

ReplyWay(c) == toClient[c] \o (IF link[c] = "open" THEN Unsent(c) ELSE << >>)

\* What a step does to them: nothing; the connection breaks, and an end is lost; the first one is
\* received; some are sent.
WayStays(c) == ReplyWay(c)' = ReplyWay(c)
WayEnds(c) == link'[c] # "open" /\ \E gone \in Seq(Reply) : ReplyWay(c) = ReplyWay(c)' \o gone
WayAdvances(c) == ReplyWay(c) = <<Head(toClient[c])>> \o ReplyWay(c)'
WayGrows(c, messages) == ReplyWay(c)' = IF link[c] = "open" THEN ReplyWay(c) \o messages ELSE ReplyWay(c)

\* What is on the way are replies.
LEMMA ReplyWayType ==
  ASSUME ServerTypes, WritesInv, NEW c \in Clients
  PROVE  /\ toClient[c] \in Seq(Reply) /\ outgoing[c] \in Seq(Reply) /\ Unsent(c) \in Seq(Reply)
         /\ ReplyWay(c) \in Seq(Reply)
<1>1. toClient[c] \in Seq(Reply) /\ outgoing[c] \in Seq(Reply) /\ (c \in sending => outgoing[c] # << >>)
  BY DEF ServerTypes, WireTypeOK, ServerTypeOK, WritesInv
<1>2. Unsent(c) \in Seq(Reply)
  BY <1>1, HeadTailProperties DEF Unsent
<1>3. << >> \in Seq(Reply)
  BY EmptySeq
<1>4. (IF link[c] = "open" THEN Unsent(c) ELSE << >>) \in Seq(Reply)
  BY <1>2, <1>3
<1>5. ReplyWay(c) \in Seq(Reply)
  BY <1>1, <1>4, ConcatProperties DEF ReplyWay
<1>. QED
  BY <1>1, <1>2, <1>5

\* They are after a step.
LEMMA NextReplyWayType ==
  ASSUME ServerTypes', WritesInv', NEW c \in Clients
  PROVE  ReplyWay(c)' \in Seq(Reply)
<1>1. /\ toClient'[c] \in Seq(Reply) /\ outgoing'[c] \in Seq(Reply) /\ (c \in sending' => outgoing'[c] # << >>)
  BY DEF ServerTypes, WireTypeOK, ServerTypeOK, WritesInv
<1>2. Unsent(c)' \in Seq(Reply)
  BY <1>1, HeadTailProperties DEF Unsent
<1>3. << >> \in Seq(Reply)
  BY EmptySeq
<1>4. (IF link'[c] = "open" THEN Unsent(c)' ELSE << >>) \in Seq(Reply)
  BY <1>2, <1>3
<1>. QED
  BY <1>1, <1>4, ConcatProperties DEF ReplyWay

\* The way stays if nothing it is made of changes.
LEMMA SameReplies ==
  ASSUME NEW c \in Clients, link'[c] = link[c], toClient'[c] = toClient[c], outgoing'[c] = outgoing[c],
         c \in sending' <=> c \in sending
  PROVE  WayStays(c)
BY DEF WayStays, ReplyWay, Unsent

\* On a connection that does not stand, the way is the wire.
LEMMA LostReplies ==
  ASSUME ServerTypes, ServerTypes', WritesInv, WritesInv', NEW c \in Clients, link'[c] # "open",
         toClient'[c] = toClient[c] \/ toClient'[c] = << >>
  PROVE  WayEnds(c)
<1>1. /\ toClient[c] \in Seq(Reply) /\ Unsent(c) \in Seq(Reply) /\ << >> \in Seq(Reply) /\ ReplyWay(c) \in Seq(Reply)
  BY ReplyWayType, EmptySeq
<1>2. ReplyWay(c)' = toClient'[c] \o << >>
  BY DEF ReplyWay
<1>3. CASE toClient'[c] = toClient[c]
  <2>1. ReplyWay(c)' = toClient[c]
    BY <1>1, <1>2, <1>3, ConcatProperties
  <2>2. PICK rest \in Seq(Reply) : ReplyWay(c) = toClient[c] \o rest
    BY <1>1 DEF ReplyWay
  <2>. QED
    BY <2>1, <2>2 DEF WayEnds
<1>4. CASE toClient'[c] = << >>
  <2>1. ReplyWay(c)' = << >>
    BY <1>1, <1>2, <1>4, ConcatProperties
  <2>2. ReplyWay(c) = << >> \o ReplyWay(c)
    BY <1>1, ConcatProperties
  <2>. QED
    BY <1>1, <2>1, <2>2 DEF WayEnds
<1>. QED
  BY <1>3, <1>4

\* Receiving takes the first message off the way.
LEMMA AdvancedReplies ==
  ASSUME ClientTypes, ServerTypes, WritesInv, NEW c \in Clients, ReceiveMessage(c) \/ ReceiveResults(c),
         UNCHANGED serverVars
  PROVE  WayAdvances(c) /\ \A d \in Clients \ {c} : WayStays(d)
<1>1. /\ outgoing' = outgoing /\ sending' = sending /\ link' = link
      /\ toClient \in [Clients -> Seq(Reply)]
      /\ toClient' = [toClient EXCEPT ![c] = Tail(@)] /\ toClient[c] # << >>
  BY DEF serverVars, sessionVars, ReceiveMessage, ReceiveResults, ClientTypes, WireTypeOK
<1>. DEFINE u == IF link[c] = "open" THEN Unsent(c) ELSE << >>
<1>2. toClient[c] \in Seq(Reply) /\ u \in Seq(Reply)
  BY ReplyWayType, EmptySeq
<1>3. ReplyWay(c) = toClient[c] \o u
  BY DEF ReplyWay
<1>4. ReplyWay(c)' = Tail(toClient[c]) \o u
  BY <1>1 DEF ReplyWay, Unsent
<1>. HIDE DEF u
<1>5. toClient[c] \o u = <<Head(toClient[c])>> \o (Tail(toClient[c]) \o u)
  <2>. DEFINE h == Head(toClient[c])
              t == Tail(toClient[c])
  <2>1. h \in Reply /\ t \in Seq(Reply) /\ toClient[c] = <<h>> \o t
    BY <1>1, <1>2, HeadAndTail
  <2>. HIDE DEF h, t
  <2>2. <<h>> \in Seq(Reply)
    BY <2>1
  <2>3. (<<h>> \o t) \o u = <<h>> \o (t \o u)
    <3>1. Associated(<<h>>, t, u)
      BY <1>2, <2>1, <2>2, Associate
    <3>. QED
      BY <3>1 DEF Associated
  <2>4. toClient[c] \o u = <<h>> \o (t \o u)
    BY <2>1, <2>3
  <2>. QED
    BY <2>4 DEF h, t
<1>6. WayAdvances(c)
  BY <1>3, <1>4, <1>5 DEF WayAdvances
<1>7. \A d \in Clients \ {c} : WayStays(d)
  BY <1>1, SameReplies
<1>. QED
  BY <1>6, <1>7

\* What else the communication thread does to the way.
LEMMA CommunicationReplies ==
  ASSUME ClientTypes, ServerTypes, ServerTypes', WritesInv, WritesInv', SessionsStand,
         NEW c \in Clients, CommunicationThread(c) \/ ConnectFails(c), UNCHANGED serverVars,
         ~ReceiveMessage(c), ~ReceiveResults(c),
         NEW d \in Clients
  PROVE  WayStays(d) \/ WayEnds(d)
<1>. DEFINE Done == WayStays(d) \/ WayEnds(d)
<1>1. outgoing' = outgoing /\ sending' = sending
  BY DEF serverVars, sessionVars
<1>2. ASSUME link'[d] = link[d], toClient'[d] = toClient[d] PROVE Done
  BY <1>1, <1>2, SameReplies
<1>3. ASSUME link'[d] # "open", toClient'[d] = toClient[d] \/ toClient'[d] = << >> PROVE Done
  BY <1>3, LostReplies
<1>4. /\ link \in [Clients -> {"connecting", "refused", "open", "broken"}] /\ toClient \in [Clients -> Seq(Reply)]
  BY DEF ClientTypes, WireTypeOK
<1>5. ASSUME RunSubmit(c) \/ WriteDone(c) \/ WriteFails(c) \/ IoServiceRunsOut(c) PROVE Done
  <2>1. UNCHANGED <<link, toClient>>
    BY <1>5 DEF RunSubmit, WriteDone, WriteFails, IoServiceRunsOut, StartWrite, wireVars
  <2>. QED
    BY <1>2, <2>1
<1>6. ASSUME RunClose(c) PROVE Done
  <2>1. /\ toClient' = [toClient EXCEPT ![c] = << >>]
        /\ link' = [link EXCEPT ![c] = IF @ \in {"connecting", "refused"} THEN "refused" ELSE "broken"]
    BY <1>6 DEF RunClose, Breaks
  <2>2. CASE d = c
    BY <1>3, <1>4, <2>1, <2>2
  <2>3. CASE d # c
    BY <1>2, <1>4, <2>1, <2>3
  <2>. QED
    BY <2>2, <2>3
<1>7. ASSUME SocketConnected(c) PROVE Done
  <2>1. /\ toClient' = toClient /\ link' = [link EXCEPT ![c] = "open"] /\ link[c] = "connecting"
    BY <1>7 DEF SocketConnected
  <2>2. CASE d = c
    <3>1. c \notin accepted
      BY <2>1 DEF SessionsStand
    <3>2. c \notin sending
      BY <3>1 DEF ServerTypes, ServerTypeOK
    <3>3. outgoing[c] = << >>
      BY <2>1, <3>2 DEF WritesInv
    <3>4. ReplyWay(c)' = toClient[c] \o << >>
      BY <1>1, <1>4, <2>1, <3>2, <3>3 DEF ReplyWay, Unsent
    <3>5. ReplyWay(c) = toClient[c] \o << >>
      BY <2>1 DEF ReplyWay
    <3>. QED
      BY <2>2, <3>4, <3>5 DEF WayStays
  <2>3. CASE d # c
    BY <1>2, <1>4, <2>1, <2>3
  <2>. QED
    BY <2>2, <2>3
<1>8. ASSUME ConnectFails(c) PROVE Done
  <2>1. toClient' = toClient /\ link' = [link EXCEPT ![c] = "refused"]
    BY <1>8 DEF ConnectFails
  <2>2. CASE d = c
    BY <1>3, <1>4, <2>1, <2>2
  <2>3. CASE d # c
    BY <1>2, <1>4, <2>1, <2>3
  <2>. QED
    BY <2>2, <2>3
<1>9. ASSUME ReadFails(c) PROVE Done
  <2>1. link[c] = "broken" /\ toClient' = [toClient EXCEPT ![c] = << >>] /\ link' = link
    BY <1>9 DEF ReadFails, RestIsLost
  <2>2. CASE d = c
    BY <1>3, <1>4, <2>1, <2>2
  <2>3. CASE d # c
    BY <1>2, <1>4, <2>1, <2>3
  <2>. QED
    BY <2>2, <2>3
<1>. QED
  BY <1>5, <1>6, <1>7, <1>8, <1>9 DEF CommunicationThread

\* The rest of a list that was put behind one element.
LEMMA RestOfOne ==
  ASSUME NEW S, NEW e \in S, NEW u \in Seq(S)
  PROVE  Tail(<<e>> \o u) = u
<1>. DEFINE l == <<e>> \o u
            t == Tail(l)
<1>1. /\ <<e>> \in Seq(S) /\ Len(<<e>>) = 1 /\ Len(u) \in Nat
  BY LenProperties
<1>2. /\ l \in Seq(S) /\ Len(l) = Len(u) + 1
      /\ \A i \in 1 .. Len(u) + 1 : l[i] = IF i <= 1 THEN <<e>>[i] ELSE u[i - 1]
  BY <1>1, ConcatProperties
<1>. HIDE DEF l
<1>3. l # << >>
  BY <1>1, <1>2, EmptySeq
<1>4. t \in Seq(S) /\ Len(t) = Len(u) /\ \A i \in 1 .. Len(u) : t[i] = l[i + 1]
  BY <1>1, <1>2, <1>3, HeadTailProperties, HeadAndRest
<1>. HIDE DEF t
<1>5. ASSUME NEW i \in 1 .. Len(u) PROVE t[i] = u[i]
  <2>1. t[i] = l[i + 1]
    BY <1>4
  <2>2. i + 1 \in 1 .. Len(u) + 1 /\ ~(i + 1 <= 1) /\ (i + 1) - 1 = i
    BY <1>1
  <2>3. l[i + 1] = u[(i + 1) - 1]
    BY <1>2, <2>2
  <2>. QED
    BY <2>1, <2>2, <2>3
<1>6. t = u
  BY <1>4, <1>5, SeqEqual
<1>. QED
  BY <1>6 DEF t, l

\* The first element of a list may go to the end of the one before it.
LEMMA FirstMoves ==
  ASSUME NEW S, NEW s \in Seq(S), NEW t \in Seq(S), t # << >>
  PROVE  Append(s, Head(t)) \o Tail(t) = s \o t
<1>. DEFINE h == Head(t)
            r == Tail(t)
<1>1. h \in S /\ r \in Seq(S) /\ t = <<h>> \o r
  BY HeadAndTail
<1>. HIDE DEF h, r
<1>2. <<h>> \in Seq(S) /\ Append(s, h) = s \o <<h>>
  BY <1>1, AppendIsConcat
<1>3. (s \o <<h>>) \o r = s \o (<<h>> \o r)
  <2>1. Associated(s, <<h>>, r)
    BY <1>1, <1>2, Associate
  <2>. QED
    BY <2>1 DEF Associated
<1>4. Append(s, h) \o r = s \o t
  BY <1>1, <1>2, <1>3
<1>. QED
  BY <1>4 DEF h, r

\* The rest of two lists.
LEMMA TailOfConcat ==
  ASSUME NEW S, NEW s \in Seq(S), s # << >>, NEW t \in Seq(S)
  PROVE  Tail(s \o t) = Tail(s) \o t /\ Tail(s) \in Seq(S)
<1>. DEFINE h == Head(s)
            r == Tail(s)
<1>1. h \in S /\ r \in Seq(S) /\ s = <<h>> \o r
  BY HeadAndTail
<1>. HIDE DEF h, r
<1>2. <<h>> \in Seq(S) /\ r \o t \in Seq(S)
  BY <1>1, ConcatProperties
<1>3. s \o t = <<h>> \o (r \o t)
  <2>1. (<<h>> \o r) \o t = <<h>> \o (r \o t)
    <3>1. Associated(<<h>>, r, t)
      BY <1>1, <1>2, Associate
    <3>. QED
      BY <3>1 DEF Associated
  <2>. QED
    BY <1>1, <2>1
<1>4. Tail(<<h>> \o (r \o t)) = r \o t
  BY <1>1, <1>2, RestOfOne
<1>5. Tail(s \o t) = r \o t
  BY <1>3, <1>4
<1>. QED
  BY <1>1, <1>5 DEF r

\* What is sent goes to the end of the way, if the connection stands.
LEMMA SentReplies ==
  ASSUME ServerTypes, WritesInv, NEW messages \in [Clients -> Seq(Reply)], SendMessages(messages), UNCHANGED link,
         NEW c \in Clients
  PROVE  WayGrows(c, messages[c])
<1>. DEFINE m == messages[c]
            w == toClient[c]
            q == outgoing[c]
<1>1. /\ w \in Seq(Reply) /\ q \in Seq(Reply) /\ Unsent(c) \in Seq(Reply) /\ m \in Seq(Reply) /\ << >> \in Seq(Reply)
      /\ DOMAIN toClient = Clients
  BY ReplyWayType, EmptySeq DEF ServerTypes, WireTypeOK
<1>2. /\ outgoing'[c] = q \o m
      /\ c \in sending' <=> c \in sending \/ (q = << >> /\ m # << >>)
      /\ toClient'[c] = IF q = << >> /\ m # << >> /\ link[c] = "open" THEN Append(w, Head(m)) ELSE w
  BY <1>1 DEF SendMessages, Written
<1>. HIDE DEF w, q, m
<1>4. CASE link[c] # "open"
  <2>1. ReplyWay(c)' = toClient'[c] \o << >> /\ ReplyWay(c) = w \o << >>
    BY <1>4 DEF ReplyWay, w
  <2>. QED
    BY <1>2, <1>4, <2>1 DEF WayGrows
<1>5. CASE link[c] = "open" /\ q = << >>
  <2>1. c \notin sending
    BY <1>5 DEF WritesInv, q
  <2>2. ReplyWay(c) = w \o << >>
    BY <1>5, <2>1 DEF ReplyWay, Unsent, w, q
  <2>3. ReplyWay(c) = w
    BY <1>1, <2>2, ConcatProperties
  <2>4. outgoing'[c] = m
    BY <1>1, <1>2, <1>5, ConcatProperties
  <2>5. CASE m = << >>
    <3>1. toClient'[c] = w /\ c \notin sending'
      BY <1>2, <2>1, <2>5
    <3>2. ReplyWay(c)' = w \o m
      BY <1>5, <2>4, <3>1 DEF ReplyWay, Unsent
    <3>. QED
      BY <1>5, <2>3, <3>2 DEF WayGrows, m
  <2>6. CASE m # << >>
    <3>1. toClient'[c] = Append(w, Head(m)) /\ c \in sending'
      BY <1>2, <1>5, <2>6
    <3>2. ReplyWay(c)' = Append(w, Head(m)) \o Tail(m)
      BY <1>5, <2>4, <3>1 DEF ReplyWay, Unsent
    <3>3. Append(w, Head(m)) \o Tail(m) = w \o m
      BY <1>1, <2>6, FirstMoves
    <3>. QED
      BY <1>5, <2>3, <3>2, <3>3 DEF WayGrows, m
  <2>. QED
    BY <2>5, <2>6
<1>6. CASE link[c] = "open" /\ q # << >>
  <2>1. c \in sending
    BY <1>6 DEF WritesInv, q
  <2>2. ReplyWay(c) = w \o Tail(q)
    BY <1>6, <2>1 DEF ReplyWay, Unsent, w, q
  <2>3. ReplyWay(c)' = w \o Tail(q \o m)
    BY <1>2, <1>6, <2>1 DEF ReplyWay, Unsent
  <2>4. Tail(q \o m) = Tail(q) \o m /\ Tail(q) \in Seq(Reply)
    BY <1>1, <1>6, TailOfConcat
  <2>5. w \o (Tail(q) \o m) = (w \o Tail(q)) \o m
    <3>. DEFINE r == Tail(q)
    <3>1. r \in Seq(Reply)
      BY <2>4
    <3>. HIDE DEF r
    <3>2. Associated(w, r, m)
      BY <1>1, <3>1, Associate
    <3>3. w \o (r \o m) = (w \o r) \o m
      BY <3>2 DEF Associated
    <3>. QED
      BY <3>3 DEF r
  <2>. QED
    BY <1>6, <2>2, <2>3, <2>4, <2>5 DEF WayGrows, m
<1>. QED
  BY <1>4, <1>5, <1>6

\* What the other handlers of the server, and its backend, do to the way.
LEMMA ServerReplies ==
  ASSUME ServerTypes, ServerTypes', WritesInv, WritesInv', Server, ~RunApply, ~RunAnswer, NEW d \in Clients
  PROVE  WayStays(d) \/ WayEnds(d)
<1>1. ASSUME UNCHANGED <<link, toClient, outgoing, sending>> PROVE WayStays(d)
  BY <1>1, SameReplies
<1>2. link \in [Clients -> {"connecting", "refused", "open", "broken"}] /\ toClient \in [Clients -> Seq(Reply)]
  BY DEF ServerTypes, WireTypeOK
<1>3. ASSUME NEW c \in Clients,
             \/ Accept(c) \/ RunCreateStream(c) \/ RunRemoveStream(c) \/ RunScheduleOperations(c) \/ SessionReadFails(c)
      PROVE  UNCHANGED <<link, toClient, outgoing, sending>>
  BY <1>3 DEF Accept, RunCreateStream, RunRemoveStream, RunScheduleOperations, Reads, SessionReadFails, sessionVars, wireVars
<1>4. ASSUME ExecuteBatch \/ (\E s \in ServerStreams : StartStream(s)) \/ StopServer
      PROVE  UNCHANGED <<link, toClient, outgoing, sending>>
  BY <1>4 DEF ExecuteBatch, StartStream, StopServer, sessionVars, wireVars
<1>5. ASSUME NEW c \in Clients, SessionWriteDone(c) PROVE WayStays(d)
  <2>. DEFINE w == toClient[c]
              q == outgoing[c]
  <2>1. /\ w \in Seq(Reply) /\ q \in Seq(Reply) /\ c \in sending /\ link[c] = "open" /\ link' = link
        /\ outgoing \in [Clients -> Seq(Reply)]
        /\ outgoing' = [outgoing EXCEPT ![c] = Tail(@)]
    BY <1>5, ReplyWayType DEF SessionWriteDone, ServerTypes, ServerTypeOK
  <2>2. q # << >> /\ outgoing'[c] = Tail(q) /\ \A e \in Clients \ {c} : outgoing'[e] = outgoing[e]
    BY <2>1 DEF WritesInv
  <2>3. CASE d # c
    <3>1. toClient'[d] = toClient[d] /\ (d \in sending' <=> d \in sending)
      BY <1>2, <1>5, <2>3 DEF SessionWriteDone, Written
    <3>. QED
      BY <2>1, <2>2, <2>3, <3>1, SameReplies
  <2>4. CASE d = c
    <3>1. ReplyWay(c) = w \o Tail(q) /\ Tail(q) \in Seq(Reply)
      BY <2>1, <2>2, HeadTailProperties DEF ReplyWay, Unsent
    <3>2. CASE Len(q) > 1
      <4>1. toClient' = [toClient EXCEPT ![c] = Append(@, q[2])] /\ sending' = sending
        BY <1>5, <2>1, <3>2 DEF SessionWriteDone, Written
      <4>2. toClient'[c] = Append(w, q[2]) /\ c \in sending'
        BY <1>2, <2>1, <4>1
      <4>3. ReplyWay(c)' = Append(w, q[2]) \o Tail(Tail(q))
        BY <2>1, <2>2, <4>2 DEF ReplyWay, Unsent
      <4>4. Tail(q) # << >> /\ Head(Tail(q)) = q[2]
        <5>. HIDE DEF q
        <5>1. Tail(q) # << >>
          BY <2>1, <2>2, <3>2, RestOfQueue
        <5>2. Len(Tail(q)) = Len(q) - 1 /\ (\A i \in 1 .. Len(q) - 1 : Tail(q)[i] = q[i + 1]) /\ Len(q) \in Nat
          BY <2>1, <2>2, HeadTailProperties, HeadAndRest, LenProperties
        <5>3. Head(Tail(q)) = Tail(q)[1]
          BY <3>1, <5>1, HeadTailProperties
        <5>. QED
          BY <3>2, <5>1, <5>2, <5>3
      <4>5. Append(w, Head(Tail(q))) \o Tail(Tail(q)) = w \o Tail(q)
        <5>. HIDE DEF w, q
        <5>. QED
          BY <2>1, <3>1, <4>4, FirstMoves
      <4>. QED
        BY <2>4, <3>1, <4>3, <4>4, <4>5 DEF WayStays
    <3>3. CASE ~(Len(q) > 1)
      <4>1. toClient' = toClient /\ c \notin sending'
        BY <1>5, <3>3 DEF SessionWriteDone
      <4>2. ReplyWay(c)' = w \o Tail(q)
        BY <2>1, <2>2, <4>1 DEF ReplyWay, Unsent
      <4>. QED
        BY <2>4, <3>1, <4>2 DEF WayStays
    <3>. QED
      BY <3>2, <3>3
  <2>. QED
    BY <2>3, <2>4
<1>6. ASSUME NEW c \in Clients, SessionWriteFails(c) PROVE WayStays(d) \/ WayEnds(d)
  <2>1. /\ link[c] = "broken" /\ UNCHANGED <<link, toClient, outgoing>>
        /\ \A e \in Clients \ {c} : e \in sending' <=> e \in sending
    BY <1>6 DEF SessionWriteFails, wireVars
  <2>2. CASE d = c
    BY <2>1, <2>2, LostReplies
  <2>3. CASE d # c
    BY <2>1, <2>3, SameReplies
  <2>. QED
    BY <2>2, <2>3
<1>7. ASSUME RunCloseServer PROVE WayStays(d) \/ WayEnds(d)
  <2>1. UNCHANGED <<toClient, outgoing, sending>>
    BY <1>7 DEF RunCloseServer, sessionVars
  <2>2. link'[d] = CASE link[d] = "connecting"                -> "refused"
                     [] link[d] = "open" /\ d \notin late'     -> "broken"
                     [] link[d] = "open" /\ d \in late'        -> "open"
                     [] link[d] \in {"refused", "broken"}      -> link[d]
    BY <1>7 DEF RunCloseServer
  <2>3. link'[d] = "open" => link[d] = "open"
    BY <1>2, <2>2
  <2>4. CASE link'[d] = "open"
    BY <2>1, <2>3, <2>4, SameReplies
  <2>5. CASE link'[d] # "open"
    BY <2>1, <2>5, LostReplies
  <2>. QED
    BY <2>4, <2>5
<1>8. ASSUME ServiceEnds PROVE WayStays(d) \/ WayEnds(d)
  <2>1. UNCHANGED <<toClient, outgoing, sending>>
    BY <1>8, EndsKeep
  <2>2. CASE UNCHANGED link
    BY <1>1, <2>1, <2>2
  <2>3. CASE AllBreak
    BY <2>1, <2>3, LostReplies DEF AllBreak
  <2>. QED
    BY <1>8, <2>2, <2>3, EndsKeep
<1>. QED
  BY <1>1, <1>3, <1>4, <1>5, <1>6, <1>7, <1>8 DEF Server, ServerThread, BackendThread, Handlers, ServiceEnds

\* What the other steps do to the way.
LEMMA OtherReplies ==
  ASSUME ServerTypes, ServerTypes', WritesInv, WritesInv',
         \/ \E c \in Clients : MainThread(c) /\ UNCHANGED serverVars
         \/ Network
         \/ UNCHANGED vars,
         NEW d \in Clients
  PROVE  WayStays(d) \/ WayEnds(d)
<1>1. ASSUME NEW c \in Clients, MainThread(c), UNCHANGED serverVars PROVE WayStays(d)
  <2>1. UNCHANGED wireVars
    BY <1>1 DEF MainThread, QueueOperations, SubmitOperations, CreateStream, ResetHandle, ApplyStreamChanges, Stop, Join
  <2>. QED
    BY <1>1, <2>1, SameReplies DEF wireVars, serverVars, sessionVars
<1>2. ASSUME UNCHANGED vars PROVE WayStays(d)
  BY <1>2, SameReplies DEF vars, wireVars, serverVars, sessionVars
<1>3. ASSUME NEW c \in Clients, Disconnect(c) PROVE WayStays(d) \/ WayEnds(d)
  <2>1. /\ link \in [Clients -> {"connecting", "refused", "open", "broken"}] /\ link[c] = "open"
        /\ link' = [link EXCEPT ![c] = IF @ \in {"connecting", "refused"} THEN "refused" ELSE "broken"]
        /\ UNCHANGED <<toClient, outgoing, sending>>
    BY <1>3 DEF Disconnect, Breaks, ServerTypes, WireTypeOK, serverVars, sessionVars
  <2>2. CASE d = c
    BY <2>1, <2>2, LostReplies
  <2>3. CASE d # c
    BY <2>1, <2>3, SameReplies
  <2>. QED
    BY <2>2, <2>3
<1>. QED
  BY <1>1, <1>2, <1>3 DEF Network

-----------------------------------------------------------------------------
(* What a client is told of a stream *)

HearsNothing(c, id) == Received(c, id)' = Received(c, id)
Hears(c, id) == Received(c, id)' = Received(c, id) \o Known(<<Head(toClient[c])>>, id)

\* An observer that is disconnected, or none.
Forgets(c, id) == id \notin connected'[c] /\ (Received(c, id) = << >> => Received(c, id)' = << >>)

\* The results of a batch go to the session which sent it, if it still runs.
AnswerTo(c) ==
  IF c = Head(serverPosts).client /\ c \in receiving \cup sending
    THEN <<TaskResults(Head(serverPosts).id, Head(serverPosts).results)>> ELSE << >>

\* What a step does to the messages on the way to a client, and to what it has of a stream.
Told(c, id) ==
  \/ WayStays(c) /\ (HearsNothing(c, id) \/ Forgets(c, id))
  \/ WayEnds(c) /\ HearsNothing(c, id)
  \/ (ReceiveMessage(c) \/ ReceiveResults(c)) /\ WayAdvances(c) /\ Hears(c, id)
  \/ RunApply /\ WayGrows(c, StreamMessages(c, pending)) /\ HearsNothing(c, id)
  \/ RunAnswer /\ WayGrows(c, AnswerTo(c)) /\ HearsNothing(c, id)

\* What a client has of a stream are changes.
LEMMA ReceivedType ==
  ASSUME ClientTypes, NEW c \in Clients, NEW id \in StreamIds
  PROVE  observed[c][id] \in Seq(Change) /\ changeList[c][id] \in Seq(Change) /\ Received(c, id) \in Seq(Change)
<1>1. observed[c][id] \in Seq(Change) /\ changeList[c][id] \in Seq(Change)
  BY DEF ClientTypes, ClientTypeOK
<1>. QED
  BY <1>1, ConcatProperties DEF Received

\* Applying the queued changes hands them to the observer.
LEMMA AppliedReceived ==
  ASSUME ClientTypes, NEW c \in Clients, connected[c] \subseteq tracked[c], ApplyStreamChanges(c), NEW d \in Clients,
         NEW id \in StreamIds
  PROVE  HearsNothing(d, id) \/ Forgets(d, id)
<1>1. /\ observed \in [Clients -> [StreamIds -> Seq(Change)]] /\ changeList \in [Clients -> [StreamIds -> Seq(Change)]]
      /\ tracked \in [Clients -> SUBSET StreamIds]
      /\ tracked' = [tracked EXCEPT ![c] = @ \cap connected[c]] /\ connected' = connected
      /\ observed' = [observed EXCEPT ![c] =
           [s \in StreamIds |-> IF s \in tracked'[c] THEN @[s] \o changeList[c][s] ELSE @[s]]]
      /\ changeList' = [changeList EXCEPT ![c] = [s \in StreamIds |-> << >>]]
  BY DEF ClientTypes, ClientTypeOK, ApplyStreamChanges
<1>2. CASE d # c
  BY <1>1, <1>2 DEF HearsNothing, Received
<1>3. CASE d = c
  <2>. DEFINE o == observed[c][id]
              l == changeList[c][id]
  <2>1. o \in Seq(Change) /\ l \in Seq(Change) /\ Received(c, id) = o \o l /\ o \o l \in Seq(Change)
    BY ReceivedType DEF Received
  <2>2. changeList'[c][id] = << >>
    BY <1>1
  <2>3. observed'[c][id] = IF id \in tracked'[c] THEN o \o l ELSE o
    BY <1>1
  <2>4. Received(c, id)' = (IF id \in tracked'[c] THEN o \o l ELSE o) \o << >>
    BY <2>2, <2>3 DEF Received
  <2>. HIDE DEF o, l
  <2>5. CASE id \in tracked'[c]
    <3>1. (o \o l) \o << >> = o \o l
      BY <2>1, ConcatProperties
    <3>. QED
      BY <1>3, <2>1, <2>4, <2>5, <3>1 DEF HearsNothing
  <2>6. CASE id \notin tracked'[c]
    <3>1. id \notin connected'[c]
      BY <1>1, <2>6
    <3>2. Received(c, id)' = o
      BY <2>1, <2>4, <2>6, ConcatProperties
    <3>3. o \o l = << >> => o = << >>
      <4>1. Len(o \o l) = Len(o) + Len(l) /\ Len(o) \in Nat /\ Len(l) \in Nat
        BY <2>1, ConcatProperties, LenProperties
      <4>2. o \o l = << >> => Len(o \o l) = 0
        BY EmptySeq
      <4>3. o \o l = << >> => Len(o) = 0
        BY <4>1, <4>2
      <4>. QED
        BY <2>1, <4>3, EmptySeq
    <3>. QED
      BY <1>3, <2>1, <3>1, <3>2, <3>3 DEF Forgets
  <2>. QED
    BY <2>5, <2>6
<1>. QED
  BY <1>2, <1>3

\* A message that is received is put behind what the client has of its stream.
LEMMA MessageReceived ==
  ASSUME ClientTypes, NEW c \in Clients, ReceiveMessage(c), NEW d \in Clients, NEW id \in StreamIds
  PROVE  IF d = c THEN Hears(d, id) ELSE HearsNothing(d, id)
<1>. DEFINE m == Head(toClient[c])
            o == observed[c][id]
            l == changeList[c][id]
<1>1. /\ toClient[c] \in Seq(Reply) /\ changeList \in [Clients -> [StreamIds -> Seq(Change)]]
      /\ observed' = observed /\ toClient[c] # << >> /\ m.op = "stream_change"
      /\ changeList' = IF Knows(m.change)
                         THEN [changeList EXCEPT ![c][m.id] = Append(@, m.change)]
                         ELSE changeList
  BY DEF ClientTypes, ClientTypeOK, WireTypeOK, ReceiveMessage
<1>2. m \in Reply
  BY <1>1, HeadTailProperties
<1>3. m.change \in Change /\ id \in Nat
  BY <1>1, <1>2 DEF Reply, StreamIds
<1>4. CASE d # c
  BY <1>1, <1>4 DEF HearsNothing, Received
<1>5. CASE d = c
  <2>1. o \in Seq(Change) /\ l \in Seq(Change) /\ Received(c, id) = o \o l /\ o \o l \in Seq(Change)
    BY ReceivedType DEF Received
  <2>2. Known(<<m>>, id) = IF IsChangeOf(m, id) /\ Knows(m.change) THEN <<m.change>> ELSE << >>
    BY <1>2, <1>3, KnownParts
  <2>3. changeList'[c][id] = IF IsChangeOf(m, id) /\ Knows(m.change) THEN Append(l, m.change) ELSE l
    BY <1>1 DEF IsChangeOf
  <2>4. observed'[c][id] = o
    BY <1>1
  <2>. HIDE DEF o, l, m
  <2>5. CASE IsChangeOf(m, id) /\ Knows(m.change)
    <3>1. Received(c, id)' = o \o Append(l, m.change)
      BY <2>3, <2>4, <2>5 DEF Received
    <3>2. o \o Append(l, m.change) = Append(o \o l, m.change)
      BY <1>3, <2>1, ConcatAppended
    <3>3. Append(o \o l, m.change) = (o \o l) \o <<m.change>>
      BY <1>3, <2>1, AppendIsConcat
    <3>. QED
      BY <1>5, <2>1, <2>2, <2>5, <3>1, <3>2, <3>3 DEF Hears, m
  <2>6. CASE ~(IsChangeOf(m, id) /\ Knows(m.change))
    <3>1. Received(c, id)' = o \o l
      BY <2>3, <2>4, <2>6 DEF Received
    <3>2. (o \o l) \o << >> = o \o l
      BY <2>1, ConcatProperties
    <3>. QED
      BY <1>5, <2>1, <2>2, <2>6, <3>1, <3>2 DEF Hears, m
  <2>. QED
    BY <2>5, <2>6
<1>. QED
  BY <1>4, <1>5

\* Results are no changes of a stream.
LEMMA ResultsReceived ==
  ASSUME ClientTypes, NEW c \in Clients, ReceiveResults(c), NEW d \in Clients, NEW id \in StreamIds
  PROVE  HearsNothing(d, id) /\ (d = c => Hears(d, id))
<1>. DEFINE m == Head(toClient[c])
<1>1. /\ toClient[c] \in Seq(Reply) /\ toClient[c] # << >> /\ m.op = "task_results"
      /\ UNCHANGED <<observed, changeList>>
  BY DEF ClientTypes, WireTypeOK, ReceiveResults, streamVars
<1>2. m \in Reply /\ id \in Nat
  BY <1>1, HeadTailProperties DEF StreamIds
<1>3. HearsNothing(d, id)
  BY <1>1 DEF HearsNothing, Received
<1>4. Known(<<m>>, id) = << >>
  <2>1. ~IsChangeOf(m, id)
    BY <1>1 DEF IsChangeOf
  <2>. HIDE DEF m
  <2>. QED
    BY <1>2, <2>1, KnownParts
<1>5. Received(d, id) \in Seq(Change)
  BY ReceivedType
<1>6. Received(d, id) \o << >> = Received(d, id)
  BY <1>5, ConcatProperties
<1>. QED
  BY <1>3, <1>4, <1>6 DEF Hears, HearsNothing

\* What a client's session makes of the changes goes to the end of the way.
LEMMA AppliedReplies ==
  ASSUME ServerTypes, WritesInv, RunApply, NEW d \in Clients
  PROVE  WayGrows(d, StreamMessages(d, pending))
<1>. DEFINE m == [c \in Clients |-> StreamMessages(c, pending)]
<1>1. /\ opened \in Seq(OpenedStream) /\ held \subseteq DOMAIN opened /\ pending \in Seq(QueuedChange)
  BY DEF ServerTypes, ServerTypeOK, OpenedStream, QueuedChange
<1>2. m \in [Clients -> Seq(Reply)]
  BY <1>1, StreamMessagesType
<1>3. SendMessages(m) /\ UNCHANGED link
  BY DEF RunApply
<1>4. m[d] = StreamMessages(d, pending)
  OBVIOUS
<1>. HIDE DEF m
<1>. QED
  BY <1>2, <1>3, <1>4, SentReplies

\* An answer goes to the end of the way.
LEMMA AnsweredReplies ==
  ASSUME ServerTypes, WritesInv, RunAnswer, NEW d \in Clients
  PROVE  WayGrows(d, AnswerTo(d)) /\ AnswerTo(d) \in Seq(Reply)
<1>. DEFINE m == [c \in Clients |-> AnswerTo(c)]
            answer == Head(serverPosts)
<1>1. /\ serverPosts \in Seq(Posting) /\ serverPosts # << >> /\ answer.op = "answer"
  BY DEF ServerTypes, ServerTypeOK, Posting, RunAnswer, Posts
<1>2. answer \in Posting
  BY <1>1, HeadTailProperties
<1>3. TaskResults(answer.id, answer.results) \in Reply
  BY <1>1, <1>2 DEF Posting, TaskResults, Reply
<1>4. \A c \in Clients : AnswerTo(c) \in Seq(Reply)
  <2>1. << >> \in Seq(Reply) /\ <<TaskResults(answer.id, answer.results)>> \in Seq(Reply)
    BY <1>3, EmptySeq
  <2>. QED
    BY <2>1 DEF AnswerTo
<1>5. m \in [Clients -> Seq(Reply)] /\ m[d] = AnswerTo(d)
  BY <1>4
<1>6. SendMessages(m) /\ UNCHANGED link
  BY DEF RunAnswer, AnswerTo
<1>. HIDE DEF m
<1>. QED
  BY <1>4, <1>5, <1>6, SentReplies

\* What a step tells a client.
LEMMA NextTold ==
  ASSUME ClientTypes, ServerTypes, ServerTypes', WritesInv, WritesInv', StreamPlaces, SessionsStand, [Next]_vars,
         NEW d \in Clients, NEW id \in StreamIds
  PROVE  Told(d, id)
<1>1. ASSUME UNCHANGED <<observed, changeList>> PROVE HearsNothing(d, id)
  BY <1>1 DEF HearsNothing, Received
<1>2. ASSUME NEW c \in Clients, MainThread(c), UNCHANGED serverVars PROVE Told(d, id)
  <2>1. WayStays(d)
    <3>1. UNCHANGED wireVars
      BY <1>2 DEF MainThread, QueueOperations, SubmitOperations, CreateStream, ResetHandle, ApplyStreamChanges, Stop, Join
    <3>. QED
      BY <1>2, <3>1, SameReplies DEF wireVars, serverVars, sessionVars
  <2>2. CASE ApplyStreamChanges(c)
    <3>1. connected[c] \subseteq tracked[c]
      BY DEF StreamPlaces
    <3>. QED
      BY <2>1, <2>2, <3>1, AppliedReceived DEF Told
  <2>3. CASE ~ApplyStreamChanges(c)
    <3>1. UNCHANGED <<observed, changeList>>
      BY <1>2, <2>3 DEF MainThread, QueueOperations, SubmitOperations, CreateStream, ResetHandle, Stop, Join, streamVars
    <3>. QED
      BY <1>1, <2>1, <3>1 DEF Told
  <2>. QED
    BY <2>2, <2>3
<1>3. ASSUME NEW c \in Clients, CommunicationThread(c) \/ ConnectFails(c), UNCHANGED serverVars PROVE Told(d, id)
  <2>1. CASE ReceiveMessage(c)
    <3>1. IF d = c THEN WayAdvances(d) ELSE WayStays(d)
      BY <1>3, <2>1, AdvancedReplies
    <3>2. IF d = c THEN Hears(d, id) ELSE HearsNothing(d, id)
      BY <2>1, MessageReceived
    <3>. QED
      BY <2>1, <3>1, <3>2 DEF Told
  <2>2. CASE ReceiveResults(c)
    <3>1. IF d = c THEN WayAdvances(d) ELSE WayStays(d)
      BY <1>3, <2>2, AdvancedReplies
    <3>2. HearsNothing(d, id) /\ (d = c => Hears(d, id))
      BY <2>2, ResultsReceived
    <3>. QED
      BY <2>2, <3>1, <3>2 DEF Told
  <2>3. CASE ~ReceiveMessage(c) /\ ~ReceiveResults(c)
    <3>1. UNCHANGED <<observed, changeList>>
      BY <1>3, <2>3 DEF CommunicationThread, RunSubmit, RunClose, SocketConnected, WriteDone, WriteFails, ReadFails,
                        IoServiceRunsOut, ConnectFails, streamVars
    <3>2. WayStays(d) \/ WayEnds(d)
      BY <1>3, <2>3, CommunicationReplies
    <3>. QED
      BY <1>1, <3>1, <3>2 DEF Told
  <2>. QED
    BY <2>1, <2>2, <2>3
<1>4. CASE Server
  <2>1. HearsNothing(d, id)
    BY <1>4, <1>1 DEF Server, clientVars, streamVars
  <2>2. CASE RunApply
    BY <2>1, <2>2, AppliedReplies DEF Told
  <2>3. CASE RunAnswer
    BY <2>1, <2>3, AnsweredReplies DEF Told
  <2>4. CASE ~RunApply /\ ~RunAnswer
    BY <1>4, <2>1, <2>4, ServerReplies DEF Told
  <2>. QED
    BY <2>2, <2>3, <2>4
<1>5. CASE Network \/ UNCHANGED vars
  <2>1. UNCHANGED <<observed, changeList>>
    BY <1>5 DEF Network, Disconnect, vars, clientVars, streamVars
  <2>. QED
    BY <1>1, <1>5, <2>1, OtherReplies DEF Told
<1>. QED
  BY <1>2, <1>3, <1>4, <1>5 DEF Next, Terminated, Client

-----------------------------------------------------------------------------
(* What the server's backend puts on streams *)

HeldChange == [stream : held, change : Change]

\* A step of the backend's thread puts changes on streams which are held, and does nothing else to
\* clients and sessions.
Puts(changes) == Emits(changes) /\ UNCHANGED <<wireVars, clientVars, sessionVars, opened, held>>

\* What a step does to the changes put on streams.
LEMMA NextPut ==
  ASSUME ServerTypes, DOMAIN opened \subseteq ServerStreams, [Next]_vars
  PROVE  \/ UNCHANGED <<pending, emitted>>
         \/ RunApply /\ UNCHANGED clientVars
         \/ \E changes \in Seq(HeldChange) : Puts(changes)
<1>. DEFINE Done == \/ UNCHANGED <<pending, emitted>>
                    \/ RunApply /\ UNCHANGED clientVars
                    \/ \E changes \in Seq(HeldChange) : Puts(changes)
<1>1. CASE Client \/ Network \/ UNCHANGED vars
  BY <1>1 DEF Client, Network, Disconnect, vars, serverVars, backendVars
<1>2. CASE Server
  <2>1. UNCHANGED clientVars
    BY <1>2 DEF Server
  <2>2. ASSUME NEW c \in Clients,
               \/ Accept(c) \/ RunCreateStream(c) \/ RunRemoveStream(c) \/ RunScheduleOperations(c)
               \/ SessionReadFails(c) \/ SessionWriteDone(c) \/ SessionWriteFails(c)
        PROVE  UNCHANGED <<pending, emitted>>
    BY <2>2 DEF Accept, RunCreateStream, RunRemoveStream, RunScheduleOperations, SessionReadFails, SessionWriteDone,
                SessionWriteFails, backendVars
  <2>3. ASSUME RunAnswer \/ RunCloseServer \/ StopServer \/ ServiceEnds PROVE UNCHANGED <<pending, emitted>>
    BY <2>3, EndsKeep DEF RunAnswer, RunCloseServer, StopServer, backendVars
  <2>4. CASE ExecuteBatch
    <3>1. /\ requests \in Seq(QueuedRequest) /\ requests # << >> /\ opened \in Seq(OpenedStream) /\ storage \in Database
      BY <2>4 DEF ExecuteBatch, ServerTypes, ServerTypeOK, QueuedRequest, OpenedStream
    <3>. DEFINE r == Head(requests)
                run == Run(r.operations)
    <3>2. r.operations \in Seq(Operation)
      <4>1. r \in QueuedRequest
        BY <3>1, HeadTailProperties
      <4>. QED
        BY <4>1 DEF QueuedRequest
    <3>3. run \in Execution
      BY <3>1, <3>2, RunType DEF OpenedStream
    <3>4. Emits(run.changes) /\ UNCHANGED <<opened, held, sessionVars, wireVars>>
      BY <2>4 DEF ExecuteBatch
    <3>. HIDE DEF run
    <3>5. run.changes \in Seq(StartedChange)
      BY <3>3 DEF Execution
    <3>6. StartedChange \subseteq HeldChange
      BY DEF StartedChange, HeldChange, ServerTypes, ServerTypeOK
    <3>7. run.changes \in Seq(HeldChange)
      BY <3>5, <3>6, SeqMonotonic
    <3>. QED
      BY <2>1, <3>4, <3>7 DEF Puts
  <2>5. ASSUME NEW s \in ServerStreams, StartStream(s) PROVE Done
    <3>. DEFINE list == Append(InitialChanges(storage, opened[s].endpoint), Initialized)
    <3>1. s \in held /\ opened[s].endpoint \in Endpoint /\ storage \in Database
      <4>1. s \in held /\ held \subseteq DOMAIN opened /\ opened \in Seq(OpenedStream) /\ storage \in Database
        BY <2>5 DEF StartStream, ServerTypes, ServerTypeOK, OpenedStream
      <4>2. opened[s] \in OpenedStream
        BY <4>1
      <4>. QED
        BY <4>1, <4>2 DEF OpenedStream
    <3>2. list \in Seq(Change)
      <4>1. Initialized \in Change
        BY DEF Change
      <4>. QED
        BY <3>1, <4>1, InitialChangesType, AppendProperties
    <3>3. Emits(OfStream(s, list)) /\ UNCHANGED <<opened, held, sessionVars, wireVars>>
      BY <2>5 DEF StartStream
    <3>. HIDE DEF list
    <3>4. OfStream(s, list) \in Seq(HeldChange)
      BY <3>1, <3>2, OfStreamType DEF HeldChange
    <3>. QED
      BY <2>1, <3>3, <3>4 DEF Puts
  <2>. QED
    BY <1>2, <2>1, <2>2, <2>3, <2>4, <2>5 DEF Server, ServerThread, BackendThread, Handlers, ServiceEnds
<1>. QED
  BY <1>1, <1>2 DEF Next, Terminated

\* Changes put on held streams are queued, and are changes of held streams.
LEMMA HeldChanges ==
  ASSUME ServerTypes, DOMAIN opened \subseteq ServerStreams, NEW changes \in Seq(HeldChange)
  PROVE  /\ changes \in Seq(QueuedChange)
         /\ \A s \in ServerStreams : s \notin DOMAIN opened => ChangesOf(s, changes) = << >>
<1>1. held \subseteq DOMAIN opened /\ held \subseteq ServerStreams
  BY DEF ServerTypes, ServerTypeOK
<1>2. HeldChange \subseteq QueuedChange
  BY <1>1 DEF HeldChange, QueuedChange
<1>3. changes \in Seq(QueuedChange)
  BY <1>2, SeqMonotonic
<1>4. ASSUME NEW s \in ServerStreams, s \notin DOMAIN opened PROVE ChangesOf(s, changes) = << >>
  <2>. DEFINE S == [stream : {s}, change : Change]
  <2>1. HeldChange \cap S = {}
    BY <1>1, <1>4 DEF HeldChange
  <2>2. Those(changes, S) = << >>
    <3>. HIDE DEF S
    <3>. QED
      BY <2>1, ThoseOfOthers
  <2>3. ChangesOf(s, changes) = [i \in DOMAIN << >> |-> << >>[i].change]
    BY <2>2 DEF ChangesOf
  <2>. QED
    BY <2>3, EmptySeq
<1>. QED
  BY <1>3, <1>4

\* No message is made for a stream that is not open.
LEMMA MessagesOfNone ==
  ASSUME ServerTypes, NEW c \in Clients, NEW id \in Nat, id \notin OpenedIds(c), NEW changes \in Seq(QueuedChange)
  PROVE  Known(StreamMessages(c, changes), id) = << >>
<1>. DEFINE T == [op : {"stream_change"}, id : OpenedIds(c), change : Change]
            S == [op : {"stream_change"}, id : {id}, change : Change]
            m == StreamMessages(c, changes)
            mine == Those(changes, [stream : StreamsOf(c), change : Change])
<1>1. mine \in Seq(QueuedChange \cap [stream : StreamsOf(c), change : Change])
  BY ThoseType
<1>2. /\ Len(mine) \in Nat /\ DOMAIN mine = 1 .. Len(mine)
      /\ \A i \in 1 .. Len(mine) : mine[i].stream \in StreamsOf(c) /\ mine[i].change \in Change
  <2>1. Len(mine) \in Nat /\ DOMAIN mine = 1 .. Len(mine)
    BY <1>1, LenProperties
  <2>2. \A i \in 1 .. Len(mine) : mine[i] \in QueuedChange \cap [stream : StreamsOf(c), change : Change]
    BY <1>1, ElementOfSeq
  <2>. QED
    BY <2>1, <2>2
<1>3. \A s \in StreamsOf(c) : opened[s].id \in OpenedIds(c)
  BY DEF StreamsOf, OpenedIds, ServerTypes, ServerTypeOK
<1>4. m \in Seq(T)
  <2>1. m = [i \in 1 .. Len(mine) |-> StreamMessage(opened[mine[i].stream].id, mine[i].change)]
    BY <1>2 DEF StreamMessages
  <2>2. \A i \in 1 .. Len(mine) : StreamMessage(opened[mine[i].stream].id, mine[i].change) \in T
    BY <1>2, <1>3 DEF StreamMessage
  <2>. HIDE DEF m, T, mine
  <2>3. m \in [1 .. Len(mine) -> T]
    BY <2>1, <2>2
  <2>. QED
    BY <1>2, <2>3, SeqDef
<1>5. T \cap S = {}
  OBVIOUS
<1>6. Those(m, S) = << >>
  <2>. HIDE DEF m, T, S
  <2>. QED
    BY <1>4, <1>5, ThoseOfOthers
<1>7. ChangesIn(m, id) = << >>
  <2>1. ChangesIn(m, id) = [i \in DOMAIN << >> |-> << >>[i].change]
    BY <1>6 DEF ChangesIn
  <2>. QED
    BY <2>1, EmptySeq
<1>. HIDE DEF m
<1>8. Known(m, id) = << >>
  BY <1>7, WithoutClearsParts DEF Known
<1>. QED
  BY <1>8 DEF m

\* An answer carries no changes.
LEMMA AnswersTellNothing ==
  ASSUME ServerTypes, WritesInv, RunAnswer, NEW c \in Clients, NEW id \in Nat
  PROVE  Known(AnswerTo(c), id) = << >>
<1>. DEFINE reply == TaskResults(Head(serverPosts).id, Head(serverPosts).results)
<1>1. serverPosts \in Seq(Posting) /\ serverPosts # << >> /\ Head(serverPosts).op = "answer"
  BY DEF ServerTypes, ServerTypeOK, Posting, RunAnswer, Posts
<1>2. Head(serverPosts) \in Posting
  BY <1>1, HeadTailProperties
<1>3. reply \in Reply /\ ~IsChangeOf(reply, id)
  BY <1>1, <1>2 DEF Posting, TaskResults, Reply, IsChangeOf
<1>4. AnswerTo(c) = <<reply>> \/ AnswerTo(c) = << >>
  BY DEF AnswerTo
<1>. HIDE DEF reply
<1>5. Known(<<reply>>, id) = << >> /\ Known(<< >>, id) = << >>
  BY <1>3, KnownParts
<1>. QED
  BY <1>4, <1>5

\* What was opened stays, and what is opened now was not open before.
LEMMA NextOpened ==
  ASSUME ClientTypes, ServerTypes, WritesInv, StreamPlaces, OpenedOnce, [Next]_vars
  PROVE  /\ \A d \in Clients : OpenedIds(d) \subseteq OpenedIds(d)'
         /\ \A s \in DOMAIN opened : s \in DOMAIN opened' /\ opened'[s] = opened[s]
         /\ DOMAIN opened' = DOMAIN opened \/ \E c \in Clients : RunCreateStream(c) /\ UNCHANGED clientVars
<1>1. ASSUME NEW c \in Clients, RunCreateStream(c), UNCHANGED clientVars
      PROVE  /\ \A s \in DOMAIN opened : s \in DOMAIN opened' /\ opened'[s] = opened[s]
             /\ \A d \in Clients : OpenedIds(d) \subseteq OpenedIds(d)'
  BY <1>1, OpeningStreams
<1>2. CASE opened' = opened
  BY <1>2 DEF OpenedIds
<1>. QED
  BY <1>1, <1>2, OpenedStays

\* Two lists that are nothing together.
LEMMA NothingTogether ==
  ASSUME NEW S, NEW s \in Seq(S), NEW t \in Seq(S), s \o t = << >>
  PROVE  s = << >> /\ t = << >>
<1>1. Len(s \o t) = Len(s) + Len(t) /\ Len(s) \in Nat /\ Len(t) \in Nat
  BY ConcatProperties, LenProperties
<1>2. Len(s \o t) = 0
  BY EmptySeq
<1>3. Len(s) = 0 /\ Len(t) = 0
  BY <1>1, <1>2
<1>. QED
  BY <1>3, EmptySeq

\* Nothing is told, or put on a stream, before the stream is open.
Addressed ==
  /\ \A c \in Clients : \A id \in StreamIds \ OpenedIds(c) : Received(c, id) = << >> /\ Known(ReplyWay(c), id) = << >>
  /\ \A s \in ServerStreams \ DOMAIN opened : emitted[s] = << >> /\ ChangesOf(s, pending) = << >>

\* Every step keeps what is sent and what is pending addressed to streams that are open.
LEMMA NextAddressed ==
  ASSUME ClientTypes, ServerTypes, ServerTypes', WritesInv, WritesInv', StreamPlaces, OpenedOnce, SessionsStand,
         DOMAIN opened \subseteq ServerStreams, Addressed, [Next]_vars
  PROVE  Addressed'
<1>1. ASSUME NEW c \in Clients, NEW id \in StreamIds \ OpenedIds(c)'
      PROVE  Received(c, id)' = << >> /\ Known(ReplyWay(c)', id) = << >>
  <2>. DEFINE w == ReplyWay(c)
              v == ReplyWay(c)'
  <2>1. id \in StreamIds /\ id \notin OpenedIds(c) /\ id \in Nat
    BY <1>1, NextOpened DEF StreamIds
  <2>2. /\ Received(c, id) = << >> /\ Known(w, id) = << >>
        /\ w \in Seq(Reply) /\ v \in Seq(Reply)
    <3>1. Received(c, id) = << >> /\ Known(w, id) = << >>
      BY <2>1 DEF Addressed
    <3>2. w \in Seq(Reply) /\ v \in Seq(Reply)
      BY ReplyWayType, NextReplyWayType
    <3>. QED
      BY <3>1, <3>2
  <2>3. Told(c, id)
    BY <2>1, NextTold
  <2>4. /\ \A m \in Seq(Reply) : Known(m, id) \in Seq(Change)
        /\ \A m, n \in Seq(Reply) : Known(m \o n, id) = Known(m, id) \o Known(n, id)
    BY <2>1, KnownParts
  <2>5. ASSUME WayStays(c), HearsNothing(c, id) \/ Forgets(c, id) PROVE Received(c, id)' = << >> /\ Known(v, id) = << >>
    BY <2>2, <2>5 DEF WayStays, HearsNothing, Forgets
  <2>6. ASSUME WayEnds(c), HearsNothing(c, id) PROVE Received(c, id)' = << >> /\ Known(v, id) = << >>
    <3>1. PICK gone \in Seq(Reply) : w = v \o gone
      BY <2>6 DEF WayEnds
    <3>2. Received(c, id)' = << >>
      BY <2>2, <2>6 DEF HearsNothing
    <3>. HIDE DEF w, v
    <3>3. Known(w, id) = Known(v, id) \o Known(gone, id) /\ Known(v, id) \in Seq(Change) /\ Known(gone, id) \in Seq(Change)
      BY <2>2, <2>4, <3>1
    <3>4. Known(v, id) = << >>
      BY <2>2, <3>3, NothingTogether
    <3>. QED
      BY <3>2, <3>4
  <2>7. ASSUME WayAdvances(c), Hears(c, id), ReceiveMessage(c) \/ ReceiveResults(c)
        PROVE  Received(c, id)' = << >> /\ Known(v, id) = << >>
    <3>. DEFINE h == <<Head(toClient[c])>>
    <3>1. w = h \o v /\ Received(c, id)' = Received(c, id) \o Known(h, id) /\ h \in Seq(Reply)
      <4>1. toClient[c] \in Seq(Reply) /\ toClient[c] # << >>
        BY <2>7 DEF ReceiveMessage, ReceiveResults, ClientTypes, WireTypeOK
      <4>2. Head(toClient[c]) \in Reply
        BY <4>1, HeadTailProperties
      <4>. QED
        BY <2>7, <4>2 DEF WayAdvances, Hears
    <3>. HIDE DEF w, v, h
    <3>2. Known(w, id) = Known(h, id) \o Known(v, id) /\ Known(v, id) \in Seq(Change) /\ Known(h, id) \in Seq(Change)
      BY <2>2, <2>4, <3>1
    <3>3. Known(v, id) = << >> /\ Known(h, id) = << >>
      BY <2>2, <3>2, NothingTogether
    <3>4. << >> \o << >> = << >>
      BY EmptySeq, ConcatProperties
    <3>. QED
      BY <2>2, <3>1, <3>3, <3>4
  <2>8. ASSUME NEW m \in Seq(Reply), Known(m, id) = << >>, WayGrows(c, m), HearsNothing(c, id)
        PROVE  Received(c, id)' = << >> /\ Known(v, id) = << >>
    <3>1. Received(c, id)' = << >> /\ (v = w \/ v = w \o m)
      BY <2>2, <2>8 DEF HearsNothing, WayGrows
    <3>. HIDE DEF w, v
    <3>2. Known(w \o m, id) = Known(w, id) \o Known(m, id)
      BY <2>2, <2>4
    <3>3. << >> \o << >> = << >>
      BY EmptySeq, ConcatProperties
    <3>. QED
      BY <2>2, <2>8, <3>1, <3>2, <3>3
  <2>9. ASSUME RunApply PROVE StreamMessages(c, pending) \in Seq(Reply) /\ Known(StreamMessages(c, pending), id) = << >>
    <3>1. pending \in Seq(QueuedChange) /\ opened \in Seq(OpenedStream) /\ held \subseteq DOMAIN opened
      BY DEF ServerTypes, ServerTypeOK, QueuedChange, OpenedStream
    <3>. QED
      BY <2>1, <3>1, MessagesOfNone, StreamMessagesType
  <2>10. ASSUME RunAnswer PROVE AnswerTo(c) \in Seq(Reply) /\ Known(AnswerTo(c), id) = << >>
    BY <2>1, <2>10, AnswersTellNothing, AnsweredReplies
  <2>. HIDE DEF v
  <2>. QED
    BY <2>3, <2>5, <2>6, <2>7, <2>8, <2>9, <2>10 DEF Told, v
<1>2. ASSUME NEW s \in ServerStreams \ DOMAIN opened'
      PROVE  emitted'[s] = << >> /\ ChangesOf(s, pending') = << >>
  <2>1. s \in ServerStreams /\ s \notin DOMAIN opened
    BY <1>2, NextOpened
  <2>2. emitted[s] = << >> /\ ChangesOf(s, pending) = << >>
    BY <2>1 DEF Addressed
  <2>3. ASSUME UNCHANGED <<pending, emitted>> PROVE emitted'[s] = << >> /\ ChangesOf(s, pending') = << >>
    BY <2>2, <2>3
  <2>4. ASSUME RunApply PROVE emitted'[s] = << >> /\ ChangesOf(s, pending') = << >>
    <3>1. pending' = << >> /\ emitted' = emitted
      BY <2>4 DEF RunApply
    <3>. QED
      BY <2>1, <2>2, <3>1, ChangesOfParts
  <2>5. ASSUME NEW changes \in Seq(HeldChange), Puts(changes) PROVE emitted'[s] = << >> /\ ChangesOf(s, pending') = << >>
    <3>1. changes \in Seq(QueuedChange) /\ ChangesOf(s, changes) = << >> /\ pending \in Seq(QueuedChange)
      BY <2>1, HeldChanges DEF ServerTypes, ServerTypeOK, QueuedChange
    <3>2. pending' = pending \o changes /\ emitted'[s] = emitted[s] \o ChangesOf(s, changes)
      BY <2>1, <2>5 DEF Puts, Emits
    <3>3. ChangesOf(s, pending \o changes) = ChangesOf(s, pending) \o ChangesOf(s, changes)
      BY <2>1, <3>1, ChangesOfParts
    <3>4. << >> \o << >> = << >>
      BY EmptySeq, ConcatProperties
    <3>. QED
      BY <2>2, <3>1, <3>2, <3>3, <3>4
  <2>. QED
    BY <2>3, <2>4, <2>5, NextPut
<1>. QED
  BY <1>1, <1>2 DEF Addressed, Known, ChangesIn, ChangesOf

-----------------------------------------------------------------------------
(* A client follows its streams *)

KnownOf(s, changes) == WithoutClears(ChangesOf(s, changes))

\* What a client has, what is on the way to it and the rest are all there is.
Complete(received, way, rest, all) == received \o (way \o rest) = all

\* A client has, is sent, or may still be sent what was put on a stream, in order; while the
\* connection stands the rest is what the server has queued.
Follows(s) ==
  LET c == opened[s].client
      id == opened[s].id
  IN  IsConnected(s) =>
        \E rest \in Seq(Change) :
          /\ Complete(Received(c, id), Known(ReplyWay(c), id), rest, WithoutClears(emitted[s]))
          /\ link[c] = "open" => rest = KnownOf(s, pending)

Following == \A s \in DOMAIN opened : Follows(s)

\* How what is complete may move on.
LEMMA CompleteMoves ==
  ASSUME NEW r \in Seq(Change), NEW w \in Seq(Change), NEW x \in Seq(Change), NEW rest \in Seq(Change), NEW all \in Seq(Change)
  PROVE  /\ Complete(r, w \o x, rest, all) => Complete(r, w, x \o rest, all)
         /\ Complete(r, x \o w, rest, all) => Complete(r \o x, w, rest, all)
         /\ Complete(r, w, rest, all) => Complete(r, w \o rest, << >>, all)
         /\ Complete(r, w, rest, all) => Complete(r, w, rest \o x, all \o x)
<1>2. w \o rest \in Seq(Change) /\ x \o w \in Seq(Change)
  BY ConcatProperties
<1>3. (w \o x) \o rest = w \o (x \o rest)
  <2>1. Associated(w, x, rest)
    BY Associate
  <2>. QED
    BY <2>1 DEF Associated
<1>4. r \o ((x \o w) \o rest) = (r \o x) \o (w \o rest)
  <2>1. (x \o w) \o rest = x \o (w \o rest)
    <3>1. Associated(x, w, rest)
      BY Associate
    <3>. QED
      BY <3>1 DEF Associated
  <2>. DEFINE y == w \o rest
  <2>2. y \in Seq(Change)
    BY <1>2
  <2>. HIDE DEF y
  <2>3. (r \o x) \o y = r \o (x \o y)
    <3>1. Associated(r, x, y)
      BY <2>2, Associate
    <3>. QED
      BY <3>1 DEF Associated
  <2>. QED
    BY <2>1, <2>3 DEF y
<1>5. (w \o rest) \o << >> = w \o rest
  BY <1>2, ConcatProperties
<1>6. r \o (w \o (rest \o x)) = (r \o (w \o rest)) \o x
  <2>1. (w \o rest) \o x = w \o (rest \o x)
    <3>1. Associated(w, rest, x)
      BY Associate
    <3>. QED
      BY <3>1 DEF Associated
  <2>. DEFINE y == w \o rest
  <2>2. y \in Seq(Change)
    BY <1>2
  <2>. HIDE DEF y
  <2>3. (r \o y) \o x = r \o (y \o x)
    <3>1. Associated(r, y, x)
      BY <2>2, Associate
    <3>. QED
      BY <3>1 DEF Associated
  <2>. QED
    BY <2>1, <2>3 DEF y
<1>7. Complete(r, w \o x, rest, all) => Complete(r, w, x \o rest, all)
  BY <1>3 DEF Complete
<1>8. Complete(r, x \o w, rest, all) => Complete(r \o x, w, rest, all)
  BY <1>4 DEF Complete
<1>9. Complete(r, w, rest, all) => Complete(r, w \o rest, << >>, all)
  BY <1>5 DEF Complete
<1>10. Complete(r, w, rest, all) => Complete(r, w, rest \o x, all \o x)
  BY <1>6 DEF Complete
<1>. QED
  BY <1>7, <1>8, <1>9, <1>10

\* The changes of a stream which the client knows, in a queue.
LEMMA KnownOfParts ==
  ASSUME NEW s \in ServerStreams
  PROVE  /\ KnownOf(s, << >>) = << >>
         /\ \A a \in Seq(QueuedChange) : KnownOf(s, a) \in Seq(Change)
         /\ \A a, b \in Seq(QueuedChange) : KnownOf(s, a \o b) = KnownOf(s, a) \o KnownOf(s, b)
<1>1. /\ ChangesOf(s, << >>) = << >>
      /\ \A a \in Seq(QueuedChange) : ChangesOf(s, a) \in Seq(Change)
      /\ \A a, b \in Seq(QueuedChange) : ChangesOf(s, a \o b) = ChangesOf(s, a) \o ChangesOf(s, b)
  BY ChangesOfParts
<1>2. /\ WithoutClears(<< >>) = << >>
      /\ \A a \in Seq(Change) : WithoutClears(a) \in Seq(Change)
      /\ \A a, b \in Seq(Change) : WithoutClears(a \o b) = WithoutClears(a) \o WithoutClears(b)
  BY WithoutClearsParts
<1>3. KnownOf(s, << >>) = << >>
  BY <1>1, <1>2 DEF KnownOf
<1>4. \A a \in Seq(QueuedChange) : KnownOf(s, a) \in Seq(Change)
  BY <1>1, <1>2 DEF KnownOf
<1>5. ASSUME NEW a \in Seq(QueuedChange), NEW b \in Seq(QueuedChange)
      PROVE  KnownOf(s, a \o b) = KnownOf(s, a) \o KnownOf(s, b)
  <2>. DEFINE x == ChangesOf(s, a)
              y == ChangesOf(s, b)
  <2>1. ChangesOf(s, a \o b) = x \o y /\ x \in Seq(Change) /\ y \in Seq(Change)
    BY <1>1
  <2>. HIDE DEF x, y
  <2>2. WithoutClears(x \o y) = WithoutClears(x) \o WithoutClears(y)
    BY <1>2, <2>1
  <2>. QED
    BY <2>1, <2>2 DEF KnownOf, x, y
<1>. QED
  BY <1>3, <1>4, <1>5

\* A step keeps what a client has and is sent complete, if the rest is right after it.
LEMMA FollowsOn ==
  ASSUME NEW s, s \in DOMAIN opened, opened'[s] = opened[s],
         NEW rest \in Seq(Change),
         Complete(Received(opened[s].client, opened[s].id)', Known(ReplyWay(opened[s].client)', opened[s].id), rest,
                  WithoutClears(emitted'[s])),
         link'[opened[s].client] = "open" => rest = KnownOf(s, pending')
  PROVE  Follows(s)'
BY DEF Follows, Known, ChangesIn, KnownOf, ChangesOf, WithoutClears, IsConnected, Received

\* A step that does not change the changes which are put on streams keeps a client following.
LEMMA ToldFollows ==
  ASSUME ClientTypes, ServerTypes, WritesInv, SessionsStand, OpenedOnce, DOMAIN opened \subseteq ServerStreams,
         ServerTypes', WritesInv',
         NEW s \in DOMAIN opened, opened'[s] = opened[s], Follows(s), IsConnected(s),
         opened[s].id \in connected'[opened[s].client],
         link'[opened[s].client] = "open" => link[opened[s].client] = "open",
         Told(opened[s].client, opened[s].id),
         (RunApply /\ UNCHANGED clientVars) \/ UNCHANGED <<pending, emitted>>
  PROVE  Follows(s)'
<1>. DEFINE c == opened[s].client
            id == opened[s].id
            r == Received(c, id)
            w == Known(ReplyWay(c), id)
            v == Known(ReplyWay(c)', id)
            all == WithoutClears(emitted[s])
<1>1. /\ c \in Clients /\ id \in Nat /\ id \in StreamIds /\ s \in ServerStreams
  BY OpenedStreamIds DEF IsConnected, ClientTypes, ClientTypeOK
<1>2. /\ ReplyWay(c) \in Seq(Reply) /\ ReplyWay(c)' \in Seq(Reply)
      /\ r \in Seq(Change) /\ pending \in Seq(QueuedChange) /\ emitted[s] \in Seq(Change)
      /\ opened \in Seq(OpenedStream) /\ held \subseteq DOMAIN opened
  BY <1>1, ReplyWayType, NextReplyWayType, ReceivedType DEF ServerTypes, ServerTypeOK, QueuedChange, OpenedStream
<1>3. /\ \A m \in Seq(Reply) : Known(m, id) \in Seq(Change)
      /\ \A m, n \in Seq(Reply) : Known(m \o n, id) = Known(m, id) \o Known(n, id)
  BY <1>1, KnownParts
<1>4. w \in Seq(Change) /\ v \in Seq(Change) /\ all \in Seq(Change) /\ << >> \in Seq(Change)
  BY <1>2, <1>3, WithoutClearsParts, EmptySeq
<1>5. PICK rest \in Seq(Change) : Complete(r, w, rest, all) /\ (link[c] = "open" => rest = KnownOf(s, pending))
  BY DEF Follows
<1>6. ASSUME NEW q \in Seq(Change), Complete(Received(c, id)', v, q, WithoutClears(emitted'[s])),
             link'[c] = "open" => q = KnownOf(s, pending')
      PROVE  Follows(s)'
  BY <1>6, FollowsOn
<1>7. ASSUME UNCHANGED <<pending, emitted>>, NEW q \in Seq(Change), Complete(Received(c, id)', v, q, all),
             link'[c] = "open" => q = rest
      PROVE  Follows(s)'
  BY <1>5, <1>6, <1>7
<1>8. RunApply => pending' = << >> /\ emitted' = emitted /\ link' = link
  BY DEF RunApply
<1>9. ASSUME WayStays(c), HearsNothing(c, id), UNCHANGED <<pending, emitted>> PROVE Follows(s)'
  <2>1. Received(c, id)' = r /\ v = w
    BY <1>9 DEF WayStays, HearsNothing
  <2>. QED
    BY <1>5, <1>7, <1>9, <2>1
<1>10. ASSUME WayEnds(c), HearsNothing(c, id), UNCHANGED <<pending, emitted>> PROVE Follows(s)'
  <2>1. PICK gone \in Seq(Reply) : ReplyWay(c) = ReplyWay(c)' \o gone
    BY <1>10 DEF WayEnds
  <2>. DEFINE x == Known(gone, id)
  <2>2. Received(c, id)' = r /\ w = v \o x /\ x \in Seq(Change) /\ link'[c] # "open"
    BY <1>2, <1>3, <1>10, <2>1 DEF WayEnds, HearsNothing
  <2>3. Complete(r, v, x \o rest, all) /\ x \o rest \in Seq(Change)
    <3>1. Complete(r, v \o x, rest, all)
      BY <1>5, <2>2
    <3>. HIDE DEF r, v, w, x, all
    <3>. QED
      BY <1>2, <1>4, <2>2, <3>1, CompleteMoves, ConcatProperties
  <2>. HIDE DEF x
  <2>. QED
    BY <1>7, <1>10, <2>2, <2>3
<1>11. ASSUME WayAdvances(c), Hears(c, id), UNCHANGED <<pending, emitted>>, ReceiveMessage(c) \/ ReceiveResults(c)
       PROVE  Follows(s)'
  <2>. DEFINE h == <<Head(toClient[c])>>
              x == Known(h, id)
  <2>1. h \in Seq(Reply)
    <3>1. toClient[c] \in Seq(Reply) /\ toClient[c] # << >>
      BY <1>1, <1>11 DEF ReceiveMessage, ReceiveResults, ClientTypes, WireTypeOK
    <3>2. Head(toClient[c]) \in Reply
      BY <3>1, HeadTailProperties
    <3>. QED
      BY <3>2
  <2>2. ReplyWay(c) = h \o ReplyWay(c)' /\ Received(c, id)' = r \o x
    BY <1>11 DEF WayAdvances, Hears
  <2>. HIDE DEF h
  <2>3. w = x \o v /\ x \in Seq(Change)
    BY <1>2, <1>3, <2>1, <2>2
  <2>4. Complete(r \o x, v, rest, all)
    <3>1. Complete(r, x \o v, rest, all)
      BY <1>5, <2>3
    <3>. HIDE DEF r, v, w, x, all
    <3>. QED
      BY <1>2, <1>4, <2>3, <3>1, CompleteMoves
  <2>5. link'[c] = "open" => rest = rest
    OBVIOUS
  <2>. QED
    BY <1>5, <1>7, <1>11, <2>2, <2>4
<1>12. ASSUME RunApply, WayGrows(c, StreamMessages(c, pending)), HearsNothing(c, id) PROVE Follows(s)'
  <2>1. Received(c, id)' = r /\ pending' = << >> /\ emitted' = emitted /\ link'[c] = link[c]
    BY <1>8, <1>12 DEF HearsNothing
  <2>2. KnownOf(s, << >>) = << >>
    BY <1>1, KnownOfParts
  <2>3. CASE link[c] = "open"
    <3>1. s \in StreamsOf(c)
      <4>1. s \in held
        BY <2>3 DEF SessionsStand
      <4>. QED
        BY <4>1 DEF StreamsOf
    <3>. DEFINE m == StreamMessages(c, pending)
    <3>2. m \in Seq(Reply)
      BY <1>1, <1>2, StreamMessagesType
    <3>3. Known(m, id) = rest
      <4>1. ChangesIn(m, id) = ChangesOf(s, pending)
        BY <1>1, <1>2, <3>1, MessagesOfStream
      <4>. QED
        BY <1>5, <2>3, <4>1 DEF Known, KnownOf
    <3>4. ReplyWay(c)' = ReplyWay(c) \o m
      BY <1>12, <2>3 DEF WayGrows
    <3>. HIDE DEF m
    <3>5. v = w \o rest
      BY <1>2, <1>3, <3>2, <3>3, <3>4
    <3>6. Complete(r, w \o rest, << >>, all)
      <4>. HIDE DEF r, w, all
      <4>. QED
        BY <1>2, <1>4, <1>5, CompleteMoves
    <3>. QED
      BY <1>4, <1>6, <2>1, <2>2, <3>5, <3>6
  <2>4. CASE link[c] # "open"
    <3>1. v = w
      BY <1>12, <2>4 DEF WayGrows
    <3>. QED
      BY <1>5, <1>6, <2>1, <2>4, <3>1
  <2>. QED
    BY <2>3, <2>4
<1>13. ASSUME RunAnswer, WayGrows(c, AnswerTo(c)), HearsNothing(c, id) PROVE Follows(s)'
  <2>1. Received(c, id)' = r /\ UNCHANGED <<pending, emitted, link>>
    BY <1>13 DEF HearsNothing, RunAnswer, backendVars
  <2>2. AnswerTo(c) \in Seq(Reply) /\ Known(AnswerTo(c), id) = << >>
    BY <1>1, <1>13, AnsweredReplies, AnswersTellNothing
  <2>3. v = w
    <3>1. ReplyWay(c)' = ReplyWay(c) \/ ReplyWay(c)' = ReplyWay(c) \o AnswerTo(c)
      BY <1>13 DEF WayGrows
    <3>2. Known(ReplyWay(c) \o AnswerTo(c), id) = w \o << >>
      BY <1>2, <1>3, <2>2
    <3>3. w \o << >> = w
      BY <1>4, ConcatProperties
    <3>. QED
      BY <3>1, <3>2, <3>3
  <2>. QED
    BY <1>5, <1>7, <2>1, <2>3
<1>14. ~Forgets(c, id)
  BY DEF Forgets
<1>15. ASSUME RunApply, UNCHANGED clientVars PROVE Follows(s)'
  <2>1. WayGrows(c, StreamMessages(c, pending))
    BY <1>1, <1>15, AppliedReplies
  <2>2. HearsNothing(c, id)
    BY <1>15 DEF clientVars, streamVars, HearsNothing, Received
  <2>. QED
    BY <1>12, <1>15, <2>1, <2>2
<1>. QED
  BY <1>9, <1>10, <1>11, <1>12, <1>13, <1>14, <1>15 DEF Told

\* A step that puts changes on streams keeps a client following.
LEMMA PutFollows ==
  ASSUME ClientTypes, ServerTypes, WritesInv, DOMAIN opened \subseteq ServerStreams,
         NEW changes \in Seq(HeldChange), Puts(changes), NEW s \in DOMAIN opened, Follows(s), IsConnected(s)
  PROVE  Follows(s)'
<1>. DEFINE c == opened[s].client
            id == opened[s].id
            r == Received(c, id)
            w == Known(ReplyWay(c), id)
            all == WithoutClears(emitted[s])
            x == KnownOf(s, changes)
<1>1. /\ c \in Clients /\ id \in Nat /\ id \in StreamIds /\ s \in ServerStreams
  BY OpenedStreamIds DEF IsConnected, ClientTypes, ClientTypeOK
<1>2. /\ ReplyWay(c) \in Seq(Reply) /\ r \in Seq(Change) /\ pending \in Seq(QueuedChange) /\ emitted[s] \in Seq(Change)
      /\ changes \in Seq(QueuedChange) /\ ChangesOf(s, changes) \in Seq(Change)
  BY <1>1, ReplyWayType, ReceivedType, HeldChanges, ChangesOfType DEF ServerTypes, ServerTypeOK, QueuedChange
<1>3. w \in Seq(Change) /\ all \in Seq(Change) /\ x \in Seq(Change)
  BY <1>1, <1>2, KnownParts, KnownOfParts, WithoutClearsParts
<1>4. PICK rest \in Seq(Change) : Complete(r, w, rest, all) /\ (link[c] = "open" => rest = KnownOf(s, pending))
  BY DEF Follows
<1>5. /\ opened' = opened /\ link' = link /\ Received(c, id)' = r /\ ReplyWay(c)' = ReplyWay(c)
  BY DEF Puts, wireVars, clientVars, streamVars, sessionVars, Received, ReplyWay, Unsent
<1>6. pending' = pending \o changes /\ emitted'[s] = emitted[s] \o ChangesOf(s, changes)
  BY <1>1 DEF Puts, Emits
<1>7. WithoutClears(emitted'[s]) = all \o x
  <2>1. WithoutClears(emitted[s] \o ChangesOf(s, changes)) = WithoutClears(emitted[s]) \o WithoutClears(ChangesOf(s, changes))
    BY <1>2, WithoutClearsParts
  <2>. QED
    BY <1>6, <2>1 DEF KnownOf
<1>8. KnownOf(s, pending') = KnownOf(s, pending) \o x
  BY <1>1, <1>2, <1>6, KnownOfParts
<1>9. Complete(r, w, rest \o x, all \o x) /\ rest \o x \in Seq(Change)
  <2>. HIDE DEF r, w, all, x
  <2>. QED
    BY <1>2, <1>3, <1>4, CompleteMoves, ConcatProperties
<1>. HIDE DEF x
<1>10. link[c] = "open" => rest \o x = KnownOf(s, pending')
  BY <1>4, <1>8
<1>. QED
  BY <1>5, <1>7, <1>9, <1>10, FollowsOn

\* A stream that is opened has nothing put on it yet.
LEMMA OpenedFollows ==
  ASSUME ClientTypes, ServerTypes, ServerTypes', WritesInv, StreamPlaces, OpenedOnce, Addressed,
         DOMAIN opened' \subseteq ServerStreams,
         NEW c \in Clients, RunCreateStream(c), UNCHANGED clientVars, NEW s \in DOMAIN opened', s \notin DOMAIN opened
  PROVE  Follows(s)'
<1>0. PICK id : id = opened'[s].id
  OBVIOUS
<1>1. opened'[s].client = c /\ opened'[s].id = id /\ id \notin OpenedIds(c) /\ s \in ServerStreams
  BY <1>0, OpeningStreams
<1>2. UNCHANGED <<observed, changeList, connected, pending, emitted, link, toClient, outgoing, sending>>
  BY DEF RunCreateStream, Reads, clientVars, streamVars, sessionVars
<1>3. CASE id \in connected[c]
  <2>1. id \in StreamIds
    BY <1>3 DEF ClientTypes, ClientTypeOK
  <2>2. /\ Received(c, id) = << >> /\ Known(ReplyWay(c), id) = << >>
        /\ emitted[s] = << >> /\ ChangesOf(s, pending) = << >>
    BY <1>1, <2>1 DEF Addressed
  <2>3. /\ Received(c, id)' = << >> /\ emitted'[s] = << >> /\ ChangesOf(s, pending') = << >>
        /\ ReplyWay(c)' = ReplyWay(c)
    <3>1. emitted'[s] = << >> /\ ChangesOf(s, pending') = << >> /\ ReplyWay(c)' = ReplyWay(c)
      BY <1>2, <2>2 DEF ReplyWay, Unsent
    <3>2. observed'[c][id] \o changeList'[c][id] = << >>
      BY <1>2, <2>2 DEF Received
    <3>. QED
      BY <3>1, <3>2 DEF Received
  <2>4. << >> \in Seq(Change) /\ Complete(<< >>, << >>, << >>, << >>)
    BY EmptySeq, ConcatProperties DEF Complete
  <2>5. WithoutClears(<< >>) = << >>
    BY WithoutClearsParts
  <2>6. /\ Known(ReplyWay(c)', id) = << >>
        /\ KnownOf(s, pending') = << >> /\ WithoutClears(emitted'[s]) = << >>
    BY <2>2, <2>3, <2>5 DEF KnownOf
  <2>7. /\ Complete(Received(c, id)', Known(ReplyWay(c)', id), << >>, WithoutClears(emitted'[s]))
        /\ << >> = KnownOf(s, pending')
    BY <2>3, <2>4, <2>6
  <2>. QED
    BY <1>1, <2>4, <2>7 DEF Follows, KnownOf, Known, ChangesIn, ChangesOf, WithoutClears, Received
<1>4. CASE id \notin connected[c]
  BY <1>1, <1>2, <1>4 DEF Follows, IsConnected
<1>. QED
  BY <1>3, <1>4

\* No step makes a client lose track of a stream.
LEMMA NextFollowing ==
  ASSUME ClientTypes, ServerTypes, ServerTypes', WritesInv, WritesInv', StreamPlaces, OpenedOnce, SessionsStand,
         DOMAIN opened \subseteq ServerStreams, DOMAIN opened' \subseteq ServerStreams,
         Addressed, Following, [Next]_vars
  PROVE  Following'
<1>1. ASSUME NEW s \in DOMAIN opened', s \in DOMAIN opened, opened[s].id \in connected'[opened[s].client]
      PROVE  Follows(s)'
  <2>1. IsConnected(s) /\ Follows(s) /\ opened'[s] = opened[s]
    BY <1>1, NextObservers, NextOpened DEF Following
  <2>2. opened[s].client \in Clients /\ opened[s].client \in accepted
    BY <1>1, OpenedStreamIds
  <2>3. opened[s].id \in StreamIds
    BY <2>1, <2>2 DEF IsConnected, ClientTypes, ClientTypeOK
  <2>4. link'[opened[s].client] = "open" => link[opened[s].client] = "open"
    BY <2>2, NextLinks DEF LinksFall
  <2>5. Told(opened[s].client, opened[s].id)
    BY <2>2, <2>3, NextTold
  <2>6. ASSUME (RunApply /\ UNCHANGED clientVars) \/ UNCHANGED <<pending, emitted>> PROVE Follows(s)'
    BY <1>1, <2>1, <2>4, <2>5, <2>6, ToldFollows
  <2>7. ASSUME NEW changes \in Seq(HeldChange), Puts(changes) PROVE Follows(s)'
    BY <1>1, <2>1, <2>7, PutFollows
  <2>. QED
    BY <2>6, <2>7, NextPut
<1>2. ASSUME NEW s \in DOMAIN opened', s \in DOMAIN opened, opened[s].id \notin connected'[opened[s].client]
      PROVE  Follows(s)'
  <2>1. opened'[s] = opened[s]
    BY <1>2, NextOpened
  <2>. QED
    BY <1>2, <2>1 DEF Follows, IsConnected
<1>3. ASSUME NEW s \in DOMAIN opened', s \notin DOMAIN opened PROVE Follows(s)'
  <2>1. PICK c \in Clients : RunCreateStream(c) /\ UNCHANGED clientVars
    BY <1>3, NextOpened
  <2>. QED
    BY <1>3, <2>1, OpenedFollows
<1>. QED
  BY <1>1, <1>2, <1>3 DEF Following

\* What clients have of their streams and are told of them.
FollowInv == Addressed /\ Following

\* The server never opens more streams than there may be.
WithinBound == DOMAIN opened \subseteq ServerStreams

\* Each stream of the server is one that a client has opened, and there are as many ids as those.
LEMMA StreamsCounted == Spec => []WithinBound
<1>1. NetInv /\ StreamsInv => WithinBound
  BY OpenedCounted DEF NetInv, StreamsInv, WithinBound
<1>. QED
  BY <1>1, NetInvariant, StreamsInvariant, PTL

\* In every reachable state, what a client has of a stream it observes, what is on the way to it and
\* what the server has queued are together what was put on the stream.
THEOREM FollowInvariant == Spec => []FollowInv
<1>1. ASSUME Init PROVE FollowInv
  <2>. USE <1>1 DEF Init, WireInit, ClientInit, ServerInit
  <2>1. DOMAIN opened = {}
    BY EmptySeq
  <2>2. \A c \in Clients : ReplyWay(c) = << >>
    <3>1. << >> \o << >> = << >>
      BY EmptySeq, ConcatProperties
    <3>. QED
      BY <3>1 DEF ReplyWay, Unsent
  <2>3. \A id \in Nat : Known(<< >>, id) = << >>
    BY KnownParts
  <2>4. \A c \in Clients : \A id \in StreamIds : Received(c, id) = << >>
    <3>1. << >> \o << >> = << >>
      BY EmptySeq, ConcatProperties
    <3>. QED
      BY <3>1 DEF Received
  <2>5. \A s \in ServerStreams : emitted[s] = << >> /\ ChangesOf(s, pending) = << >>
    BY ChangesOfParts
  <2>6. StreamIds \subseteq Nat
    BY DEF StreamIds
  <2>7. Addressed
    BY <2>2, <2>3, <2>4, <2>5, <2>6 DEF Addressed
  <2>. QED
    BY <2>1, <2>7 DEF FollowInv, Following
<1>2. ASSUME NetInv, NetInv', StreamsInv, WithinBound, WithinBound', FollowInv, [Next]_vars
      PROVE  FollowInv'
  <2>1. ClientTypes /\ ServerTypes /\ WritesInv /\ ServerTypes' /\ WritesInv'
    BY <1>2 DEF NetInv
  <2>2. /\ StreamPlaces /\ OpenedOnce /\ SessionsStand /\ Addressed /\ Following
        /\ DOMAIN opened \subseteq ServerStreams /\ DOMAIN opened' \subseteq ServerStreams
    BY <1>2 DEF StreamsInv, FollowInv, WithinBound
  <2>3. Addressed'
    BY <1>2, <2>1, <2>2, NextAddressed
  <2>4. Following'
    BY <1>2, <2>1, <2>2, NextFollowing
  <2>. QED
    BY <2>3, <2>4 DEF FollowInv
<1>. QED
  BY <1>1, <1>2, NetInvariant, StreamsInvariant, StreamsCounted, PTL DEF Spec

\* A list is a prefix of what it is the first part of.
LEMMA FirstPartIsPrefix ==
  ASSUME NEW S, NEW s \in Seq(S), NEW t \in Seq(S)
  PROVE  IsPrefix(s, s \o t)
<1>. DEFINE u == s \o t
<1>1. /\ u \in Seq(S) /\ Len(u) = Len(s) + Len(t) /\ Len(s) \in Nat /\ Len(t) \in Nat
      /\ \A i \in 1 .. Len(s) : u[i] = s[i]
  BY ConcatProperties, LenProperties
<1>. HIDE DEF u
<1>2. Len(s) <= Len(u)
  BY <1>1
<1>3. SubSeq(s, 1, Len(s)) = SubSeq(u, 1, Len(s))
  <2>. DEFINE a == SubSeq(s, 1, Len(s))
              b == SubSeq(u, 1, Len(s))
  <2>1. 1 \in Int /\ Len(s) \in Int /\ \A i \in 1 .. Len(s) : s[i] \in S /\ u[i] \in S
    BY <1>1, ElementOfSeq
  <2>2. /\ a \in Seq(S) /\ Len(a) = IF 1 <= Len(s) THEN Len(s) - 1 + 1 ELSE 0
        /\ \A i \in 1 .. Len(s) - 1 + 1 : a[i] = s[1 + i - 1]
    BY <2>1, SubSeqProperties
  <2>3. /\ b \in Seq(S) /\ Len(b) = IF 1 <= Len(s) THEN Len(s) - 1 + 1 ELSE 0
        /\ \A i \in 1 .. Len(s) - 1 + 1 : b[i] = u[1 + i - 1]
    BY <2>1, SubSeqProperties
  <2>. HIDE DEF a, b
  <2>4. Len(a) = Len(s) /\ Len(b) = Len(s)
    BY <1>1, <2>2, <2>3
  <2>5. ASSUME NEW i \in 1 .. Len(s) PROVE a[i] = b[i]
    <3>1. 1 + i - 1 = i /\ i \in 1 .. Len(s) - 1 + 1
      BY <1>1
    <3>. QED
      BY <1>1, <2>2, <2>3, <3>1
  <2>6. a = b
    BY <2>2, <2>3, <2>4, <2>5, SeqEqual
  <2>. QED
    BY <2>6 DEF a, b
<1>. QED
  BY <1>2, <1>3 DEF IsPrefix, u

\* The server's applyStreamChanges, its sessions and the client's processMessage hand an observer
\* each change of its stream that the client knows, once and in order; while the connection stands
\* none is missing, and when it breaks nothing but an end is.
THEOREM ClientsFollowStreams == Spec => []StreamsFollowServer
<1>1. ASSUME ClientTypes, ServerTypes, WritesInv, DOMAIN opened \subseteq ServerStreams, Following,
             NEW s \in DOMAIN opened, IsConnected(s)
      PROVE  /\ IsPrefix(Received(opened[s].client, opened[s].id), WithoutClears(emitted[s]))
             /\ link[opened[s].client] = "open" =>
                  Received(opened[s].client, opened[s].id) \o WithoutClears(UnderWay(opened[s].client, s))
                    = WithoutClears(emitted[s])
  <2>. DEFINE c == opened[s].client
              id == opened[s].id
              r == Received(c, id)
              w == Known(ReplyWay(c), id)
              all == WithoutClears(emitted[s])
  <2>1. c \in Clients /\ id \in Nat /\ id \in StreamIds /\ s \in ServerStreams
    BY <1>1, OpenedStreamIds DEF IsConnected, ClientTypes, ClientTypeOK
  <2>2. r \in Seq(Change) /\ ReplyWay(c) \in Seq(Reply) /\ pending \in Seq(QueuedChange)
    BY <1>1, <2>1, ReceivedType, ReplyWayType DEF ServerTypes, ServerTypeOK, QueuedChange
  <2>3. w \in Seq(Change)
    BY <2>1, <2>2, KnownParts
  <2>4. PICK rest \in Seq(Change) : r \o (w \o rest) = all /\ (link[c] = "open" => rest = KnownOf(s, pending))
    BY <1>1 DEF Following, Follows, Complete
  <2>5. IsPrefix(r, all)
    <3>1. w \o rest \in Seq(Change)
      BY <2>3, ConcatProperties
    <3>. HIDE DEF r, w, all
    <3>2. IsPrefix(r, r \o (w \o rest))
      BY <2>2, <3>1, FirstPartIsPrefix
    <3>. QED
      BY <2>4, <3>2
  <2>6. ASSUME link[c] = "open" PROVE r \o WithoutClears(UnderWay(c, s)) = all
    <3>. DEFINE a == ChangesIn(ReplyWay(c), id)
                b == ChangesOf(s, pending)
    <3>1. UnderWay(c, s) = a \o b
      BY <2>6 DEF UnderWay, ReplyWay
    <3>2. a \in Seq(Change) /\ b \in Seq(Change)
      BY <2>1, <2>2, ChangesInParts, ChangesOfParts
    <3>3. WithoutClears(a) = w /\ WithoutClears(b) = rest
      BY <2>4, <2>6 DEF Known, KnownOf
    <3>. HIDE DEF a, b, r, w, all
    <3>4. WithoutClears(a \o b) = WithoutClears(a) \o WithoutClears(b)
      BY <3>2, WithoutClearsParts
    <3>. QED
      BY <2>4, <3>1, <3>3, <3>4
  <2>. QED
    BY <2>5, <2>6
<1>2. NetInv /\ WithinBound /\ FollowInv => StreamsFollowServer
  BY <1>1 DEF NetInv, FollowInv, StreamsFollowServer, WithinBound
<1>. QED
  BY <1>2, NetInvariant, StreamsCounted, FollowInvariant, PTL

-----------------------------------------------------------------------------
(* A client that has its results has what the batch did *)

\* The front of a list, and of two lists.
LEMMA FrontOfConcat ==
  ASSUME NEW S, NEW s \in Seq(S), NEW t \in Seq(S)
  PROVE  /\ \A n \in 0 .. Len(s) : SubSeq(s \o t, 1, n) = SubSeq(s, 1, n) /\ SubSeq(s, 1, n) \in Seq(S)
         /\ \A n \in 0 .. Len(t) : SubSeq(s \o t, 1, Len(s) + n) = s \o SubSeq(t, 1, n)
         /\ SubSeq(s, 1, 0) = << >> /\ SubSeq(s, 1, Len(s)) = s
<1>. DEFINE u == s \o t
<1>1. /\ u \in Seq(S) /\ Len(u) = Len(s) + Len(t) /\ Len(s) \in Nat /\ Len(t) \in Nat
      /\ \A i \in 1 .. Len(s) + Len(t) : u[i] = IF i <= Len(s) THEN s[i] ELSE t[i - Len(s)]
      /\ \A i \in 1 .. Len(s) : s[i] \in S
      /\ \A i \in 1 .. Len(t) : t[i] \in S
      /\ \A i \in 1 .. Len(u) : u[i] \in S
  BY ConcatProperties, LenProperties, ElementOfSeq
<1>. HIDE DEF u
<1>2. ASSUME NEW q \in Seq(S), NEW n \in 0 .. Len(q)
      PROVE  /\ SubSeq(q, 1, n) \in Seq(S) /\ Len(SubSeq(q, 1, n)) = n
             /\ \A i \in 1 .. n : SubSeq(q, 1, n)[i] = q[i]
  <2>1. Len(q) \in Nat /\ 1 \in Int /\ n \in Int /\ n >= 0
    BY LenProperties
  <2>2. \A i \in 1 .. n : q[i] \in S
    BY <2>1, ElementOfSeq
  <2>3. /\ SubSeq(q, 1, n) \in Seq(S) /\ Len(SubSeq(q, 1, n)) = IF 1 <= n THEN n - 1 + 1 ELSE 0
        /\ \A i \in 1 .. n - 1 + 1 : SubSeq(q, 1, n)[i] = q[1 + i - 1]
    BY <2>1, <2>2, SubSeqProperties
  <2>4. n - 1 + 1 = n /\ \A i \in 1 .. n : 1 + i - 1 = i
    BY <2>1
  <2>5. \A i \in 1 .. n : SubSeq(q, 1, n)[i] = q[i]
    BY <2>3, <2>4
  <2>6. Len(SubSeq(q, 1, n)) = n
    BY <2>1, <2>3
  <2>. QED
    BY <2>3, <2>5, <2>6
<1>3. ASSUME NEW n \in 0 .. Len(s) PROVE SubSeq(u, 1, n) = SubSeq(s, 1, n) /\ SubSeq(s, 1, n) \in Seq(S)
  <2>1. n \in 0 .. Len(u)
    BY <1>1
  <2>2. /\ SubSeq(u, 1, n) \in Seq(S) /\ Len(SubSeq(u, 1, n)) = n
        /\ \A i \in 1 .. n : SubSeq(u, 1, n)[i] = u[i]
    BY <1>1, <1>2, <2>1
  <2>3. /\ SubSeq(s, 1, n) \in Seq(S) /\ Len(SubSeq(s, 1, n)) = n
        /\ \A i \in 1 .. n : SubSeq(s, 1, n)[i] = s[i]
    BY <1>2
  <2>4. \A i \in 1 .. n : u[i] = s[i]
    BY <1>1
  <2>5. \A i \in 1 .. Len(SubSeq(u, 1, n)) : SubSeq(u, 1, n)[i] = SubSeq(s, 1, n)[i]
    BY <2>2, <2>3, <2>4
  <2>. QED
    BY <2>2, <2>3, <2>5, SeqEqual
<1>4. ASSUME NEW n \in 0 .. Len(t) PROVE SubSeq(u, 1, Len(s) + n) = s \o SubSeq(t, 1, n)
  <2>. DEFINE m == Len(s) + n
              front == SubSeq(t, 1, n)
              both == s \o front
              first == SubSeq(u, 1, m)
  <2>1. m \in 0 .. Len(u) /\ m \in Nat
    BY <1>1
  <2>2. front \in Seq(S) /\ Len(front) = n /\ \A i \in 1 .. n : front[i] = t[i]
    BY <1>2
  <2>3. first \in Seq(S) /\ Len(first) = m /\ \A i \in 1 .. m : first[i] = u[i]
    BY <1>1, <1>2, <2>1
  <2>. HIDE DEF front, first
  <2>4. /\ both \in Seq(S) /\ Len(both) = Len(s) + n
        /\ \A i \in 1 .. Len(s) + n : both[i] = IF i <= Len(s) THEN s[i] ELSE front[i - Len(s)]
    BY <2>2, ConcatProperties
  <2>. HIDE DEF both
  <2>5. ASSUME NEW i \in 1 .. m PROVE first[i] = both[i]
    <3>1. i \in 1 .. Len(s) + Len(t) /\ i \in 1 .. Len(s) + n /\ (~(i <= Len(s)) => i - Len(s) \in 1 .. n)
      BY <1>1, <2>1
    <3>2. u[i] = IF i <= Len(s) THEN s[i] ELSE t[i - Len(s)]
      BY <1>1, <3>1
    <3>3. both[i] = IF i <= Len(s) THEN s[i] ELSE front[i - Len(s)]
      BY <2>4, <3>1
    <3>. QED
      BY <2>2, <2>3, <3>1, <3>2, <3>3
  <2>6. first = both
    BY <2>3, <2>4, <2>5, SeqEqual
  <2>. QED
    BY <2>6 DEF first, both, front
<1>5. SubSeq(s, 1, 0) = << >>
  <2>1. 0 \in 0 .. Len(s)
    BY <1>1
  <2>2. SubSeq(s, 1, 0) \in Seq(S) /\ Len(SubSeq(s, 1, 0)) = 0
    BY <1>2, <2>1
  <2>. QED
    BY <2>2, EmptySeq
<1>6. SubSeq(s, 1, Len(s)) = s
  BY SubSeqFull
<1>. QED
  BY <1>3, <1>4, <1>5, <1>6 DEF u

\* The number of changes a client has heard of a stream: before the n-th message on the way to it
\* but one, and after all of them.
Heard(c, id, n) == Len(Received(c, id)) + Len(Known(SubSeq(ReplyWay(c), 1, n), id))
HeardAll(c, id) == Len(Received(c, id)) + Len(Known(ReplyWay(c), id))

\* The numbers of changes in two lists of messages add up.
LEMMA KnownLengths ==
  ASSUME NEW id \in Nat
  PROVE  /\ \A m \in Seq(Reply) : Len(Known(m, id)) \in Nat
         /\ \A m, n \in Seq(Reply) : Len(Known(m \o n, id)) = Len(Known(m, id)) + Len(Known(n, id))
         /\ Len(Known(<< >>, id)) = 0
<1>1. /\ Known(<< >>, id) = << >>
      /\ \A m \in Seq(Reply) : Known(m, id) \in Seq(Change)
      /\ \A m, n \in Seq(Reply) : Known(m \o n, id) = Known(m, id) \o Known(n, id)
  BY KnownParts
<1>2. \A m \in Seq(Reply) : Len(Known(m, id)) \in Nat
  BY <1>1, LenProperties
<1>3. ASSUME NEW m \in Seq(Reply), NEW n \in Seq(Reply)
      PROVE  Len(Known(m \o n, id)) = Len(Known(m, id)) + Len(Known(n, id))
  <2>. DEFINE a == Known(m, id)
              b == Known(n, id)
  <2>1. a \in Seq(Change) /\ b \in Seq(Change) /\ Known(m \o n, id) = a \o b
    BY <1>1
  <2>. HIDE DEF a, b
  <2>2. Len(a \o b) = Len(a) + Len(b)
    BY <2>1, ConcatProperties
  <2>. QED
    BY <2>1, <2>2 DEF a, b
<1>. QED
  BY <1>1, <1>2, <1>3, EmptySeq

\* What is in the front of a way that grows is in the front of the way before it grew, and what is
\* behind it comes after all of it.
LEMMA GrownHeard ==
  ASSUME NEW id \in Nat, NEW w \in Seq(Reply), NEW m \in Seq(Reply), NEW k \in DOMAIN (w \o m)
  PROVE  \/ k \in DOMAIN w /\ (w \o m)[k] = w[k] /\ SubSeq(w \o m, 1, k - 1) = SubSeq(w, 1, k - 1)
         \/ /\ k - Len(w) \in DOMAIN m /\ (w \o m)[k] = m[k - Len(w)]
            /\ Len(Known(w, id)) <= Len(Known(SubSeq(w \o m, 1, k - 1), id))
<1>. DEFINE v == w \o m
<1>1. /\ v \in Seq(Reply) /\ Len(v) = Len(w) + Len(m) /\ Len(w) \in Nat /\ Len(m) \in Nat
      /\ DOMAIN w = 1 .. Len(w) /\ DOMAIN m = 1 .. Len(m) /\ DOMAIN v = 1 .. Len(v)
      /\ \A i \in 1 .. Len(w) + Len(m) : v[i] = IF i <= Len(w) THEN w[i] ELSE m[i - Len(w)]
  BY ConcatProperties, LenProperties
<1>2. /\ \A n \in 0 .. Len(w) : SubSeq(v, 1, n) = SubSeq(w, 1, n)
      /\ \A n \in 0 .. Len(m) : SubSeq(v, 1, Len(w) + n) = w \o SubSeq(m, 1, n)
      /\ \A n \in 0 .. Len(m) : SubSeq(m, 1, n) \in Seq(Reply)
  <2>1. /\ \A n \in 0 .. Len(w) : SubSeq(w \o m, 1, n) = SubSeq(w, 1, n)
        /\ \A n \in 0 .. Len(m) : SubSeq(w \o m, 1, Len(w) + n) = w \o SubSeq(m, 1, n)
    BY FrontOfConcat, SMTT(20)
  <2>2. \A n \in 0 .. Len(m) : SubSeq(m, 1, n) \in Seq(Reply)
    BY FrontOfConcat, SMTT(20)
  <2>. QED
    BY <2>1, <2>2
<1>. HIDE DEF v
<1>3. k \in 1 .. Len(w) + Len(m)
  BY <1>1 DEF v
<1>4. CASE k <= Len(w)
  <2>1. k \in DOMAIN w /\ v[k] = w[k] /\ k - 1 \in 0 .. Len(w)
    BY <1>1, <1>3, <1>4
  <2>. QED
    BY <1>2, <2>1 DEF v
<1>5. CASE ~(k <= Len(w))
  <2>. DEFINE n == k - 1 - Len(w)
  <2>1. k - Len(w) \in DOMAIN m /\ v[k] = m[k - Len(w)] /\ n \in 0 .. Len(m) /\ k - 1 = Len(w) + n
    BY <1>1, <1>3, <1>5
  <2>. HIDE DEF n
  <2>. DEFINE f == SubSeq(m, 1, n)
  <2>2. SubSeq(v, 1, k - 1) = w \o f /\ f \in Seq(Reply)
    BY <1>2, <2>1
  <2>. HIDE DEF f
  <2>3. Len(Known(w \o f, id)) = Len(Known(w, id)) + Len(Known(f, id)) /\ Len(Known(w, id)) \in Nat /\ Len(Known(f, id)) \in Nat
    BY <2>2, KnownLengths
  <2>4. Len(Known(w, id)) <= Len(Known(SubSeq(v, 1, k - 1), id))
    <3>1. PICK a \in Nat : a = Len(Known(w, id))
      BY <2>3
    <3>2. PICK b \in Nat : b = Len(Known(f, id))
      BY <2>3
    <3>3. a <= a + b
      OBVIOUS
    <3>4. Len(Known(w \o f, id)) = a + b
      BY <2>3, <3>1, <3>2
    <3>. QED
      BY <2>2, <3>1, <3>3, <3>4
  <2>. QED
    BY <2>1, <2>4 DEF v
<1>. QED
  BY <1>4, <1>5

\* A client that listens hears no less after a step; results are where they were on the way to it,
\* or are the answer that is sent, after all that is on the way.
LEMMA NextHeard ==
  ASSUME ClientTypes, ClientTypes', ServerTypes, ServerTypes', WritesInv, WritesInv',
         NEW c \in Clients, NEW id \in StreamIds, Told(c, id), ~Forgets(c, id)
  PROVE  /\ Len(Received(c, id)) <= Len(Received(c, id)')
         /\ link'[c] = "open" => HeardAll(c, id) <= HeardAll(c, id)'
         /\ \A k \in DOMAIN ReplyWay(c)' : ReplyWay(c)'[k].op = "task_results" =>
              \/ \E j \in DOMAIN ReplyWay(c) : /\ ReplyWay(c)[j] = ReplyWay(c)'[k]
                                               /\ Heard(c, id, j - 1) <= Heard(c, id, k - 1)'
              \/ /\ RunAnswer /\ link[c] = "open" /\ c = Head(serverPosts).client
                 /\ ReplyWay(c)'[k].id = Head(serverPosts).id
                 /\ HeardAll(c, id) <= Heard(c, id, k - 1)'
<1>. DEFINE w == ReplyWay(c)
            v == ReplyWay(c)'
            r == Received(c, id)
            q == Received(c, id)'
            R == Len(r)
            Q == Len(q)
            K(m) == Len(Known(m, id))
            Same(k) == \E j \in DOMAIN w : w[j] = v[k] /\ R + K(SubSeq(w, 1, j - 1)) <= Q + K(SubSeq(v, 1, k - 1))
            Sent(k) == /\ RunAnswer /\ link[c] = "open" /\ c = Head(serverPosts).client
                       /\ v[k].id = Head(serverPosts).id
                       /\ R + K(w) <= Q + K(SubSeq(v, 1, k - 1))
            Goal == /\ R <= Q
                    /\ link'[c] = "open" => R + K(w) <= Q + K(v)
                    /\ \A k \in DOMAIN v : v[k].op = "task_results" => Same(k) \/ Sent(k)
<1>1. /\ w \in Seq(Reply) /\ v \in Seq(Reply) /\ id \in Nat /\ r \in Seq(Change)
      /\ Len(w) \in Nat /\ Len(v) \in Nat /\ R \in Nat /\ DOMAIN w = 1 .. Len(w) /\ DOMAIN v = 1 .. Len(v)
  BY ReplyWayType, NextReplyWayType, ReceivedType, LenProperties DEF StreamIds
<1>2. /\ \A m \in Seq(Reply) : K(m) \in Nat /\ Known(m, id) \in Seq(Change)
      /\ \A m, n \in Seq(Reply) : K(m \o n) = K(m) + K(n)
  BY <1>1, KnownLengths, KnownParts
<1>a. R \in Nat /\ \A m \in Seq(Reply) : K(m) \in Nat
  BY <1>1, <1>2
<1>. HIDE DEF K, R, Q
<1>3. /\ \A n \in 0 .. Len(w) : SubSeq(w, 1, n) \in Seq(Reply)
      /\ \A n \in 0 .. Len(v) : SubSeq(v, 1, n) \in Seq(Reply)
  <2>. HIDE DEF w, v
  <2>. QED
    BY <1>1, FrontOfConcat
<1>4. \A k : k \in 1 .. Len(w) => k - 1 \in 0 .. Len(w)
  BY <1>1
<1>5. ASSUME v = w, q = r PROVE Goal
  <2>0. Q = R
    BY <1>5 DEF Q, R
  <2>1. \A k \in DOMAIN w : K(SubSeq(w, 1, k - 1)) \in Nat
    BY <1>1, <1>2, <1>3, <1>4
  <2>2. \A k \in DOMAIN v : Same(k)
    BY <1>1, <1>5, <2>0, <2>1
  <2>3. R <= Q /\ R + K(w) <= Q + K(v)
    BY <1>1, <1>2, <1>5, <2>0
  <2>. QED
    BY <2>2, <2>3
<1>6. ASSUME WayEnds(c), HearsNothing(c, id) PROVE Goal
  <2>1. PICK gone \in Seq(Reply) : w = v \o gone
    BY <1>6 DEF WayEnds
  <2>2. Q = R /\ link'[c] # "open"
    BY <1>6 DEF WayEnds, HearsNothing, Q, R
  <2>3. ASSUME NEW k \in DOMAIN v PROVE Same(k)
    <3>. HIDE DEF v, w, r, q
    <3>1. /\ Len(v \o gone) = Len(v) + Len(gone) /\ Len(gone) \in Nat
          /\ \A i \in 1 .. Len(v) : (v \o gone)[i] = v[i]
      BY <1>1, ConcatProperties, LenProperties
    <3>2. k \in 1 .. Len(v) /\ k \in DOMAIN w /\ w[k] = v[k] /\ k - 1 \in 0 .. Len(v)
      BY <1>1, <2>1, <2>3, <3>1
    <3>3. SubSeq(w, 1, k - 1) = SubSeq(v, 1, k - 1)
      BY <1>1, <2>1, <3>2, FrontOfConcat, SMTT(20)
    <3>4. K(SubSeq(v, 1, k - 1)) \in Nat
      BY <1>2, <1>3, <3>2
    <3>5. PICK n \in Nat : n = K(SubSeq(w, 1, k - 1)) /\ n = K(SubSeq(v, 1, k - 1))
      BY <3>3, <3>4
    <3>6. R + n <= Q + n
      BY <1>a, <2>2
    <3>. QED
      BY <3>2, <3>5, <3>6
  <2>. QED
    BY <1>1, <2>2, <2>3
<1>7. ASSUME WayAdvances(c), Hears(c, id), ReceiveMessage(c) \/ ReceiveResults(c) PROVE Goal
  <2>. DEFINE h == <<Head(toClient[c])>>
  <2>1. h \in Seq(Reply) /\ Len(h) = 1
    <3>1. toClient[c] \in Seq(Reply) /\ toClient[c] # << >>
      BY <1>7 DEF ReceiveMessage, ReceiveResults, ClientTypes, WireTypeOK
    <3>2. Head(toClient[c]) \in Reply
      BY <3>1, HeadTailProperties
    <3>. QED
      BY <3>2
  <2>2. w = h \o v /\ q = r \o Known(h, id)
    BY <1>7 DEF WayAdvances, Hears
  <2>. HIDE DEF h
  <2>3. Q = R + K(h) /\ K(h) \in Nat
    <3>. DEFINE x == Known(h, id)
    <3>1. x \in Seq(Change) /\ q = r \o x
      BY <1>2, <2>1, <2>2
    <3>. HIDE DEF q, r, x
    <3>2. Len(r \o x) = R + Len(x) /\ Len(x) \in Nat
      <4>1. r \in Seq(Change)
        BY <1>1
      <4>2. x \in Seq(Change)
        BY <3>1
      <4>3. Len(r \o x) = Len(r) + Len(x)
        BY <4>1, <4>2, ConcatProperties
      <4>4. Len(x) \in Nat
        BY <4>2, LenProperties
      <4>. QED
        BY <4>3, <4>4 DEF R
    <3>. QED
      BY <3>1, <3>2 DEF x, K, Q, R
  <2>4. K(w) = K(h) + K(v) /\ K(v) \in Nat
    BY <1>1, <1>2, <2>1, <2>2
  <2>5. ASSUME NEW k \in DOMAIN v PROVE Same(k)
    <3>. HIDE DEF v, w, r, q
    <3>1. /\ Len(h \o v) = 1 + Len(v)
          /\ \A i \in 1 .. 1 + Len(v) : (h \o v)[i] = IF i <= 1 THEN h[i] ELSE v[i - 1]
      <4>1. /\ Len(h \o v) = Len(h) + Len(v)
            /\ \A i \in 1 .. Len(h) + Len(v) : (h \o v)[i] = IF i <= Len(h) THEN h[i] ELSE v[i - Len(h)]
        BY <1>1, <2>1, ConcatProperties
      <4>. QED
        BY <2>1, <4>1
    <3>. DEFINE f == SubSeq(v, 1, k - 1)
    <3>2. /\ k \in 1 .. Len(v) /\ k + 1 \in 1 .. 1 + Len(v) /\ ~(k + 1 <= 1) /\ (k + 1) - 1 = k
          /\ k - 1 \in 0 .. Len(v) /\ 1 + (k - 1) = k
      BY <1>1, <2>5
    <3>3. k + 1 \in DOMAIN w /\ w[k + 1] = v[k]
      <4>1. (h \o v)[k + 1] = v[(k + 1) - 1]
        BY <3>1, <3>2
      <4>. QED
        BY <1>1, <2>2, <3>1, <3>2, <4>1
    <3>4. SubSeq(w, 1, k) = h \o f /\ f \in Seq(Reply)
      <4>1. \A n \in 0 .. Len(v) : SubSeq(h \o v, 1, Len(h) + n) = h \o SubSeq(v, 1, n)
        <5>1. h \in Seq(Reply) /\ v \in Seq(Reply)
          BY <1>1, <2>1
        <5>. QED
          BY <5>1, FrontOfConcat
      <4>2. SubSeq(h \o v, 1, Len(h) + (k - 1)) = h \o SubSeq(v, 1, k - 1)
        BY <3>2, <4>1
      <4>3. Len(h) + (k - 1) = k
        BY <2>1, <3>2
      <4>. QED
        BY <1>3, <2>2, <3>2, <4>2, <4>3
    <3>. HIDE DEF f
    <3>5. K(SubSeq(w, 1, k)) = K(h) + K(f) /\ K(f) \in Nat
      BY <1>2, <2>1, <3>4
    <3>6. R + K(SubSeq(w, 1, (k + 1) - 1)) <= Q + K(f)
      BY <1>a, <2>3, <3>2, <3>5, SMTT(20)
    <3>. QED
      BY <3>3, <3>6 DEF f
  <2>6. R <= Q /\ R + K(w) <= Q + K(v)
    BY <1>a, <2>3, <2>4
  <2>. QED
    BY <2>5, <2>6
<1>8. ASSUME NEW m \in Seq(Reply), WayGrows(c, m), HearsNothing(c, id),
             \A i \in DOMAIN m : m[i].op = "task_results" =>
               RunAnswer /\ c = Head(serverPosts).client /\ m[i].id = Head(serverPosts).id
      PROVE  Goal
  <2>1. q = r /\ Q = R /\ (v = w \/ (v = w \o m /\ link[c] = "open"))
    BY <1>8 DEF WayGrows, HearsNothing, Q, R
  <2>2. CASE v = w \o m /\ link[c] = "open"
    <3>1. ASSUME NEW k \in DOMAIN v, v[k].op = "task_results" PROVE Same(k) \/ Sent(k)
      <4>. HIDE DEF v, w, r, q
      <4>1. k \in DOMAIN (w \o m)
        BY <2>2, <3>1
      <4>2. \/ k \in DOMAIN w /\ (w \o m)[k] = w[k] /\ SubSeq(w \o m, 1, k - 1) = SubSeq(w, 1, k - 1)
            \/ /\ k - Len(w) \in DOMAIN m /\ (w \o m)[k] = m[k - Len(w)]
               /\ Len(Known(w, id)) <= Len(Known(SubSeq(w \o m, 1, k - 1), id))
        BY <1>1, <1>8, <4>1, GrownHeard DEF K
      <4>3. CASE k \in DOMAIN w /\ (w \o m)[k] = w[k] /\ SubSeq(w \o m, 1, k - 1) = SubSeq(w, 1, k - 1)
        <5>1. K(SubSeq(w, 1, k - 1)) \in Nat
          BY <1>1, <1>2, <1>3, <1>4, <4>3
        <5>2. R + K(SubSeq(w, 1, k - 1)) <= Q + K(SubSeq(v, 1, k - 1))
          <6>1. PICK n \in Nat : n = K(SubSeq(w, 1, k - 1)) /\ n = K(SubSeq(v, 1, k - 1))
            BY <2>2, <4>3, <5>1
          <6>2. R + n <= Q + n
            BY <1>a, <2>1
          <6>. QED
            BY <6>1, <6>2
        <5>. QED
          BY <2>2, <4>3, <5>2
      <4>4. CASE /\ k - Len(w) \in DOMAIN m /\ (w \o m)[k] = m[k - Len(w)]
                 /\ Len(Known(w, id)) <= Len(Known(SubSeq(w \o m, 1, k - 1), id))
        <5>1. RunAnswer /\ c = Head(serverPosts).client /\ v[k].id = Head(serverPosts).id
          BY <1>8, <2>2, <3>1, <4>4
        <5>2. K(SubSeq(v, 1, k - 1)) \in Nat /\ K(w) \in Nat
          <6>1. k - 1 \in 0 .. Len(v)
            BY <1>1, <3>1
          <6>. QED
            BY <1>1, <1>2, <1>3, <6>1
        <5>3. K(w) <= K(SubSeq(v, 1, k - 1))
          BY <2>2, <4>4 DEF K
        <5>4. R + K(w) <= Q + K(SubSeq(v, 1, k - 1))
          BY <1>a, <2>1, <5>2, <5>3
        <5>. QED
          BY <2>2, <5>1, <5>4
      <4>. QED
        BY <4>2, <4>3, <4>4
    <3>2. K(v) = K(w) + K(m) /\ K(w) \in Nat /\ K(m) \in Nat
      BY <1>1, <1>2, <2>2
    <3>3. R <= Q /\ R + K(w) <= Q + K(v)
      BY <1>a, <2>1, <3>2
    <3>. QED
      BY <3>1, <3>3
  <2>. QED
    BY <1>5, <2>1, <2>2
<1>9. ASSUME RunApply, WayGrows(c, StreamMessages(c, pending)), HearsNothing(c, id) PROVE Goal
  <2>. DEFINE m == StreamMessages(c, pending)
  <2>1. m \in Seq(Reply) /\ m \in Seq(ChangeReply)
    BY StreamMessagesType DEF ServerTypes, ServerTypeOK, QueuedChange, OpenedStream
  <2>2. \A i \in DOMAIN m : m[i].op = "stream_change"
    <3>. HIDE DEF m
    <3>1. \A i \in DOMAIN m : m[i] \in ChangeReply
      BY <2>1
    <3>. QED
      BY <3>1 DEF ChangeReply
  <2>. HIDE DEF m
  <2>3. \A i \in DOMAIN m : m[i].op # "task_results"
    BY <2>2
  <2>4. WayGrows(c, m)
    BY <1>9 DEF m
  <2>. HIDE DEF Goal
  <2>. QED
    BY <1>8, <1>9, <2>1, <2>3, <2>4
<1>10. ASSUME RunAnswer, WayGrows(c, AnswerTo(c)), HearsNothing(c, id) PROVE Goal
  <2>1. AnswerTo(c) \in Seq(Reply)
    BY <1>10, AnsweredReplies
  <2>2. ASSUME NEW i \in DOMAIN AnswerTo(c) PROVE c = Head(serverPosts).client /\ AnswerTo(c)[i].id = Head(serverPosts).id
    <3>1. CASE c = Head(serverPosts).client /\ c \in receiving \cup sending
      <4>1. AnswerTo(c) = <<TaskResults(Head(serverPosts).id, Head(serverPosts).results)>>
        BY <3>1 DEF AnswerTo
      <4>2. AnswerTo(c)[i] = TaskResults(Head(serverPosts).id, Head(serverPosts).results)
        BY <2>2, <4>1
      <4>. QED
        BY <3>1, <4>2 DEF TaskResults
    <3>2. CASE ~(c = Head(serverPosts).client /\ c \in receiving \cup sending)
      <4>1. AnswerTo(c) = << >>
        BY <3>2 DEF AnswerTo
      <4>. QED
        BY <2>2, <4>1, EmptySeq
    <3>. QED
      BY <3>1, <3>2
  <2>. HIDE DEF Goal
  <2>. QED
    BY <1>8, <1>10, <2>1, <2>2
<1>11. Goal
  <2>1. ASSUME WayStays(c), HearsNothing(c, id) PROVE Goal
    BY <1>5, <2>1 DEF WayStays, HearsNothing
  <2>. HIDE DEF Goal
  <2>. QED
    BY <1>6, <1>7, <1>9, <1>10, <2>1 DEF Told
<1>. QED
  BY <1>11 DEF Heard, HeardAll, K, Q, R

\* What a client must have heard on a stream when it is answered.
Owed(b, s) == Len(WithoutClears(SubSeq(emitted[s], 1, b.after[s])))

\* A batch that was executed.
LEMMA ExecutedBatchType ==
  ASSUME ServerTypes, NEW b \in executed
  PROVE  /\ b.client \in Clients /\ b.id \in Nat /\ b.after \in [ServerStreams -> Nat]
<1>1. b \in ExecutedBatch
  BY DEF ServerTypes, ServerTypeOK, ExecutedBatch
<1>2. b.client \in Clients /\ b.id \in Nat
  BY <1>1 DEF ExecutedBatch
<1>3. b.after \in [ServerStreams -> Nat]
  BY <1>1 DEF ExecutedBatch
<1>. QED
  BY <1>2, <1>3

\* Of a stream's changes, the first ones without clears are no more than all.
LEMMA FirstOnesAreNoMore ==
  ASSUME NEW all \in Seq(Change), NEW n \in 0 .. Len(all)
  PROVE  /\ Len(WithoutClears(SubSeq(all, 1, n))) \in Nat /\ Len(WithoutClears(all)) \in Nat
         /\ Len(WithoutClears(SubSeq(all, 1, n))) <= Len(WithoutClears(all))
<1>. DEFINE s == SubSeq(all, 1, n)
            t == SubSeq(all, n + 1, Len(all))
<1>1. /\ all = s \o t
      /\ s \in Seq(Change) /\ t \in Seq(Change)
  <2>1. Len(all) \in Nat /\ DOMAIN all = 1 .. Len(all) /\ \A i \in 1 .. Len(all) : all[i] \in Change
    BY LenProperties, ElementOfSeq
  <2>2. /\ s \in Seq(Change) /\ Len(s) = n /\ \A i \in 1 .. n : s[i] = all[i]
    <3>1. \A i \in 1 .. n : all[i] \in Change
      BY <2>1
    <3>2. s = [i \in 1 .. n |-> all[i]]
      BY <2>1
    <3>. QED
      BY <3>1, <3>2
  <2>3. /\ t \in Seq(Change) /\ Len(t) = Len(all) - n /\ \A i \in 1 .. Len(all) - n : t[i] = all[i + n]
    <3>1. \A i \in 1 .. Len(all) - n : all[i + n] \in Change
      BY <2>1
    <3>2. t = [i \in 1 .. Len(all) - n |-> all[i + n]]
      BY <2>1
    <3>3. Len(all) - n \in Nat
      BY <2>1
    <3>. QED
      BY <3>1, <3>2, <3>3
  <2>. HIDE DEF s, t
  <2>4. /\ s \o t \in Seq(Change) /\ Len(s \o t) = Len(s) + Len(t)
        /\ \A i \in 1 .. Len(s) + Len(t) : (s \o t)[i] = IF i <= Len(s) THEN s[i] ELSE t[i - Len(s)]
    <3>1. s \in Seq(Change) /\ t \in Seq(Change)
      BY <2>2, <2>3
    <3>. QED
      BY <3>1, ConcatProperties
  <2>5. Len(s \o t) = Len(all)
    BY <2>1, <2>2, <2>3, <2>4
  <2>6. ASSUME NEW i \in 1 .. Len(all) PROVE (s \o t)[i] = all[i]
    BY <2>1, <2>2, <2>3, <2>4, <2>6
  <2>. QED
    BY <2>2, <2>3, <2>4, <2>5, <2>6, SeqEqual
<1>. HIDE DEF s, t
<1>. DEFINE v == WithoutClears(s)
            w == WithoutClears(t)
<1>2. v \in Seq(Change) /\ w \in Seq(Change) /\ WithoutClears(all) = v \o w
  BY <1>1, WithoutClearsParts
<1>. HIDE DEF v, w
<1>3. Len(v \o w) = Len(v) + Len(w) /\ Len(v) \in Nat /\ Len(w) \in Nat
  BY <1>2, ConcatProperties, LenProperties
<1>4. Len(v) <= Len(v) + Len(w) /\ Len(v) + Len(w) \in Nat
  BY <1>3
<1>. QED
  BY <1>2, <1>3, <1>4 DEF v, s

\* What a client that has all of a stream's changes, or has them on the way, has heard.
LEMMA AllIsHeard ==
  ASSUME NEW r \in Seq(Change), NEW w \in Seq(Change), NEW all \in Seq(Change), NEW n \in 0 .. Len(all),
         Complete(r, w, << >>, WithoutClears(all))
  PROVE  Len(WithoutClears(SubSeq(all, 1, n))) <= Len(r) + Len(w)
<1>1. WithoutClears(all) = r \o w
  <2>1. w \o << >> = w
    BY ConcatEmptySeq
  <2>. QED
    BY <2>1 DEF Complete
<1>2. Len(r \o w) = Len(r) + Len(w)
  BY ConcatProperties
<1>. QED
  BY <1>1, <1>2, FirstOnesAreNoMore

\* Streams only get longer.
LEMMA NextEmitted ==
  ASSUME ServerTypes, DOMAIN opened \subseteq ServerStreams, [Next]_vars, NEW s \in ServerStreams
  PROVE  \E more \in Seq(Change) : emitted'[s] = emitted[s] \o more
<1>1. emitted[s] \in Seq(Change)
  BY DEF ServerTypes, ServerTypeOK
<1>2. CASE emitted' = emitted
  <2>1. emitted[s] \o << >> = emitted[s]
    BY <1>1, ConcatEmptySeq
  <2>. QED
    BY <1>2, <2>1, EmptySeq
<1>3. ASSUME NEW changes \in Seq(HeldChange), Puts(changes)
      PROVE  \E more \in Seq(Change) : emitted'[s] = emitted[s] \o more
  <2>1. changes \in Seq(QueuedChange)
    BY HeldChanges
  <2>2. ChangesOf(s, changes) \in Seq(Change)
    BY <2>1, ChangesOfParts
  <2>3. emitted'[s] = emitted[s] \o ChangesOf(s, changes)
    BY <1>3 DEF Puts, Emits
  <2>. QED
    BY <2>2, <2>3
<1>4. RunApply => emitted' = emitted
  BY DEF RunApply
<1>. QED
  BY <1>2, <1>3, <1>4, NextPut

\* What was owed stays what it was.
LEMMA OwedStays ==
  ASSUME ServerTypes, DOMAIN opened \subseteq ServerStreams, [Next]_vars, NEW s \in ServerStreams,
         NEW b, b.after[s] \in 0 .. Len(emitted[s])
  PROVE  /\ b.after[s] \in 0 .. Len(emitted'[s])
         /\ SubSeq(emitted'[s], 1, b.after[s]) = SubSeq(emitted[s], 1, b.after[s])
<1>. DEFINE e == emitted[s]
<1>1. PICK more \in Seq(Change) : emitted'[s] = e \o more
  BY NextEmitted
<1>2. e \in Seq(Change)
  BY DEF ServerTypes, ServerTypeOK
<1>3. PICK n : n = b.after[s]
  OBVIOUS
<1>4. n \in 0 .. Len(e)
  BY <1>3
<1>. HIDE DEF e
<1>5. Len(e \o more) = Len(e) + Len(more) /\ Len(e) \in Nat /\ Len(more) \in Nat
  BY <1>2, ConcatProperties, LenProperties
<1>6. n \in 0 .. Len(e \o more)
  BY <1>4, <1>5
<1>7. SubSeq(e \o more, 1, n) = SubSeq(e, 1, n)
  BY <1>2, <1>4, FrontOfConcat
<1>. QED
  BY <1>1, <1>3, <1>6, <1>7 DEF e

\* A handler posted for the changes.
IsApply(post) == post.op = "apply"
HasApply(posts) == \E i \in DOMAIN posts : IsApply(posts[i])

\* Posted handlers that are followed by more.
Grows(old, new) == \A i \in DOMAIN old : i \in DOMAIN new /\ new[i] = old[i]

\* A signal of the change queue leaves a handler for the changes.
LEMMA PostedApplyGrows ==
  ASSUME NEW posts \in Seq(Posting)
  PROVE  /\ Grows(posts, PostedApply(posts)) /\ HasApply(PostedApply(posts))
         /\ PostedApply(posts) \in Seq(Posting)
         /\ \A j \in DOMAIN PostedApply(posts) : j \in DOMAIN posts \/ IsApply(PostedApply(posts)[j])
<1>. DEFINE e == [op |-> "apply"]
<1>1. e \in Posting /\ IsApply(e)
  BY DEF Posting, IsApply
<1>2. DOMAIN posts = 1 .. Len(posts) /\ Len(posts) \in Nat
  BY LenProperties
<1>3. CASE posts # << >> /\ Last(posts).op = "apply"
  <2>1. PostedApply(posts) = posts
    BY <1>3 DEF PostedApply
  <2>2. Len(posts) \in DOMAIN posts /\ posts[Len(posts)].op = "apply"
    <3>1. Len(posts) # 0
      BY <1>3, EmptySeq
    <3>. QED
      BY <1>2, <1>3, <3>1 DEF Last
  <2>3. HasApply(posts)
    BY <2>2 DEF HasApply, IsApply
  <2>. QED
    BY <2>1, <2>3 DEF Grows
<1>4. CASE ~(posts # << >> /\ Last(posts).op = "apply")
  <2>1. PostedApply(posts) = Append(posts, e)
    BY <1>4 DEF PostedApply
  <2>. HIDE DEF e
  <2>2. /\ Append(posts, e) \in Seq(Posting)
        /\ DOMAIN Append(posts, e) = DOMAIN posts \cup {Len(posts) + 1}
        /\ \A i \in 1 .. Len(posts) : Append(posts, e)[i] = posts[i]
        /\ Append(posts, e)[Len(posts) + 1] = e
    BY <1>1, Appended
  <2>3. Grows(posts, Append(posts, e))
    BY <1>2, <2>2 DEF Grows
  <2>4. HasApply(Append(posts, e))
    <3>1. Len(posts) + 1 \in DOMAIN Append(posts, e) /\ IsApply(Append(posts, e)[Len(posts) + 1])
      BY <1>1, <2>2
    <3>. QED
      BY <3>1 DEF HasApply
  <2>5. \A j \in DOMAIN Append(posts, e) : j \in DOMAIN posts \/ IsApply(Append(posts, e)[j])
    BY <1>1, <2>2
  <2>. QED
    BY <2>1, <2>2, <2>3, <2>4, <2>5
<1>. QED
  BY <1>3, <1>4

\* What is posted last.
LEMMA PostedLast ==
  ASSUME NEW posts \in Seq(Posting), NEW e \in Posting
  PROVE  /\ Grows(posts, Append(posts, e)) /\ Append(posts, e) \in Seq(Posting)
         /\ HasApply(posts) => HasApply(Append(posts, e))
         /\ \A j \in DOMAIN Append(posts, e) : j \in DOMAIN posts \/ (j = Len(posts) + 1 /\ Append(posts, e)[j] = e)
         /\ DOMAIN Append(posts, e) = 1 .. Len(posts) + 1
<1>1. DOMAIN posts = 1 .. Len(posts) /\ Len(posts) \in Nat
  BY LenProperties
<1>2. /\ Append(posts, e) \in Seq(Posting)
      /\ DOMAIN Append(posts, e) = DOMAIN posts \cup {Len(posts) + 1}
      /\ \A i \in 1 .. Len(posts) : Append(posts, e)[i] = posts[i]
      /\ Append(posts, e)[Len(posts) + 1] = e
  BY Appended
<1>3. Grows(posts, Append(posts, e))
  BY <1>1, <1>2 DEF Grows
<1>4. HasApply(posts) => HasApply(Append(posts, e))
  BY <1>3 DEF HasApply, Grows
<1>5. DOMAIN Append(posts, e) = 1 .. Len(posts) + 1
  BY <1>1, <1>2
<1>. QED
  BY <1>2, <1>3, <1>4, <1>5

\* The handler that is run is no longer posted.
RunsFirst ==
  /\ serverPosts # << >>
  /\ \A j \in DOMAIN serverPosts' : j \in Nat \ {0} /\ j + 1 \in DOMAIN serverPosts
                                    /\ serverPosts'[j] = serverPosts[j + 1]
  /\ \A j \in DOMAIN serverPosts : j = 1 \/ (j \in Nat \ {0} /\ j - 1 \in DOMAIN serverPosts')

\* What becomes of the posted handlers: they wait, the first one is run, or more are posted.
NextPosted ==
  \/ UNCHANGED <<serverPosts, pending, executed>>
  \/ RunApply /\ RunsFirst /\ pending' = << >> /\ UNCHANGED executed
  \/ RunsFirst /\ ~IsApply(Head(serverPosts)) /\ UNCHANGED <<pending, executed>>
  \/ /\ Grows(serverPosts, serverPosts') /\ UNCHANGED executed
     /\ \A j \in DOMAIN serverPosts' : j \in DOMAIN serverPosts \/ serverPosts'[j].op # "answer"
     /\ HasApply(serverPosts') \/ UNCHANGED pending
  \/ ExecuteBatch /\ UNCHANGED clientVars

\* Once the first posting has run, the others are as they were.
LEMMA FirstIsRun ==
  ASSUME ServerTypes, serverPosts # << >>, serverPosts' = Tail(serverPosts)
  PROVE  RunsFirst
<1>1. serverPosts \in Seq(Posting)
  BY DEF ServerTypes, ServerTypeOK, Posting
<1>2. /\ DOMAIN serverPosts = 1 .. Len(serverPosts) /\ Len(serverPosts) \in Nat \ {0}
      /\ Tail(serverPosts) \in Seq(Posting) /\ Len(Tail(serverPosts)) = Len(serverPosts) - 1
      /\ \A i \in 1 .. Len(serverPosts) - 1 : Tail(serverPosts)[i] = serverPosts[i + 1]
  BY <1>1, LenProperties, EmptySeq, HeadTailProperties
<1>3. DOMAIN Tail(serverPosts) = 1 .. Len(serverPosts) - 1
  BY <1>2, LenProperties
<1>. QED
  BY <1>2, <1>3 DEF RunsFirst

\* Every step is of one of these kinds.
LEMMA NextIsPosted ==
  ASSUME ServerTypes, [Next]_vars
  PROVE  NextPosted
<1>1. serverPosts \in Seq(Posting)
  BY DEF ServerTypes, ServerTypeOK, Posting
<1>2. CASE UNCHANGED serverVars
  BY <1>2 DEF serverVars, backendVars, NextPosted
<1>3. CASE Server
  <2>1. UNCHANGED clientVars
    BY <1>3 DEF Server
  <2>2. ASSUME NEW c \in Clients,
               \/ Accept(c)
               \/ RunCreateStream(c) \/ RunRemoveStream(c) \/ RunScheduleOperations(c)
               \/ SessionReadFails(c)
               \/ SessionWriteDone(c) \/ SessionWriteFails(c)
        PROVE  NextPosted
    <3>1. UNCHANGED <<serverPosts, pending, executed>>
      BY <2>2 DEF Accept, RunCreateStream, RunRemoveStream, RunScheduleOperations, SessionReadFails,
                  SessionWriteDone, SessionWriteFails, Reads, backendVars
    <3>. QED
      BY <3>1 DEF NextPosted
  <2>3. CASE RunApply
    <3>1. serverPosts # << >> /\ serverPosts' = Tail(serverPosts) /\ pending' = << >> /\ UNCHANGED executed
      BY <2>3 DEF RunApply, Posts
    <3>. QED
      BY <2>3, <3>1, FirstIsRun DEF NextPosted
  <2>4. CASE RunAnswer \/ RunCloseServer
    <3>1. /\ serverPosts # << >> /\ serverPosts' = Tail(serverPosts) /\ UNCHANGED <<pending, executed>>
          /\ Head(serverPosts).op # "apply"
      BY <2>4 DEF RunAnswer, RunCloseServer, Posts, backendVars
    <3>. QED
      BY <3>1, FirstIsRun DEF NextPosted, IsApply
  <2>5. CASE ExecuteBatch
    BY <2>1, <2>5 DEF NextPosted
  <2>6. ASSUME NEW s \in ServerStreams, StartStream(s) PROVE NextPosted
    <3>1. serverPosts' = PostedApply(serverPosts) /\ UNCHANGED executed
      BY <2>6 DEF StartStream
    <3>. HIDE DEF NextPosted
    <3>2. \A j \in DOMAIN serverPosts' : j \in DOMAIN serverPosts \/ serverPosts'[j].op # "answer"
      BY <1>1, <3>1, PostedApplyGrows DEF IsApply
    <3>. QED
      BY <1>1, <3>1, <3>2, PostedApplyGrows DEF NextPosted
  <2>7. CASE StopServer
    <3>. DEFINE e == [op |-> "close"]
    <3>1. serverPosts' = Append(serverPosts, e) /\ UNCHANGED <<pending, executed>> /\ e \in Posting /\ e.op = "close"
      BY <2>7 DEF StopServer, backendVars, Posting
    <3>. HIDE DEF e
    <3>2. /\ Grows(serverPosts, serverPosts')
          /\ \A j \in DOMAIN serverPosts' : j \in DOMAIN serverPosts \/ serverPosts'[j].op # "answer"
      BY <1>1, <3>1, PostedLast
    <3>. QED
      BY <3>1, <3>2 DEF NextPosted
  <2>8. CASE ServiceEnds
    BY <2>8, EndsKeep DEF NextPosted
  <2>. QED
    BY <1>3, <2>2, <2>3, <2>4, <2>5, <2>6, <2>7, <2>8 DEF Server, ServerThread, BackendThread, Handlers, ServiceEnds
<1>. QED
  BY <1>2, <1>3 DEF Next, Client, Network, Disconnect, Terminated, vars

\* A batch is executed, and its answer is posted after what its changes need.
Executes(new, first, answer) ==
  /\ executed' = executed \cup {new}
  /\ new.client = Head(requests).client /\ new.id = Head(requests).id
  /\ \A s \in ServerStreams : new.after[s] = Len(emitted'[s])
  /\ first \in Seq(Posting) /\ answer \in Posting /\ serverPosts' = Append(first, answer)
  /\ Grows(serverPosts, first) /\ (\A j \in DOMAIN first : j \in DOMAIN serverPosts \/ IsApply(first[j]))
  /\ HasApply(first) \/ (first = serverPosts /\ pending' = pending)
  /\ answer.op = "answer" /\ answer.client = new.client /\ answer.id = new.id

\* The worker executes the first request: it posts the answer, after the changes.
LEMMA BatchIsExecuted ==
  ASSUME ServerTypes, ExecuteBatch
  PROVE  \E new, first, answer : Executes(new, first, answer)
<1>. DEFINE r == Head(requests)
            run == Run(r.operations)
            answer == [op |-> "answer", client |-> r.client, id |-> r.id, results |-> run.results]
            new == [client |-> r.client, id |-> r.id, operations |-> r.operations, results |-> run.results,
                    after |-> [s \in ServerStreams |-> Len(emitted'[s])]]
            first == IF run.changes = << >> THEN serverPosts ELSE PostedApply(serverPosts)
<1>1. /\ requests \in Seq(QueuedRequest) /\ requests # << >> /\ opened \in Seq(OpenedStream) /\ storage \in Database
      /\ pending \in Seq(QueuedChange) /\ serverPosts \in Seq(Posting)
  BY DEF ExecuteBatch, ServerTypes, ServerTypeOK, QueuedRequest, OpenedStream, QueuedChange, Posting
<1>2. r \in QueuedRequest
  BY <1>1, HeadTailProperties
<1>3. r.operations \in Seq(Operation) /\ r.client \in Clients /\ r.id \in Nat
  BY <1>2 DEF QueuedRequest
<1>4. run.results \in Seq(Status)
  <2>1. run \in Execution
    BY <1>1, <1>3, RunType DEF OpenedStream
  <2>. HIDE DEF run
  <2>. QED
    BY <2>1 DEF Execution
<1>5. /\ Emits(run.changes) /\ serverPosts' = Append(first, answer) /\ executed' = executed \cup {new}
  BY DEF ExecuteBatch, PostedBatch
<1>. HIDE DEF run
<1>6. answer \in Posting
  BY <1>3, <1>4 DEF Posting
<1>7. /\ first \in Seq(Posting) /\ Grows(serverPosts, first)
      /\ \A j \in DOMAIN first : j \in DOMAIN serverPosts \/ IsApply(first[j])
      /\ HasApply(first) \/ (first = serverPosts /\ run.changes = << >>)
  <2>1. CASE run.changes = << >>
    BY <1>1, <2>1 DEF Grows
  <2>2. CASE run.changes # << >>
    BY <1>1, <2>2, PostedApplyGrows
  <2>. QED
    BY <2>1, <2>2
<1>8. run.changes = << >> => pending' = pending
  <2>1. pending \o << >> = pending
    BY <1>1, ConcatEmptySeq
  <2>. QED
    BY <1>5, <2>1 DEF Emits
<1>9. new.client = r.client /\ new.id = r.id /\ \A s \in ServerStreams : new.after[s] = Len(emitted'[s])
  OBVIOUS
<1>10. answer.op = "answer" /\ answer.client = r.client /\ answer.id = r.id
  OBVIOUS
<1>. HIDE DEF new, first, answer
<1>11. Executes(new, first, answer)
  BY <1>5, <1>6, <1>7, <1>8, <1>9, <1>10 DEF Executes, r
<1>. QED
  BY <1>11

\* What a batch has done is on the streams, and changes that wait have a handler that waits.
AppliesPosted ==
  /\ \A b \in executed : \A s \in ServerStreams : b.after[s] \in 0 .. Len(emitted[s])
  /\ pending # << >> => HasApply(serverPosts)

\* Every step keeps an application of the pending changes posted, and what a batch has put on a stream
\* there.
LEMMA NextApplies ==
  ASSUME ServerTypes, ServerTypes', DOMAIN opened \subseteq ServerStreams, AppliesPosted, [Next]_vars
  PROVE  AppliesPosted'
<1>. DEFINE Holds(b) == \A s \in ServerStreams : b.after[s] \in 0 .. Len(emitted'[s])
<1>1. ASSUME NEW b \in executed PROVE Holds(b)
  <2>1. ASSUME NEW s \in ServerStreams PROVE b.after[s] \in 0 .. Len(emitted'[s])
    <3>1. b.after[s] \in 0 .. Len(emitted[s])
      BY DEF AppliesPosted
    <3>. QED
      BY <3>1, OwedStays
  <2>. QED
    BY <2>1
<1>2. ASSUME NEW new, NEW first, NEW answer, Executes(new, first, answer)
      PROVE  /\ \A b \in executed' : Holds(b)
             /\ pending' # << >> => HasApply(serverPosts')
  <2>1. Holds(new)
    <3>1. ASSUME NEW s \in ServerStreams PROVE new.after[s] \in 0 .. Len(emitted'[s])
      <4>1. emitted'[s] \in Seq(Change)
        BY DEF ServerTypes, ServerTypeOK
      <4>2. Len(emitted'[s]) \in Nat
        BY <4>1, LenProperties
      <4>. QED
        BY <1>2, <4>2 DEF Executes
    <3>. QED
      BY <3>1
  <2>2. HasApply(first) => HasApply(serverPosts')
    BY <1>2, PostedLast DEF Executes
  <2>3. pending' # << >> => HasApply(first)
    BY <1>2 DEF Executes, AppliesPosted
  <2>. HIDE DEF Holds
  <2>. QED
    BY <1>1, <1>2, <2>1, <2>2, <2>3 DEF Executes
<1>. HIDE DEF Holds
<1>3. ASSUME RunsFirst, ~IsApply(Head(serverPosts)), HasApply(serverPosts) PROVE HasApply(serverPosts')
  <2>1. PICK i \in DOMAIN serverPosts : IsApply(serverPosts[i])
    BY <1>3 DEF HasApply
  <2>2. i # 1
    BY <1>3, <2>1, HeadAndRest DEF RunsFirst, ServerTypes, ServerTypeOK
  <2>3. i \in Nat \ {0} /\ i - 1 \in DOMAIN serverPosts'
    BY <1>3, <2>2 DEF RunsFirst
  <2>4. serverPosts'[i - 1] = serverPosts[(i - 1) + 1] /\ (i - 1) + 1 = i
    BY <1>3, <2>3 DEF RunsFirst
  <2>. QED
    BY <2>1, <2>3, <2>4 DEF HasApply
<1>4. ASSUME Grows(serverPosts, serverPosts'), HasApply(serverPosts) PROVE HasApply(serverPosts')
  BY <1>4 DEF Grows, HasApply
<1>5. pending' # << >> => HasApply(serverPosts')
  <2>1. pending # << >> => HasApply(serverPosts)
    BY DEF AppliesPosted
  <2>2. CASE UNCHANGED <<serverPosts, pending, executed>>
    BY <2>1, <2>2 DEF HasApply
  <2>3. CASE ExecuteBatch
    BY <1>2, <2>3, BatchIsExecuted
  <2>. QED
    BY <1>3, <1>4, <2>1, <2>2, <2>3, NextIsPosted DEF NextPosted
<1>6. \A b \in executed' : Holds(b)
  <2>1. CASE executed' = executed
    BY <1>1, <2>1
  <2>2. CASE ExecuteBatch
    BY <1>2, <2>2, BatchIsExecuted
  <2>. QED
    BY <2>1, <2>2, NextIsPosted DEF NextPosted
<1>. QED
  BY <1>5, <1>6 DEF AppliesPosted, Holds

\* A future becomes ready when the first message on the way has its results.
LEMMA NextReady ==
  ASSUME ClientTypes, [Next]_vars, NEW c \in Clients, NEW id \in 1 .. Len(futures[c]), futures'[c][id].ready
  PROVE  \/ futures[c][id].ready
         \/ toClient[c] # << >> /\ Head(toClient[c]).op = "task_results" /\ Head(toClient[c]).id = id
<1>. DEFINE F == [batch : Seq(Operation), ready : BOOLEAN, value : Seq(Status)]
<1>a. futures \in [Clients -> Seq(F)]
  BY DEF ClientTypes, ClientTypeOK
<1>b. \A d \in Clients : Len(futures[d]) \in Nat /\ DOMAIN futures[d] = 1 .. Len(futures[d])
  BY SubmittedType
<1>1. CASE futures' = futures
  BY <1>1
<1>2. ASSUME NEW d \in Clients, NEW batch \in Batches, QueueOperations(d, batch) PROVE futures[c][id].ready
  <2>. DEFINE new == [batch |-> batch, ready |-> FALSE, value |-> << >>]
  <2>1. new \in F
    BY NetAssumption, EmptySeq
  <2>2. futures' = [futures EXCEPT ![d] = Append(@, new)]
    BY <1>2 DEF QueueOperations
  <2>. HIDE DEF new, F
  <2>3. \A i \in 1 .. Len(futures[d]) : Append(futures[d], new)[i] = futures[d][i]
    BY <1>a, <2>1, Appended
  <2>4. futures'[c][id] = futures[c][id]
    BY <1>a, <2>2, <2>3
  <2>. QED
    BY <2>4
<1>3. ASSUME NEW d \in Clients, ReceiveResults(d), ~futures[c][id].ready
      PROVE  toClient[c] # << >> /\ Head(toClient[c]).op = "task_results" /\ Head(toClient[c]).id = id
  <2>. DEFINE message == Head(toClient[d])
  <2>1. /\ toClient[d] # << >> /\ message.op = "task_results"
        /\ \/ futures' = [futures EXCEPT ![d][message.id].ready = TRUE, ![d][message.id].value = message.results]
           \/ futures' = futures
    BY <1>3 DEF ReceiveResults
  <2>. HIDE DEF message, F
  <2>2. futures' = [futures EXCEPT ![d][message.id].ready = TRUE, ![d][message.id].value = message.results]
    BY <1>3, <2>1
  <2>3. c = d /\ message.id = id
    <3>1. CASE c # d
      BY <1>3, <1>a, <2>2, <3>1
    <3>2. CASE c = d /\ message.id # id
      <4>. DEFINE new == [futures[d][message.id] EXCEPT !.ready = TRUE, !.value = message.results]
                  mine == [futures[d] EXCEPT ![message.id] = new]
      <4>1. futures' = [futures EXCEPT ![d] = mine]
        BY <2>2
      <4>2. mine[id] = futures[c][id]
        BY <1>b, <3>2
      <4>. HIDE DEF mine
      <4>3. futures'[c] = mine
        BY <1>a, <3>2, <4>1
      <4>. QED
        BY <1>3, <4>2, <4>3
    <3>. QED
      BY <3>1, <3>2
  <2>. QED
    BY <2>1, <2>3 DEF message
<1>4. ASSUME NEW d \in Clients, MainThread(d) PROVE futures' = futures \/ \E batch \in Batches : QueueOperations(d, batch)
  BY <1>4 DEF MainThread, SubmitOperations, CreateStream, ResetHandle, ApplyStreamChanges, Stop, Join, taskVars
<1>5. ASSUME NEW d \in Clients, CommunicationThread(d) \/ ConnectFails(d) PROVE futures' = futures \/ ReceiveResults(d)
  BY <1>5 DEF CommunicationThread, ConnectFails, RunSubmit, RunClose, SocketConnected, WriteDone, WriteFails,
              ReceiveMessage, ReadFails, IoServiceRunsOut, taskVars
<1>6. ASSUME Server \/ Network \/ UNCHANGED vars PROVE futures' = futures
  BY <1>6 DEF Server, Network, Disconnect, vars, clientVars, taskVars
<1>. QED
  BY <1>1, <1>2, <1>3, <1>4, <1>5, <1>6 DEF Next, Terminated, Client

\* Before a batch is executed, nothing has its results.
LEMMA NoResultsBefore ==
  ASSUME ClientTypes, ServerTypes, WritesInv, BatchPlaces, ResultsKnown, requests # << >>,
         NEW c, NEW id, c = Head(requests).client, id = Head(requests).id
  PROVE  /\ c \in Clients /\ ~futures[c][id].ready
         /\ \A k \in DOMAIN ReplyWay(c) : ~(ReplyWay(c)[k].op = "task_results" /\ ReplyWay(c)[k].id = id)
         /\ \A j \in DOMAIN serverPosts :
              ~(serverPosts[j].op = "answer" /\ serverPosts[j].client = c /\ serverPosts[j].id = id)
<1>1. /\ requests \in Seq(QueuedRequest) /\ DOMAIN requests = 1 .. Len(requests)
      /\ \A b \in executed : b.client \in Clients /\ b.id \in Nat
      /\ \A i \in DOMAIN requests : requests[i].client \in Clients /\ requests[i].id \in Nat
  BY RequestsAreOfClients
<1>2. 1 \in DOMAIN requests /\ Head(requests) = requests[1]
  BY <1>1, HeadAndRest
<1>3. /\ c \in Clients /\ id \in Nat /\ id \in 1 .. Submitted(c)
      /\ \A b \in executed : b.client = c => b.id < id
  BY <1>1, <1>2 DEF BatchPlaces, BatchesRequested, IsOf
<1>4. \A results : ~OfBatch(c, id, results, executed)
  <2>1. ASSUME NEW b \in executed, b.client = c, b.id = id PROVE FALSE
    BY <1>1, <1>3, <2>1
  <2>. QED
    BY <2>1 DEF OfBatch
<1>5. ~futures[c][id].ready
  <2>1. Len(futures[c]) \in Nat /\ DOMAIN futures[c] = 1 .. Len(futures[c]) /\ Submitted(c) \in Nat /\ Submitted(c) <= Len(futures[c])
    BY <1>3, SubmittedType
  <2>2. id \in DOMAIN futures[c]
    BY <1>3, <2>1
  <2>. QED
    BY <1>3, <1>4, <2>2 DEF ResultsKnown
<1>6. ASSUME NEW k \in DOMAIN ReplyWay(c) PROVE ~(ReplyWay(c)[k].op = "task_results" /\ ReplyWay(c)[k].id = id)
  <2>. DEFINE R == KnownReply(c, executed)
              u == IF link[c] = "open" THEN Unsent(c) ELSE << >>
  <2>1. toClient[c] \in Seq(R) /\ outgoing[c] \in Seq(R)
    BY <1>3 DEF ResultsKnown
  <2>. HIDE DEF R
  <2>2. u \in Seq(R)
    <3>1. c \in sending => outgoing[c] # << >>
      BY <1>3 DEF WritesInv
    <3>2. outgoing[c] # << >> => Tail(outgoing[c]) \in Seq(R)
      BY <2>1, HeadTailProperties
    <3>. QED
      BY <2>1, <3>1, <3>2, EmptySeq DEF Unsent
  <2>. HIDE DEF u
  <2>3. toClient[c] \o u \in Seq(R)
    BY <2>1, <2>2, ConcatProperties
  <2>4. ReplyWay(c) \in Seq(R)
    BY <2>3 DEF ReplyWay, u
  <2>5. ReplyWay(c)[k] \in R
    BY <2>4, ElementOfSeq, LenProperties
  <2>. QED
    BY <1>4, <2>5 DEF R, KnownReply
<1>7. ASSUME NEW j \in DOMAIN serverPosts
      PROVE  ~(serverPosts[j].op = "answer" /\ serverPosts[j].client = c /\ serverPosts[j].id = id)
  <2>1. serverPosts \in Seq(KnownPosting(executed))
    BY DEF ResultsKnown
  <2>2. serverPosts[j] \in KnownPosting(executed)
    BY <2>1, ElementOfSeq, LenProperties
  <2>. QED
    BY <1>4, <2>2 DEF KnownPosting
<1>. QED
  BY <1>3, <1>5, <1>6, <1>7

\* A client that has the results of a batch has heard so much of a stream; one that will get them
\* has heard it, or has it on the way before them, or they wait behind a handler for the changes.
ReadyHeard(b, id, n) == futures[b.client][b.id].ready => n <= Len(Received(b.client, id))

SentHeard(b, id, n) ==
  \A k \in DOMAIN ReplyWay(b.client) :
    ReplyWay(b.client)[k].op = "task_results" /\ ReplyWay(b.client)[k].id = b.id => n <= Heard(b.client, id, k - 1)

IsAnswer(post, b) == post.op = "answer" /\ post.client = b.client /\ post.id = b.id
ApplyBefore(j) == \E i \in 1 .. j - 1 : IsApply(serverPosts[i])

PostedHeard(b, id, n) ==
  link[b.client] = "open" =>
    \A j \in DOMAIN serverPosts : IsAnswer(serverPosts[j], b) => ApplyBefore(j) \/ n <= HeardAll(b.client, id)

HeardBefore(b, id, n) == ReadyHeard(b, id, n) /\ SentHeard(b, id, n) /\ PostedHeard(b, id, n)

\* What a client has heard is a number of changes.
LEMMA HeardType ==
  ASSUME ClientTypes, ServerTypes, WritesInv, NEW c \in Clients, NEW id \in StreamIds
  PROVE  /\ Len(Received(c, id)) \in Nat /\ HeardAll(c, id) \in Nat
         /\ \A k \in DOMAIN ReplyWay(c) : Heard(c, id, k - 1) \in Nat
         /\ Heard(c, id, 0) = Len(Received(c, id))
<1>. DEFINE w == ReplyWay(c)
            r == Received(c, id)
<1>1. w \in Seq(Reply) /\ r \in Seq(Change) /\ id \in Nat
  BY ReplyWayType, ReceivedType DEF StreamIds
<1>. HIDE DEF w, r
<1>2. Len(r) \in Nat /\ Len(w) \in Nat /\ DOMAIN w = 1 .. Len(w)
  BY <1>1, LenProperties
<1>3. /\ \A m \in Seq(Reply) : Len(Known(m, id)) \in Nat
      /\ Len(Known(<< >>, id)) = 0
  BY <1>1, KnownLengths
<1>4. \A n \in 0 .. Len(w) : SubSeq(w, 1, n) \in Seq(Reply)
  BY <1>1, FrontOfConcat
<1>5. ASSUME NEW k \in DOMAIN w PROVE Len(r) + Len(Known(SubSeq(w, 1, k - 1), id)) \in Nat
  <2>1. k - 1 \in 0 .. Len(w)
    BY <1>2
  <2>2. Len(Known(SubSeq(w, 1, k - 1), id)) \in Nat
    BY <1>3, <1>4, <2>1
  <2>. QED
    BY <1>2, <2>2
<1>6. Len(Known(w, id)) \in Nat
  BY <1>1, <1>3
<1>7. Len(r) + Len(Known(w, id)) \in Nat
  BY <1>2, <1>6
<1>8. Len(r) + Len(Known(SubSeq(w, 1, 0), id)) = Len(r)
  <2>1. SubSeq(w, 1, 0) = << >>
    BY <1>1, FrontOfConcat
  <2>2. Len(Known(SubSeq(w, 1, 0), id)) = 0
    BY <1>3, <2>1
  <2>. QED
    BY <1>2, <2>2
<1>. QED
  BY <1>2, <1>5, <1>7, <1>8 DEF Heard, HeardAll, w, r

\* What was heard of a stream is counted in natural numbers.
LEMMA NextHeardType ==
  ASSUME ClientTypes', ServerTypes', WritesInv', NEW c \in Clients, NEW id \in StreamIds
  PROVE  /\ Len(Received(c, id)') \in Nat /\ HeardAll(c, id)' \in Nat
         /\ \A k \in DOMAIN ReplyWay(c)' : Heard(c, id, k - 1)' \in Nat
<1>. DEFINE w == ReplyWay(c)'
            r == Received(c, id)'
<1>1. w \in Seq(Reply) /\ id \in Nat
  BY NextReplyWayType DEF StreamIds
<1>2. r \in Seq(Change)
  <2>1. observed'[c][id] \in Seq(Change) /\ changeList'[c][id] \in Seq(Change)
    BY DEF ClientTypes, ClientTypeOK
  <2>. QED
    BY <2>1, ConcatProperties DEF Received
<1>. HIDE DEF w, r
<1>3. Len(r) \in Nat /\ Len(w) \in Nat /\ DOMAIN w = 1 .. Len(w)
  BY <1>1, <1>2, LenProperties
<1>4. \A m \in Seq(Reply) : Len(Known(m, id)) \in Nat
  BY <1>1, KnownLengths
<1>5. \A n \in 0 .. Len(w) : SubSeq(w, 1, n) \in Seq(Reply)
  BY <1>1, FrontOfConcat
<1>6. ASSUME NEW k \in DOMAIN w PROVE Len(r) + Len(Known(SubSeq(w, 1, k - 1), id)) \in Nat
  <2>1. k - 1 \in 0 .. Len(w)
    BY <1>3
  <2>2. Len(Known(SubSeq(w, 1, k - 1), id)) \in Nat
    BY <1>4, <1>5, <2>1
  <2>. QED
    BY <1>3, <2>2
<1>7. Len(Known(w, id)) \in Nat
  BY <1>1, <1>4
<1>8. Len(r) + Len(Known(w, id)) \in Nat
  BY <1>3, <1>7
<1>. QED
  BY <1>3, <1>6, <1>8 DEF Heard, HeardAll, w, r

\* A batch that was executed: its results come after what it did, wherever they are.
LEMMA NextHeardBefore ==
  ASSUME ClientTypes, ClientTypes', ServerTypes, ServerTypes', WritesInv, WritesInv', BatchPlaces, ResultsKnown,
         [Next]_vars, NEW b \in executed, NEW id \in StreamIds, NEW n \in Nat, HeardBefore(b, id, n),
         Told(b.client, id), ~Forgets(b.client, id), link'[b.client] = "open" => link[b.client] = "open",
         RunApply /\ link'[b.client] = "open" => n <= HeardAll(b.client, id)'
  PROVE  HeardBefore(b, id, n)'
<1>1. PICK c \in Clients : c = b.client
  BY ExecutedBatchType
<1>2. /\ Len(Received(c, id)) \in Nat /\ HeardAll(c, id) \in Nat
      /\ \A k \in DOMAIN ReplyWay(c) : Heard(c, id, k - 1) \in Nat
      /\ Heard(c, id, 0) = Len(Received(c, id))
  BY HeardType
<1>3. /\ Len(Received(c, id)') \in Nat /\ HeardAll(c, id)' \in Nat
      /\ \A k \in DOMAIN ReplyWay(c)' : Heard(c, id, k - 1)' \in Nat
  BY NextHeardType
<1>4. /\ Len(Received(c, id)) <= Len(Received(c, id)')
      /\ link'[c] = "open" => HeardAll(c, id) <= HeardAll(c, id)'
      /\ \A k \in DOMAIN ReplyWay(c)' : ReplyWay(c)'[k].op = "task_results" =>
           \/ \E j \in DOMAIN ReplyWay(c) : /\ ReplyWay(c)[j] = ReplyWay(c)'[k]
                                            /\ Heard(c, id, j - 1) <= Heard(c, id, k - 1)'
           \/ /\ RunAnswer /\ link[c] = "open" /\ c = Head(serverPosts).client
              /\ ReplyWay(c)'[k].id = Head(serverPosts).id
              /\ HeardAll(c, id) <= Heard(c, id, k - 1)'
  BY <1>1, NextHeard
<1>5. /\ futures[c][b.id].ready => n <= Len(Received(c, id))
      /\ \A k \in DOMAIN ReplyWay(c) :
           ReplyWay(c)[k].op = "task_results" /\ ReplyWay(c)[k].id = b.id => n <= Heard(c, id, k - 1)
      /\ link[c] = "open" =>
           \A j \in DOMAIN serverPosts : IsAnswer(serverPosts[j], b) => ApplyBefore(j) \/ n <= HeardAll(c, id)
  BY <1>1 DEF HeardBefore, ReadyHeard, SentHeard, PostedHeard
<1>6. serverPosts \in Seq(Posting) /\ DOMAIN serverPosts = 1 .. Len(serverPosts) /\ Len(serverPosts) \in Nat
  BY LenProperties DEF ServerTypes, ServerTypeOK, Posting
<1>7. ReadyHeard(b, id, n)'
  <2>1. ASSUME futures'[c][b.id].ready PROVE n <= Len(Received(c, id)')
    <3>1. b.id \in 1 .. Len(futures[c])
      <4>1. b.id \in 1 .. Submitted(c)
        BY <1>1 DEF BatchPlaces, BatchesExecuted, IsOf
      <4>. QED
        BY <4>1, SubmittedType
    <3>2. CASE futures[c][b.id].ready
      BY <1>2, <1>3, <1>4, <1>5, <3>2
    <3>3. CASE toClient[c] # << >> /\ Head(toClient[c]).op = "task_results" /\ Head(toClient[c]).id = b.id
      <4>1. 1 \in DOMAIN ReplyWay(c) /\ ReplyWay(c)[1] = Head(toClient[c])
        <5>. DEFINE t == toClient[c]
                    u == IF link[c] = "open" THEN Unsent(c) ELSE << >>
        <5>1. t \in Seq(Reply) /\ u \in Seq(Reply)
          BY ReplyWayType, EmptySeq
        <5>. HIDE DEF t, u
        <5>2. /\ Len(t \o u) = Len(t) + Len(u) /\ t \o u \in Seq(Reply)
              /\ \A i \in 1 .. Len(t) + Len(u) : (t \o u)[i] = IF i <= Len(t) THEN t[i] ELSE u[i - Len(t)]
          BY <5>1, ConcatProperties
        <5>3. Len(t) \in Nat \ {0} /\ Head(t) = t[1] /\ Len(u) \in Nat
          BY <3>3, <5>1, HeadAndRest, LenProperties DEF t
        <5>4. 1 \in DOMAIN (t \o u) /\ (t \o u)[1] = Head(t)
          BY <5>2, <5>3, LenProperties
        <5>. QED
          BY <5>4 DEF t, u, ReplyWay
      <4>2. n <= Heard(c, id, 1 - 1)
        BY <1>5, <3>3, <4>1
      <4>. QED
        BY <1>2, <1>3, <1>4, <4>2
    <3>. QED
      BY <2>1, <3>1, <3>2, <3>3, NextReady
  <2>. QED
    BY <1>1, <2>1 DEF ReadyHeard
<1>8. SentHeard(b, id, n)'
  <2>1. ASSUME NEW k \in DOMAIN ReplyWay(c)', ReplyWay(c)'[k].op = "task_results", ReplyWay(c)'[k].id = b.id
        PROVE  n <= Heard(c, id, k - 1)'
    <3>1. ASSUME NEW j \in DOMAIN ReplyWay(c), ReplyWay(c)[j] = ReplyWay(c)'[k],
                 Heard(c, id, j - 1) <= Heard(c, id, k - 1)'
          PROVE  n <= Heard(c, id, k - 1)'
      <4>1. n <= Heard(c, id, j - 1)
        BY <1>5, <2>1, <3>1
      <4>. QED
        BY <1>2, <1>3, <3>1, <4>1
    <3>2. ASSUME RunAnswer, link[c] = "open", c = Head(serverPosts).client,
                 ReplyWay(c)'[k].id = Head(serverPosts).id, HeardAll(c, id) <= Heard(c, id, k - 1)'
          PROVE  n <= Heard(c, id, k - 1)'
      <4>1. serverPosts # << >> /\ Head(serverPosts).op = "answer"
        BY <3>2 DEF RunAnswer, Posts
      <4>2. 1 \in DOMAIN serverPosts /\ Head(serverPosts) = serverPosts[1]
        BY <1>6, <4>1, HeadAndRest
      <4>3. IsAnswer(serverPosts[1], b)
        BY <1>1, <2>1, <3>2, <4>1, <4>2 DEF IsAnswer
      <4>4. ~ApplyBefore(1)
        BY DEF ApplyBefore
      <4>5. n <= HeardAll(c, id)
        BY <1>5, <3>2, <4>2, <4>3, <4>4
      <4>. QED
        BY <1>2, <1>3, <2>1, <3>2, <4>5
    <3>. QED
      BY <1>4, <2>1, <3>1, <3>2
  <2>. QED
    BY <1>1, <2>1 DEF SentHeard
<1>9. PostedHeard(b, id, n)'
  <2>. SUFFICES ASSUME link'[c] = "open", NEW j \in DOMAIN serverPosts', IsAnswer(serverPosts'[j], b)
                PROVE  ApplyBefore(j)' \/ n <= HeardAll(c, id)'
    BY <1>1 DEF PostedHeard
  <2>1. link[c] = "open"
    BY <1>1
  <2>2. ASSUME n <= HeardAll(c, id) PROVE n <= HeardAll(c, id)'
    BY <1>2, <1>3, <1>4, <2>2
  <2>3. ASSUME Grows(serverPosts, serverPosts'), j \in DOMAIN serverPosts PROVE ApplyBefore(j)' \/ n <= HeardAll(c, id)'
    <3>1. IsAnswer(serverPosts[j], b)
      BY <2>3 DEF Grows
    <3>2. ASSUME ApplyBefore(j) PROVE ApplyBefore(j)'
      <4>1. PICK i \in 1 .. j - 1 : IsApply(serverPosts[i])
        BY <3>2 DEF ApplyBefore
      <4>2. i \in DOMAIN serverPosts
        BY <1>6, <2>3, <4>1
      <4>. QED
        BY <2>3, <4>1, <4>2 DEF Grows, ApplyBefore
    <3>. QED
      BY <1>5, <2>1, <2>2, <2>3, <3>1, <3>2
  <2>4. CASE UNCHANGED <<serverPosts, pending, executed>>
    BY <2>3, <2>4 DEF Grows
  <2>5. CASE RunApply
    BY <1>1, <2>5
  <2>6. CASE RunsFirst /\ ~IsApply(Head(serverPosts))
    <3>1. j \in Nat \ {0} /\ j + 1 \in DOMAIN serverPosts /\ serverPosts'[j] = serverPosts[j + 1]
      BY <2>6 DEF RunsFirst
    <3>2. ASSUME ApplyBefore(j + 1) PROVE ApplyBefore(j)'
      <4>1. PICK i \in 1 .. (j + 1) - 1 : IsApply(serverPosts[i])
        BY <3>2 DEF ApplyBefore
      <4>2. i # 1
        BY <1>6, <2>6, <4>1, HeadAndRest DEF RunsFirst
      <4>3. i \in DOMAIN serverPosts /\ i - 1 \in 1 .. j - 1 /\ (i - 1) + 1 = i
        BY <1>6, <3>1, <4>1, <4>2
      <4>4. i - 1 \in DOMAIN serverPosts'
        BY <2>6, <4>2, <4>3 DEF RunsFirst
      <4>5. serverPosts'[i - 1] = serverPosts[i]
        BY <2>6, <4>3, <4>4 DEF RunsFirst
      <4>. QED
        BY <4>1, <4>3, <4>5 DEF ApplyBefore
    <3>. QED
      BY <1>5, <2>1, <2>2, <3>1, <3>2
  <2>7. CASE /\ Grows(serverPosts, serverPosts')
             /\ \A i \in DOMAIN serverPosts' : i \in DOMAIN serverPosts \/ serverPosts'[i].op # "answer"
    BY <2>3, <2>7 DEF IsAnswer
  <2>8. CASE ExecuteBatch
    <3>1. PICK new, first, answer : Executes(new, first, answer)
      BY <2>8, BatchIsExecuted
    <3>2. /\ Grows(serverPosts, first) /\ Grows(first, serverPosts')
          /\ \A i \in DOMAIN first : i \in DOMAIN serverPosts \/ IsApply(first[i])
          /\ \A i \in DOMAIN serverPosts' : i \in DOMAIN first \/ serverPosts'[i] = answer
      BY <3>1, PostedLast DEF Executes
    <3>3. ~IsAnswer(answer, b)
      <4>1. requests # << >>
        BY <2>8 DEF ExecuteBatch
      <4>2. 1 \in DOMAIN requests /\ Head(requests) = requests[1] /\ requests[1].id \in Nat
        BY <4>1, RequestsAreOfClients, HeadAndRest
      <4>3. b.client = requests[1].client => b.id < requests[1].id
        BY <4>2 DEF BatchPlaces, BatchesRequested
      <4>4. b.id \in Nat
        BY ExecutedBatchType
      <4>. QED
        BY <3>1, <4>2, <4>3, <4>4 DEF Executes, IsAnswer
    <3>4. j \in DOMAIN first
      BY <3>2, <3>3
    <3>5. j \in DOMAIN serverPosts
      <4>1. first[j] = serverPosts'[j]
        BY <3>2, <3>4 DEF Grows
      <4>2. ~IsApply(first[j])
        BY <4>1 DEF IsAnswer, IsApply
      <4>. QED
        BY <3>2, <3>4, <4>2
    <3>6. Grows(serverPosts, serverPosts')
      BY <3>2 DEF Grows
    <3>. QED
      BY <2>3, <3>5, <3>6
  <2>. QED
    BY <2>4, <2>5, <2>6, <2>7, <2>8, NextIsPosted DEF NextPosted
<1>. QED
  BY <1>7, <1>8, <1>9 DEF HeardBefore

\* A batch that is executed: nothing has its results but the answer that is posted, after a handler
\* for the changes if any wait.
LEMMA NewHeardBefore ==
  ASSUME ClientTypes, ServerTypes, WritesInv, BatchPlaces, ResultsKnown, ExecuteBatch, UNCHANGED clientVars,
         NEW b, NEW first, NEW answer, Executes(b, first, answer), NEW id \in StreamIds, NEW n \in Nat,
         link'[b.client] = "open" => HasApply(serverPosts') \/ n <= HeardAll(b.client, id)'
  PROVE  HeardBefore(b, id, n)'
<1>1. PICK c : c = b.client
  OBVIOUS
<1>2. /\ requests # << >> /\ c = Head(requests).client /\ b.id = Head(requests).id
      /\ serverPosts' = Append(first, answer) /\ first \in Seq(Posting) /\ answer \in Posting /\ answer.op = "answer"
      /\ \A j \in DOMAIN first : j \in DOMAIN serverPosts \/ IsApply(first[j])
      /\ Grows(serverPosts, first)
  BY <1>1 DEF ExecuteBatch, Executes
<1>3. /\ c \in Clients /\ ~futures[c][b.id].ready
      /\ \A k \in DOMAIN ReplyWay(c) : ~(ReplyWay(c)[k].op = "task_results" /\ ReplyWay(c)[k].id = b.id)
      /\ \A j \in DOMAIN serverPosts :
           ~(serverPosts[j].op = "answer" /\ serverPosts[j].client = c /\ serverPosts[j].id = b.id)
  BY <1>2, NoResultsBefore
<1>4. futures' = futures /\ ReplyWay(c)' = ReplyWay(c)
  <2>1. UNCHANGED <<futures, link, toClient, outgoing, sending>>
    BY DEF ExecuteBatch, sessionVars, wireVars, clientVars, taskVars
  <2>2. WayStays(c)
    BY <1>3, <2>1, SameReplies
  <2>. QED
    BY <2>1, <2>2 DEF WayStays
<1>5. ReadyHeard(b, id, n)'
  BY <1>1, <1>3, <1>4 DEF ReadyHeard
<1>6. SentHeard(b, id, n)'
  BY <1>1, <1>3, <1>4 DEF SentHeard
<1>7. PostedHeard(b, id, n)'
  <2>. SUFFICES ASSUME link'[c] = "open", NEW j \in DOMAIN serverPosts', IsAnswer(serverPosts'[j], b),
                       HasApply(serverPosts')
                PROVE  ApplyBefore(j)'
    BY <1>1 DEF PostedHeard
  <2>1. /\ DOMAIN serverPosts' = 1 .. Len(first) + 1
        /\ \A i \in DOMAIN serverPosts' : i \in DOMAIN first \/ (i = Len(first) + 1 /\ serverPosts'[i] = answer)
        /\ Grows(first, serverPosts')
        /\ Len(first) \in Nat
    BY <1>2, PostedLast, LenProperties
  <2>2. j \notin DOMAIN first
    <3>1. ASSUME j \in DOMAIN first PROVE FALSE
      <4>1. first[j] = serverPosts'[j]
        BY <2>1, <3>1 DEF Grows
      <4>2. ~IsApply(first[j])
        BY <4>1 DEF IsAnswer, IsApply
      <4>3. j \in DOMAIN serverPosts
        BY <1>2, <3>1, <4>2
      <4>4. serverPosts[j] = serverPosts'[j]
        BY <1>2, <4>1, <4>3 DEF Grows
      <4>. QED
        BY <1>1, <1>3, <4>3, <4>4 DEF IsAnswer
    <3>. QED
      BY <3>1
  <2>3. j = Len(first) + 1 /\ serverPosts'[j] = answer
    BY <2>1, <2>2
  <2>4. PICK i \in DOMAIN serverPosts' : IsApply(serverPosts'[i])
    BY DEF HasApply
  <2>5. i # j
    BY <1>2, <2>3, <2>4 DEF IsApply
  <2>6. i \in 1 .. j - 1
    BY <2>1, <2>3, <2>5
  <2>. QED
    BY <2>4, <2>6 DEF ApplyBefore
<1>. QED
  BY <1>5, <1>6, <1>7 DEF HeardBefore

\* When no changes wait, a client whose connection stands has all of its streams, or has it on the way.
LEMMA NextAllIsHeard ==
  ASSUME ClientTypes', ServerTypes', WritesInv', Following', DOMAIN opened' \subseteq ServerStreams,
         NEW s \in DOMAIN opened', NEW c \in Clients, NEW id \in StreamIds, opened'[s].client = c, opened'[s].id = id,
         id \in connected'[c], link'[c] = "open", pending' = << >>, NEW n \in 0 .. Len(emitted'[s])
  PROVE  Len(WithoutClears(SubSeq(emitted'[s], 1, n))) <= HeardAll(c, id)'
<1>. DEFINE r == Received(c, id)'
            w == Known(ReplyWay(c)', id)
            all == emitted'[s]
<1>1. PICK rest \in Seq(Change) : Complete(r, w, rest, WithoutClears(all)) /\ rest = KnownOf(s, pending')
  BY DEF Following, Follows, IsConnected
<1>2. rest = << >>
  BY <1>1, KnownOfParts
<1>3. r \in Seq(Change)
  <2>1. observed'[c][id] \in Seq(Change) /\ changeList'[c][id] \in Seq(Change)
    BY DEF ClientTypes, ClientTypeOK
  <2>. QED
    BY <2>1, ConcatProperties DEF Received
<1>4. w \in Seq(Change)
  <2>1. ReplyWay(c)' \in Seq(Reply) /\ id \in Nat
    BY NextReplyWayType DEF StreamIds
  <2>. QED
    BY <2>1, KnownParts
<1>5. all \in Seq(Change)
  BY DEF ServerTypes, ServerTypeOK
<1>6. HeardAll(c, id)' = Len(r) + Len(w)
  BY DEF HeardAll
<1>7. n \in 0 .. Len(all)
  OBVIOUS
<1>. HIDE DEF r, w, all
<1>8. Len(WithoutClears(SubSeq(all, 1, n))) <= Len(r) + Len(w)
  BY <1>1, <1>2, <1>3, <1>4, <1>5, <1>7, AllIsHeard
<1>. QED
  BY <1>6, <1>8 DEF all

\* Who has the results of a batch, or will get them, has heard of its streams what was owed.
AnswersFollow ==
  \A b \in executed : \A s \in DOMAIN opened :
    opened[s].client = b.client /\ IsConnected(s) => HeardBefore(b, opened[s].id, Owed(b, s))

\* Every step keeps the answer to a batch behind the changes it has made.
LEMMA NextAnswersFollow ==
  ASSUME ClientTypes, ClientTypes', ServerTypes, ServerTypes', WritesInv, WritesInv', BatchPlaces, ResultsKnown,
         StreamPlaces, OpenedOnce, SessionsStand, DOMAIN opened \subseteq ServerStreams, DOMAIN opened' \subseteq ServerStreams,
         Addressed, Following', AppliesPosted, AppliesPosted', AnswersFollow, [Next]_vars
  PROVE  AnswersFollow'
<1>. SUFFICES ASSUME NEW b \in executed', NEW s \in DOMAIN opened', opened'[s].client = b.client,
                     opened'[s].id \in connected'[b.client]
              PROVE  HeardBefore(b, opened[s].id, Owed(b, s))'
  BY DEF AnswersFollow, IsConnected
<1>1. PICK id : id = opened'[s].id
  OBVIOUS
<1>2. PICK c : c = b.client
  OBVIOUS
<1>3. PICK n : n = Owed(b, s)'
  OBVIOUS
<1>4. c \in Clients /\ id \in StreamIds
  <2>1. opened' \in Seq(OpenedStream)
    BY DEF ServerTypes, ServerTypeOK, OpenedStream
  <2>2. opened'[s] \in OpenedStream
    BY <2>1, ElementOfSeq, LenProperties
  <2>3. c \in Clients
    BY <1>2, <2>2 DEF OpenedStream
  <2>4. connected'[c] \subseteq StreamIds
    BY <2>3 DEF ClientTypes, ClientTypeOK
  <2>. QED
    BY <1>1, <1>2, <2>3, <2>4
<1>5. s \in ServerStreams /\ b.after[s] \in 0 .. Len(emitted'[s]) /\ emitted'[s] \in Seq(Change)
  <2>1. s \in ServerStreams
    OBVIOUS
  <2>. QED
    BY <2>1 DEF AppliesPosted, ServerTypes, ServerTypeOK
<1>6. n = Len(WithoutClears(SubSeq(emitted'[s], 1, b.after[s]))) /\ n \in Nat
  BY <1>3, <1>5, FirstOnesAreNoMore DEF Owed
<1>7. link'[c] = "open" /\ pending' = << >> => n <= HeardAll(c, id)'
  <2>1. ASSUME link'[c] = "open", pending' = << >>
        PROVE  Len(WithoutClears(SubSeq(emitted'[s], 1, b.after[s]))) <= HeardAll(c, id)'
    <3>1. PICK m \in 0 .. Len(emitted'[s]) : m = b.after[s]
      BY <1>5
    <3>2. Len(WithoutClears(SubSeq(emitted'[s], 1, m))) <= HeardAll(c, id)'
      BY <1>1, <1>2, <1>4, <2>1, <3>1, NextAllIsHeard
    <3>. QED
      BY <3>1, <3>2
  <2>. QED
    BY <1>6, <2>1
<1>8. ASSUME s \in DOMAIN opened, b \in executed PROVE HeardBefore(b, id, n)'
  <2>1. opened[s] = opened'[s] /\ IsConnected(s)
    <3>1. opened[s] = opened'[s]
      BY <1>8, NextOpened
    <3>. QED
      BY <1>8, <3>1, NextObservers
  <2>2. n = Owed(b, s)
    <3>1. b.after[s] \in 0 .. Len(emitted[s])
      BY <1>5, <1>8 DEF AppliesPosted
    <3>2. SubSeq(emitted'[s], 1, b.after[s]) = SubSeq(emitted[s], 1, b.after[s])
      BY <1>5, <3>1, OwedStays
    <3>. QED
      BY <1>6, <3>2 DEF Owed
  <2>3. HeardBefore(b, id, n)
    BY <1>1, <1>8, <2>1, <2>2 DEF AnswersFollow
  <2>4. Told(c, id)
    BY <1>4, NextTold
  <2>5. ~Forgets(c, id)
    BY <1>1, <1>2 DEF Forgets
  <2>6. link'[c] = "open" => link[c] = "open"
    <3>1. c \in accepted
      BY <1>2, <1>8, <2>1, OpenedStreamIds
    <3>. QED
      BY <3>1, NextLinks DEF LinksFall
  <2>7. RunApply /\ link'[c] = "open" => n <= HeardAll(c, id)'
    BY <1>7 DEF RunApply
  <2>. QED
    BY <1>2, <1>4, <1>6, <1>8, <2>3, <2>4, <2>5, <2>6, <2>7, NextHeardBefore
<1>9. ASSUME s \in DOMAIN opened', s \notin DOMAIN opened PROVE HeardBefore(b, id, n)'
  <2>1. emitted[s] = << >>
    BY <1>5, <1>9 DEF Addressed
  <2>2. emitted' = emitted
    <3>1. PICK d \in Clients : RunCreateStream(d)
      BY <1>9, NextOpened
    <3>. QED
      BY <3>1 DEF RunCreateStream
  <2>3. n = 0
    <3>1. b.after[s] = 0
      <4>1. Len(emitted'[s]) = 0
        BY <2>1, <2>2, EmptySeq
      <4>. QED
        BY <1>5, <4>1
    <3>2. SubSeq(emitted'[s], 1, 0) = << >>
      BY <1>5, FrontOfConcat
    <3>. QED
      BY <1>6, <3>1, <3>2, WithoutClearsParts, EmptySeq
  <2>4. /\ Len(Received(c, id)') \in Nat /\ HeardAll(c, id)' \in Nat
        /\ \A k \in DOMAIN ReplyWay(c)' : Heard(c, id, k - 1)' \in Nat
    BY <1>4, NextHeardType
  <2>5. /\ n <= Len(Received(c, id)') /\ n <= HeardAll(c, id)'
        /\ \A k \in DOMAIN ReplyWay(c)' : n <= Heard(c, id, k - 1)'
    BY <2>3, <2>4
  <2>. QED
    BY <1>2, <2>5 DEF HeardBefore, ReadyHeard, SentHeard, PostedHeard
<1>10. ASSUME b \notin executed PROVE HeardBefore(b, id, n)'
  <2>1. ExecuteBatch /\ UNCHANGED clientVars
    BY <1>10, NextIsPosted DEF NextPosted
  <2>2. PICK new, first, answer : Executes(new, first, answer)
    BY <2>1, BatchIsExecuted
  <2>3. Executes(b, first, answer)
    <3>1. b = new
      BY <1>10, <2>2 DEF Executes
    <3>. QED
      BY <2>2, <3>1
  <2>4. link'[c] = "open" => HasApply(serverPosts') \/ n <= HeardAll(c, id)'
    BY <1>7 DEF AppliesPosted
  <2>. QED
    BY <1>2, <1>4, <1>6, <2>1, <2>3, <2>4, NewHeardBefore
<1>11. HeardBefore(b, id, n)'
  BY <1>8, <1>9, <1>10
<1>12. ReadyHeard(b, opened[s].id, Owed(b, s))'
  BY <1>1, <1>3, <1>11 DEF HeardBefore, ReadyHeard
<1>13. SentHeard(b, opened[s].id, Owed(b, s))'
  BY <1>1, <1>3, <1>11 DEF HeardBefore, SentHeard, Heard
<1>14. PostedHeard(b, opened[s].id, Owed(b, s))'
  BY <1>1, <1>3, <1>11 DEF HeardBefore, PostedHeard, HeardAll
<1>. QED
  BY <1>12, <1>13, <1>14 DEF HeardBefore

\* When answers come after what their batches did.
AnswersInv == AppliesPosted /\ AnswersFollow

\* In every reachable state, what waits in the server's change queue has a handler that waits, and
\* whoever has the results of a batch, or will get them, has or gets before them what it did.
THEOREM AnswersInvariant == Spec => []AnswersInv
<1>1. ASSUME Init PROVE AnswersInv
  BY <1>1 DEF Init, ServerInit, AnswersInv, AppliesPosted, AnswersFollow
<1>2. ASSUME NetInv, NetInv', StreamsInv, WithinBound, WithinBound', FollowInv, FollowInv', AnswersInv, [Next]_vars
      PROVE  AnswersInv'
  <2>1. /\ ClientTypes /\ ServerTypes /\ WritesInv /\ BatchPlaces /\ ResultsKnown
        /\ ClientTypes' /\ ServerTypes' /\ WritesInv'
    BY <1>2 DEF NetInv
  <2>2. /\ StreamPlaces /\ OpenedOnce /\ SessionsStand /\ Addressed /\ Following'
        /\ DOMAIN opened \subseteq ServerStreams /\ DOMAIN opened' \subseteq ServerStreams
    BY <1>2 DEF StreamsInv, FollowInv, WithinBound
  <2>3. AppliesPosted /\ AnswersFollow
    BY <1>2 DEF AnswersInv
  <2>4. AppliesPosted'
    BY <1>2, <2>1, <2>2, <2>3, NextApplies
  <2>5. AnswersFollow'
    BY <1>2, <2>1, <2>2, <2>3, <2>4, NextAnswersFollow
  <2>. QED
    BY <2>4, <2>5 DEF AnswersInv
<1>. QED
  BY <1>1, <1>2, NetInvariant, StreamsInvariant, StreamsCounted, FollowInvariant, PTL DEF Spec

\* NetServer posts the answer of a batch after the handler that sends its changes, and sends to one
\* client in order: when the client has the results, its change queue has had the changes.
THEOREM ClientsReadTheirWrites == Spec => []ReadYourWrites
<1>1. ASSUME NetInv, StreamsInv, WithinBound, AnswersInv PROVE ReadYourWrites
  <2>. SUFFICES ASSUME NEW b \in executed, futures[b.client][b.id].ready, NEW s \in DOMAIN opened,
                       opened[s].client = b.client, IsConnected(s)
                PROVE  Len(Received(b.client, opened[s].id)) >= Len(WithoutClears(SubSeq(emitted[s], 1, b.after[s])))
    BY DEF ReadYourWrites
  <2>1. ServerTypes /\ ClientTypes
    BY <1>1 DEF NetInv
  <2>2. b.client \in Clients
    BY <2>1, ExecutedBatchType
  <2>3. Owed(b, s) <= Len(Received(b.client, opened[s].id))
    BY <1>1 DEF AnswersInv, AnswersFollow, HeardBefore, ReadyHeard
  <2>4. Owed(b, s) \in Nat
    <3>1. s \in ServerStreams
      BY <1>1 DEF WithinBound
    <3>2. b.after[s] \in 0 .. Len(emitted[s]) /\ emitted[s] \in Seq(Change)
      BY <1>1, <2>1, <3>1 DEF AnswersInv, AppliesPosted, ServerTypes, ServerTypeOK
    <3>. QED
      BY <3>2, FirstOnesAreNoMore DEF Owed
  <2>5. Len(Received(b.client, opened[s].id)) \in Nat
    <3>1. opened[s].id \in StreamIds
      BY <2>1, <2>2 DEF IsConnected, ClientTypes, ClientTypeOK
    <3>. QED
      BY <2>1, <2>2, <3>1, ReceivedType, LenProperties
  <2>. QED
    BY <2>3, <2>4, <2>5 DEF Owed
<1>. QED
  BY <1>1, NetInvariant, StreamsInvariant, StreamsCounted, AnswersInvariant, PTL
=============================================================================
