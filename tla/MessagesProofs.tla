--------------------------- MODULE MessagesProofs ---------------------------
(***************************************************************************)
(* What holds of every request, whatever the names of the CSE, the         *)
(* spelling of the address, the texts and the styles of clients: the       *)
(* address leads to the path that was meant, what is meant arrives, and a  *)
(* sender takes for done what was done.                                    *)
(***************************************************************************)
EXTENDS Messages, SequenceTheorems, TLAPS

-----------------------------------------------------------------------------
(* Every address of a resource leads to its path, whatever the names and   *)
(* however long the path.                                                  *)

(* A path with the name of the CSE in front, or "-" in its place.          *)
Spellings(p) == {p, [p EXCEPT ![1] = "-"]}

(* What is left when a prefix is cut off.                                  *)
LEMMA CutPrefix ==
  ASSUME NEW S, NEW x \in Seq(S), NEW d \in Seq(S)
  PROVE  SubSeq(x \o d, Len(x) + 1, Len(x \o d)) = d
<1> DEFINE a == x \o d
           t == SubSeq(a, Len(x) + 1, Len(a))
<1>1. /\ Len(x) \in Nat /\ Len(d) \in Nat
      /\ \A i \in 1 .. Len(d) : d[i] \in S
  BY LenProperties
<1>2. /\ a \in Seq(S) /\ Len(a) = Len(x) + Len(d)
      /\ \A i \in 1 .. Len(x) + Len(d) :
           a[i] = IF i <= Len(x) THEN x[i] ELSE d[i - Len(x)]
  BY ConcatProperties
<1>3. \A i \in 1 .. Len(d) : a[Len(x) + i] = d[i]
  <2> TAKE i \in 1 .. Len(d)
  <2>1. Len(x) + i \in 1 .. Len(x) + Len(d) /\ ~ (Len(x) + i <= Len(x))
    BY <1>1
  <2> QED  BY <1>1, <1>2, <2>1
<1>4. \A i \in Len(x) + 1 .. Len(a) : a[i] \in S
  BY <1>2, LenProperties
<1> HIDE DEF a
<1>5. /\ t \in Seq(S)
      /\ Len(t) = Len(d)
      /\ \A i \in 1 .. Len(d) : t[i] = a[Len(x) + i]
  <2>1. Len(x) + 1 \in Int /\ Len(a) \in Int
    BY <1>1, <1>2
  <2>2. /\ t \in Seq(S)
        /\ Len(t) = IF Len(x) + 1 <= Len(a) THEN Len(a) - (Len(x) + 1) + 1 ELSE 0
        /\ \A i \in 1 .. Len(a) - (Len(x) + 1) + 1 : t[i] = a[(Len(x) + 1) + i - 1]
    BY <1>4, <2>1, SubSeqProperties
  <2> HIDE DEF t
  <2>3. \A i \in 1 .. Len(d) : (Len(x) + 1) + i - 1 = Len(x) + i
    BY <1>1
  <2>4. Len(a) - (Len(x) + 1) + 1 = Len(d)
    BY <1>1, <1>2
  <2>5. \A i \in 1 .. Len(d) : t[i] = a[Len(x) + i]
    <3> TAKE i \in 1 .. Len(d)
    <3>1. t[i] = a[(Len(x) + 1) + i - 1]
      BY <2>2, <2>4
    <3> QED  BY <2>3, <3>1
  <2>6. Len(t) = Len(d)
    BY <1>1, <1>2, <2>2
  <2> QED  BY <2>2, <2>5, <2>6
<1> HIDE DEF t
<1>6. t = d
  BY <1>3, <1>5, SeqEqual
<1> QED  BY <1>6 DEF t, a

(* One element in front of a sequence.                                     *)
LEMMA InFront ==
  ASSUME NEW S, NEW v \in S, NEW d \in Seq(S), Len(d) >= 1,
         NEW s, s = <<v>> \o d
  PROVE  /\ s \in Seq(S)
         /\ Len(s) = Len(d) + 1 /\ Len(s) >= 1 /\ Len(s) >= 2
         /\ s[1] = v /\ s[2] = d[1]
         /\ \A i \in 1 .. Len(s) : s[i] = v \/ \E j \in 1 .. Len(d) : s[i] = d[j]
         /\ Tail(s) = d
<1>1. <<v>> \in Seq(S) /\ Len(<<v>>) = 1 /\ <<v>>[1] = v
  OBVIOUS
<1>2. Len(d) \in Nat
  BY LenProperties
<1>3. /\ s \in Seq(S)
      /\ Len(s) = Len(d) + 1
      /\ \A i \in 1 .. 1 + Len(d) : s[i] = IF i <= 1 THEN <<v>>[i] ELSE d[i - 1]
  BY <1>1, <1>2, ConcatProperties
<1>4. Tail(s) = d
  <2>1. Tail(s) = SubSeq(s, 2, Len(s))
    BY <1>2, <1>3, TailIsSubSeq
  <2>2. SubSeq(s, Len(<<v>>) + 1, Len(s)) = d
    BY <1>1, CutPrefix
  <2> QED  BY <1>1, <2>1, <2>2
<1>5. s[1] = v /\ s[2] = d[1] /\ Len(s) >= 1 /\ Len(s) >= 2
  BY <1>1, <1>2, <1>3
<1>6. ASSUME NEW i \in 1 .. Len(s), i # 1
      PROVE  \E j \in 1 .. Len(d) : s[i] = d[j]
  <2>1. i - 1 \in 1 .. Len(d) /\ i \in 1 .. 1 + Len(d) /\ ~ (i <= 1)
    BY <1>2, <1>3, <1>6
  <2>2. s[i] = d[i - 1]
    BY <1>3, <2>1
  <2> QED  BY <2>1, <2>2
<1> QED  BY <1>3, <1>4, <1>5, <1>6

(* Two segments in front are one before another.                           *)
LEMMA PairInFront ==
  ASSUME NEW S, NEW u \in S, NEW v \in S, NEW d \in Seq(S),
         NEW s, s = <<v>> \o d, NEW a, a = <<u, v>> \o d
  PROVE  a = <<u>> \o s
<1>1. /\ <<u>> \in Seq(S) /\ Len(<<u>>) = 1 /\ <<u>>[1] = u
      /\ <<v>> \in Seq(S) /\ Len(<<v>>) = 1 /\ <<v>>[1] = v
  OBVIOUS
<1>2. <<u>> \o <<v>> = <<u, v>>
  <2> DEFINE l == <<u>> \o <<v>>
             r == <<u, v>>
  <2>1. r \in Seq(S) /\ Len(r) = 2 /\ r[1] = u /\ r[2] = v
    OBVIOUS
  <2>2. /\ l \in Seq(S) /\ Len(l) = 2
        /\ \A i \in 1 .. 2 : l[i] = IF i <= 1 THEN <<u>>[i] ELSE <<v>>[i - 1]
    BY <1>1, ConcatProperties
  <2>3. l[1] = u /\ l[2] = v
    BY <1>1, <2>2
  <2> HIDE DEF l, r
  <2>4. \A i \in 1 .. Len(l) : l[i] = r[i]
    BY <2>1, <2>2, <2>3
  <2>5. l = r
    BY <2>1, <2>2, <2>4, SeqEqual
  <2> QED  BY <2>5 DEF l, r
<1>3. (<<u>> \o <<v>>) \o d = <<u>> \o (<<v>> \o d)
  BY <1>1, ConcatAssociative
<1> QED  BY <1>2, <1>3, Zenon

(* Three in front, and four: what they are, and what follows the first two *)
(* and the first three.                                                    *)
LEMMA ThreeInFront ==
  ASSUME NEW S, NEW u1 \in S, NEW u2 \in S, NEW v \in S,
         NEW d \in Seq(S), Len(d) >= 1,
         NEW a, a = <<u1, u2, v>> \o d
  PROVE  /\ Len(a) >= 2 /\ Len(a) >= 3 /\ Len(a) >= 4
         /\ a[1] = u1 /\ a[2] = u2 /\ a[3] = v
         /\ SubSeq(a, 3, Len(a)) = <<v>> \o d
<1>1. /\ <<u1, u2>> \in Seq(S) /\ Len(<<u1, u2>>) = 2
      /\ <<v>> \in Seq(S) /\ <<u1, u2>> \o <<v>> = <<u1, u2, v>>
  <2>1. <<u1, u2>> \in Seq(S) /\ Len(<<u1, u2>>) = 2 /\ <<v>> \in Seq(S)
    OBVIOUS
  <2>2. <<u1, u2>> \o <<v>> = <<u1, u2, v>>
    <3> DEFINE l == <<u1, u2>> \o <<v>>
               r == <<u1, u2, v>>
    <3>1. r \in Seq(S) /\ Len(r) = 3 /\ r[1] = u1 /\ r[2] = u2 /\ r[3] = v
      OBVIOUS
    <3>2. /\ l \in Seq(S) /\ Len(l) = 3
          /\ \A i \in 1 .. 3 : l[i] = IF i <= 2 THEN <<u1, u2>>[i] ELSE <<v>>[i - 2]
      BY <2>1, ConcatProperties
    <3>3. l[1] = u1 /\ l[2] = u2 /\ l[3] = v
      BY <3>2
    <3> HIDE DEF l, r
    <3>4. \A i \in 1 .. Len(l) : l[i] = r[i]
      BY <3>1, <3>2, <3>3
    <3>5. l = r
      BY <3>1, <3>2, <3>4, SeqEqual
    <3> QED  BY <3>5 DEF l, r
  <2> QED  BY <2>1, <2>2
<1>2. /\ <<u1, u2, v>> \in Seq(S) /\ Len(<<u1, u2, v>>) = 3
      /\ <<u1, u2, v>>[1] = u1 /\ <<u1, u2, v>>[2] = u2 /\ <<u1, u2, v>>[3] = v
  OBVIOUS
<1>3. Len(d) \in Nat
  BY LenProperties
<1>4. /\ Len(a) = 3 + Len(d)
      /\ \A i \in 1 .. 3 + Len(d) :
           a[i] = IF i <= 3 THEN <<u1, u2, v>>[i] ELSE d[i - 3]
  BY <1>2, ConcatProperties
<1>5. Len(a) >= 2 /\ Len(a) >= 3 /\ Len(a) >= 4 /\ a[1] = u1 /\ a[2] = u2 /\ a[3] = v
  BY <1>2, <1>3, <1>4
<1>6. <<v>> \o d \in Seq(S) /\ a = <<u1, u2>> \o (<<v>> \o d)
  BY <1>1, ConcatAssociative, ConcatProperties
<1>7. SubSeq(a, Len(<<u1, u2>>) + 1, Len(a)) = <<v>> \o d
  BY <1>1, <1>6, CutPrefix
<1> QED  BY <1>1, <1>5, <1>7

(* Four segments in front, and what begins with the last of them.          *)
LEMMA FourInFront ==
  ASSUME NEW S, NEW u1 \in S, NEW u2 \in S, NEW u3 \in S, NEW v \in S,
         NEW d \in Seq(S), Len(d) >= 1,
         NEW x, x = <<u1, u2, u3, v>>, NEW a, a = x \o d
  PROVE  /\ Len(a) >= 2 /\ Len(a) >= 3 /\ Len(a) >= 4
         /\ a[1] = u1 /\ a[2] = u2 /\ a[3] = u3
         /\ SubSeq(a, 4, Len(a)) = <<v>> \o d
<1>1. /\ <<u1, u2, u3>> \in Seq(S) /\ Len(<<u1, u2, u3>>) = 3
      /\ <<v>> \in Seq(S) /\ <<u1, u2, u3>> \o <<v>> = <<u1, u2, u3, v>>
  <2>1. /\ <<u1, u2, u3>> \in Seq(S) /\ Len(<<u1, u2, u3>>) = 3
        /\ <<v>> \in Seq(S)
    OBVIOUS
  <2>2. <<u1, u2, u3>> \o <<v>> = <<u1, u2, u3, v>>
    <3> DEFINE l == <<u1, u2, u3>> \o <<v>>
               r == <<u1, u2, u3, v>>
    <3>1. /\ r \in Seq(S) /\ Len(r) = 4
          /\ r[1] = u1 /\ r[2] = u2 /\ r[3] = u3 /\ r[4] = v
      OBVIOUS
    <3>2. /\ l \in Seq(S) /\ Len(l) = 4
          /\ \A i \in 1 .. 4 :
               l[i] = IF i <= 3 THEN <<u1, u2, u3>>[i] ELSE <<v>>[i - 3]
      BY <2>1, ConcatProperties
    <3>3. l[1] = u1 /\ l[2] = u2 /\ l[3] = u3 /\ l[4] = v
      BY <3>2
    <3> HIDE DEF l, r
    <3>4. \A i \in 1 .. Len(l) : l[i] = r[i]
      BY <3>1, <3>2, <3>3
    <3>5. l = r
      BY <3>1, <3>2, <3>4, SeqEqual
    <3> QED  BY <3>5 DEF l, r
  <2> QED  BY <2>1, <2>2
<1>2. /\ <<u1, u2, u3, v>> \in Seq(S) /\ Len(<<u1, u2, u3, v>>) = 4
      /\ <<u1, u2, u3, v>>[1] = u1 /\ <<u1, u2, u3, v>>[2] = u2
      /\ <<u1, u2, u3, v>>[3] = u3
  OBVIOUS
<1>3. Len(d) \in Nat
  BY LenProperties
<1>4. /\ Len(a) = 4 + Len(d)
      /\ \A i \in 1 .. 4 + Len(d) :
           a[i] = IF i <= 4 THEN <<u1, u2, u3, v>>[i] ELSE d[i - 4]
  BY <1>2, ConcatProperties
<1>5. Len(a) >= 2 /\ Len(a) >= 3 /\ Len(a) >= 4 /\ a[1] = u1 /\ a[2] = u2 /\ a[3] = u3
  BY <1>2, <1>3, <1>4
<1>6. <<v>> \o d \in Seq(S) /\ a = <<u1, u2, u3>> \o (<<v>> \o d)
  BY <1>1, ConcatAssociative, ConcatProperties
<1>7. SubSeq(a, Len(<<u1, u2, u3>>) + 1, Len(a)) = <<v>> \o d
  BY <1>1, <1>6, CutPrefix
<1> QED  BY <1>1, <1>5, <1>7

(* The first element of a sequence replaced, and put back.                 *)
LEMMA ReplaceFirst ==
  ASSUME NEW S, NEW s \in Seq(S), Len(s) >= 1, NEW v \in S,
         NEW t, t = [s EXCEPT ![1] = v]
  PROVE  /\ t \in Seq(S)
         /\ Len(t) = Len(s)
         /\ t[1] = v
         /\ \A i \in 2 .. Len(s) : t[i] = s[i]
<1>1. 1 \in 1 .. Len(s) /\ Len(s) \in Nat
  BY LenProperties
<1>2. /\ t \in Seq(S)
      /\ Len(t) = Len(s)
      /\ \A j \in 1 .. Len(s) : t[j] = IF j = 1 THEN v ELSE s[j]
  BY <1>1, ExceptSeq
<1> QED  BY <1>1, <1>2

(* A first segment that is replaced can be put back.                       *)
LEMMA PutBack ==
  ASSUME NEW S, NEW s \in Seq(S), Len(s) >= 1, NEW v \in S
  PROVE  [[s EXCEPT ![1] = v] EXCEPT ![1] = s[1]] = s
<1>1. Len(s) \in Nat /\ s[1] \in S
  BY LenProperties
<1>2. PICK t : t = [s EXCEPT ![1] = v]
  OBVIOUS
<1>3. /\ t \in Seq(S) /\ Len(t) = Len(s)
      /\ \A i \in 2 .. Len(s) : t[i] = s[i]
  BY <1>2, ReplaceFirst
<1>4. PICK u : u = [t EXCEPT ![1] = s[1]]
  OBVIOUS
<1>5. /\ u \in Seq(S) /\ Len(u) = Len(t)
      /\ u[1] = s[1]
      /\ \A i \in 2 .. Len(t) : u[i] = t[i]
  BY <1>1, <1>3, <1>4, ReplaceFirst
<1>6. \A i \in 1 .. Len(u) : u[i] = s[i]
  BY <1>1, <1>3, <1>5
<1>7. u = s
  BY <1>3, <1>5, <1>6, SeqEqual
<1> QED  BY <1>2, <1>4, <1>7

(* A path begins with the name of the CSE or with "-", has no empty        *)
(* segments, and becomes p when "-" is replaced.                           *)
LEMMA SpellingsLeadBack ==
  ASSUME NEW own \in CseNames, NEW p \in Seq(Segment), IsPlainPath(p, own),
         NEW d \in Spellings(p)
  PROVE  /\ d \in Seq(Segment) /\ Len(d) >= 1
         /\ d[1] \in {own.name, "-"}
         /\ \A i \in 1 .. Len(d) : d[i] # ""
         /\ PathFrom(d, own) = p
<1>0. Len(p) \in Nat
  BY LenProperties
<1>1. DOMAIN p = 1 .. Len(p)
  BY LenProperties
<1>2. /\ Len(p) >= 1 /\ p[1] = own.name /\ own.name # "-"
      /\ \A i \in 1 .. Len(p) : p[i] # ""
  BY <1>1 DEF IsPlainPath
<1>3. CASE d = p
  BY <1>2, <1>3 DEF PathFrom
<1>4. CASE d = [p EXCEPT ![1] = "-"]
  <2>1. "-" \in Segment /\ "-" # ""
    BY SegmentAssumption
  <2>2. /\ d \in Seq(Segment) /\ Len(d) = Len(p)
        /\ d[1] = "-"
        /\ \A i \in 2 .. Len(p) : d[i] = p[i]
    <3>1. PICK v \in Segment : v = "-"
      BY <2>1
    <3>2. d = [p EXCEPT ![1] = v]
      BY <1>4, <3>1
    <3>3. /\ d \in Seq(Segment) /\ Len(d) = Len(p)
          /\ d[1] = v
          /\ \A i \in 2 .. Len(p) : d[i] = p[i]
      <4>1. Len(p) >= 1
        BY <1>2
      <4> QED  BY ONLY <4>1, <3>2, v \in Segment, p \in Seq(Segment), ReplaceFirst
    <3> QED  BY <3>1, <3>3
  <2>3. \A i \in 1 .. Len(d) : d[i] # ""
    <3> TAKE i \in 1 .. Len(d)
    <3>1. CASE i = 1
      BY <2>1, <2>2, <3>1
    <3>2. CASE i # 1
      <4>1. i \in 2 .. Len(p) /\ i \in 1 .. Len(p)
        BY ONLY <1>0, <2>2, <3>2, i \in 1 .. Len(d)
      <4> QED  BY <1>2, <2>2, <4>1
    <3> QED  BY <3>1, <3>2
  <2>4. PathFrom(d, own) = [d EXCEPT ![1] = p[1]]
    BY <1>2, <2>2 DEF PathFrom
  <2>5. [d EXCEPT ![1] = p[1]] = p
    BY <1>2, <1>4, <2>1, PutBack
  <2> QED  BY <1>2, <2>2, <2>3, <2>4, <2>5
<1> QED  BY <1>3, <1>4 DEF Spellings

(* The names of a distinctive CSE keep clear of the prefixes.              *)
LEMMA NamesKeepClear ==
  ASSUME NEW own \in CseNames, AreDistinctive(own),
         NEW p \in Seq(Segment), IsPlainPath(p, own)
  PROVE  /\ own.stem \in Segment /\ own.stem \notin SpLike
         /\ own.stem \notin {"", "~", "_", "-"}
         /\ own.spId \in SpLike /\ own.spId \in Segment /\ own.spId # ""
         /\ own.name \notin {"", "~", "_", "-"}
         /\ "" \in Segment /\ "~" \in Segment /\ "_" \in Segment /\ "-" \in Segment
<1>1. Len(p) \in Nat /\ DOMAIN p = 1 .. Len(p)
  BY LenProperties
<1>2. Len(p) >= 1 => 1 \in DOMAIN p
  BY <1>1
<1>3. own.name # ""
  BY <1>2 DEF IsPlainPath
<1>4. own.name \notin {"~", "_", "-"}
  BY DEF IsPlainPath
<1>5. own.stem # "-"
  BY SegmentAssumption DEF AreDistinctive
<1> QED  BY <1>3, <1>4, <1>5, SegmentAssumption DEF AreDistinctive

(* After a prefix come the CSE-ID, which is dropped, and a spelling of the *)
(* path.                                                                   *)
LEMMA AfterPrefix ==
  ASSUME NEW own \in CseNames, AreDistinctive(own),
         NEW p \in Seq(Segment), IsPlainPath(p, own),
         NEW d \in Spellings(p), NEW a,
         SegmentsOf(a) = <<own.stem>> \o d,
         IsAbsolute(a) \/ IsSpRelative(a)
  PROVE  /\ \A i \in DOMAIN SegmentsOf(a) : SegmentsOf(a)[i] # ""
         /\ SkipsCseId(a, own)
         /\ Canonical(a, own) = p
<1>1. /\ d \in Seq(Segment) /\ Len(d) >= 1
      /\ \A i \in 1 .. Len(d) : d[i] # ""
      /\ PathFrom(d, own) = p
  BY SpellingsLeadBack
<1>2. PICK v \in Segment : v = own.stem /\ v # ""
  BY NamesKeepClear
<1>3. PICK s : s = <<v>> \o d
  OBVIOUS
<1>4. /\ Len(s) >= 2 /\ Len(s) = Len(d) + 1 /\ s \in Seq(Segment)
      /\ s[1] = v
      /\ \A i \in 1 .. Len(s) : s[i] = v \/ \E j \in 1 .. Len(d) : s[i] = d[j]
      /\ Tail(s) = d
  <2>1. d \in Seq(Segment)
    BY <1>1
  <2>2. Len(d) >= 1
    BY <1>1
  <2> QED  BY ONLY <1>3, <2>1, <2>2, v \in Segment, InFront
<1>5. DOMAIN s = 1 .. Len(s)
  BY <1>4, LenProperties
<1>6. \A i \in DOMAIN s : s[i] # ""
  BY <1>1, <1>2, <1>4, <1>5, Zenon
<1>7. SegmentsOf(a) = s
  BY <1>2, <1>3
<1>8. SkipsCseId(a, own)
  BY <1>2, <1>4, <1>7 DEF SkipsCseId
<1>9. Canonical(a, own) = p
  BY <1>1, <1>4, <1>7, <1>8 DEF Canonical
<1> QED  BY <1>6, <1>7, <1>8, <1>9

(* The address relative to the service provider.                           *)
LEMMA SpRelativeSpelling ==
  ASSUME NEW own \in CseNames, AreDistinctive(own),
         NEW p \in Seq(Segment), IsPlainPath(p, own),
         NEW d \in Spellings(p), NEW a,
         a = <<"", "~", own.stem>> \o d
  PROVE  IsLocal(a, own) /\ Canonical(a, own) = p
<1>1. d \in Seq(Segment) /\ Len(d) >= 1
  BY SpellingsLeadBack
<1>2. PICK u1 \in Segment : u1 = ""
  BY NamesKeepClear
<1>3. PICK u2 \in Segment : u2 = "~"
  BY NamesKeepClear
<1>4. PICK v \in Segment : v = own.stem /\ v \notin SpLike
  BY NamesKeepClear
<1>5. a = <<u1, u2, v>> \o d
  BY <1>2, <1>3, <1>4
<1>6. /\ Len(a) >= 2 /\ Len(a) >= 3 /\ Len(a) >= 4
      /\ a[1] = u1 /\ a[2] = u2 /\ a[3] = v
      /\ SubSeq(a, 3, Len(a)) = <<v>> \o d
  <2>1. d \in Seq(Segment)
    BY <1>1
  <2>2. Len(d) >= 1
    BY <1>1
  <2> QED
    BY ONLY <1>5, <2>1, <2>2, u1 \in Segment, u2 \in Segment, v \in Segment,
            ThreeInFront
<1>8. IsSpRelative(a) /\ ~ IsAbsolute(a)
  BY <1>3, <1>4, <1>6 DEF IsSpRelative, IsAbsolute
<1>9. SegmentsOf(a) = <<own.stem>> \o d
  BY <1>4, <1>6, <1>8 DEF SegmentsOf
<1>10. /\ \A i \in DOMAIN SegmentsOf(a) : SegmentsOf(a)[i] # ""
       /\ SkipsCseId(a, own)
       /\ Canonical(a, own) = p
  BY <1>8, <1>9, AfterPrefix
<1> QED  BY <1>2, <1>6, <1>8, <1>10 DEF IsLocal, IsAddress

(* The absolute addresses, in their three spellings.                       *)
LEMMA AbsoluteSpelling ==
  ASSUME NEW own \in CseNames, AreDistinctive(own),
         NEW p \in Seq(Segment), IsPlainPath(p, own),
         NEW d \in Spellings(p), NEW a,
         \E mark \in {"", "_", "~"} : a = <<"", mark, own.spId, own.stem>> \o d
  PROVE  IsLocal(a, own) /\ Canonical(a, own) = p
<1>1. d \in Seq(Segment) /\ Len(d) >= 1
  BY SpellingsLeadBack
<1>2. PICK u1 \in Segment : u1 = ""
  BY NamesKeepClear
<1>3. PICK u2 \in Segment : /\ u2 \in {"", "_", "~"}
                            /\ a = <<"", u2, own.spId, own.stem>> \o d
  BY NamesKeepClear
<1>4. PICK u3 \in Segment : u3 = own.spId /\ u3 \in SpLike /\ u3 # ""
  BY NamesKeepClear
<1>5. PICK v \in Segment : v = own.stem
  BY NamesKeepClear
<1>6. PICK x : x = <<u1, u2, u3, v>> /\ a = x \o d
  BY <1>2, <1>3, <1>4, <1>5
<1>7. /\ Len(a) >= 2 /\ Len(a) >= 3 /\ Len(a) >= 4
      /\ a[1] = u1 /\ a[2] = u2 /\ a[3] = u3
      /\ SubSeq(a, 4, Len(a)) = <<v>> \o d
  <2>1. d \in Seq(Segment)
    BY <1>1
  <2>2. Len(d) >= 1
    BY <1>1
  <2> QED
    BY ONLY <1>6, <2>1, <2>2, u1 \in Segment, u2 \in Segment, u3 \in Segment,
            v \in Segment, FourInFront
<1>8. IsAbsolute(a)
  BY <1>3, <1>4, <1>7 DEF IsAbsolute
<1>9. SegmentsOf(a) = <<own.stem>> \o d
  BY <1>5, <1>7, <1>8 DEF SegmentsOf
<1>10. /\ \A i \in DOMAIN SegmentsOf(a) : SegmentsOf(a)[i] # ""
       /\ SkipsCseId(a, own)
       /\ Canonical(a, own) = p
  BY <1>8, <1>9, AfterPrefix
<1> QED  BY <1>2, <1>4, <1>7, <1>8, <1>10 DEF IsLocal, IsAddress

(* Without a prefix nothing is dropped, unless the CSE is named twice.     *)
LEMMA CseRelativeSpelling ==
  ASSUME NEW own \in CseNames, AreDistinctive(own),
         NEW p \in Seq(Segment), IsPlainPath(p, own),
         NEW d \in Spellings(p), NEW a,
         a = <<"">> \o d
  PROVE  IsLocal(a, own) /\ Canonical(a, own) = p
<1>1. /\ d \in Seq(Segment) /\ Len(d) >= 1
      /\ d[1] \in {own.name, "-"}
      /\ \A i \in 1 .. Len(d) : d[i] # ""
      /\ PathFrom(d, own) = p
  BY SpellingsLeadBack
<1>2. PICK u \in Segment : u = ""
  BY NamesKeepClear
<1>3. /\ Len(a) >= 2 /\ a[1] = u /\ a[2] = d[1]
      /\ Tail(a) = d
  <2>1. d \in Seq(Segment)
    BY <1>1
  <2>2. Len(d) >= 1
    BY <1>1
  <2>3. a = <<u>> \o d
    BY <1>2
  <2> QED  BY ONLY <2>1, <2>2, <2>3, u \in Segment, InFront
<1>4. ~ IsAbsolute(a) /\ ~ IsSpRelative(a)
  <2>1. a[2] \notin {"", "_", "~"}
    BY <1>1, <1>3, NamesKeepClear
  <2> QED  BY <2>1 DEF IsAbsolute, IsSpRelative
<1>5. SegmentsOf(a) = d
  BY <1>3, <1>4 DEF SegmentsOf
<1>6. \A i \in DOMAIN d : d[i] # ""
  BY <1>1, LenProperties
<1>7. ~ SkipsCseId(a, own)
  <2>1. ~ (Len(d) >= 2 /\ d[1] = own.stem /\ d[2] \in {own.stem, "-"})
    <3>1. CASE d = p
      BY <3>1 DEF IsPlainPath
    <3>2. CASE d # p
      <4>1. d[1] = "-"
        BY <1>1, <3>2 DEF PathFrom
      <4> QED  BY <4>1, NamesKeepClear
    <3> QED  BY <3>1, <3>2
  <2> QED  BY <1>4, <1>5, <2>1 DEF SkipsCseId
<1>8. Canonical(a, own) = p
  BY <1>1, <1>5, <1>7 DEF Canonical
<1> QED  BY <1>2, <1>3, <1>4, <1>5, <1>6, <1>8 DEF IsLocal, IsAddress

(* The CSE-ID without a prefix, in front of "-".                           *)
LEMMA TwiceNamedSpelling ==
  ASSUME NEW own \in CseNames, AreDistinctive(own),
         NEW p \in Seq(Segment), IsPlainPath(p, own),
         NEW a, a = <<"", own.stem>> \o [p EXCEPT ![1] = "-"]
  PROVE  IsLocal(a, own) /\ Canonical(a, own) = p
<1>1. PICK d \in Spellings(p) : d = [p EXCEPT ![1] = "-"]
  BY DEF Spellings
<1>2. /\ d \in Seq(Segment) /\ Len(d) >= 1
      /\ \A i \in 1 .. Len(d) : d[i] # ""
      /\ PathFrom(d, own) = p
  BY SpellingsLeadBack
<1>3. d[1] = "-"
  <2>1. PICK v \in Segment : v = "-"
    BY NamesKeepClear
  <2>2. Len(p) >= 1
    BY DEF IsPlainPath
  <2>3. d = [p EXCEPT ![1] = v]
    BY <1>1, <2>1
  <2>4. d[1] = v
    BY ONLY <2>2, <2>3, v \in Segment, p \in Seq(Segment), ReplaceFirst
  <2> QED  BY <2>1, <2>4
<1>4. PICK u \in Segment : u = ""
  BY NamesKeepClear
<1>5. PICK v \in Segment : v = own.stem /\ v \notin {"", "~", "_"}
  BY NamesKeepClear
<1>6. PICK s : s = <<v>> \o d
  OBVIOUS
<1>7. d \in Seq(Segment)
  BY <1>2
<1>8. Len(d) >= 1
  BY <1>2
<1>9. /\ s \in Seq(Segment) /\ Len(s) >= 1 /\ Len(s) >= 2
      /\ s[1] = v /\ s[2] = d[1]
      /\ \A i \in 1 .. Len(s) : s[i] = v \/ \E j \in 1 .. Len(d) : s[i] = d[j]
      /\ Tail(s) = d
  BY ONLY <1>6, <1>7, <1>8, v \in Segment, InFront
<1>10. a = <<u>> \o s
  <2>1. a = <<u, v>> \o d
    BY <1>1, <1>4, <1>5
  <2> QED  BY ONLY <1>6, <1>7, <2>1, u \in Segment, v \in Segment, PairInFront
<1>11. /\ Len(a) >= 2 /\ a[1] = u /\ a[2] = s[1]
       /\ Tail(a) = s
  <2>1. s \in Seq(Segment)
    BY <1>9
  <2>2. Len(s) >= 1
    BY <1>9
  <2> QED  BY ONLY <1>10, <2>1, <2>2, u \in Segment, InFront
<1>12. ~ IsAbsolute(a) /\ ~ IsSpRelative(a)
  BY <1>5, <1>9, <1>11 DEF IsAbsolute, IsSpRelative
<1>13. SegmentsOf(a) = s
  BY <1>11, <1>12 DEF SegmentsOf
<1>14. DOMAIN s = 1 .. Len(s)
  BY <1>9, LenProperties
<1>15. \A i \in DOMAIN s : s[i] # ""
  <2>1. ASSUME NEW i \in 1 .. Len(s)  PROVE s[i] # ""
    <3>1. CASE s[i] = v
      BY <1>5, <3>1
    <3>2. CASE \E j \in 1 .. Len(d) : s[i] = d[j]
      BY <1>2, <3>2
    <3> QED  BY <1>9, <3>1, <3>2
  <2> QED  BY <1>14, <2>1
<1>16. SkipsCseId(a, own)
  BY <1>3, <1>5, <1>9, <1>13 DEF SkipsCseId
<1>17. Canonical(a, own) = p
  BY <1>2, <1>9, <1>13, <1>16 DEF Canonical
<1> QED  BY <1>4, <1>11, <1>12, <1>13, <1>15, <1>17 DEF IsLocal, IsAddress

-----------------------------------------------------------------------------

(* All the spellings of the address of one resource (relative to the CSE,  *)
(* to the service provider, absolute with "//", "/_/" or "/~/", with the   *)
(* name of the CSE or with "-") are addresses of this CSE and              *)
(* CanonicalizeAddressingPath turns each into the same path, provided that *)
(* the CSE-ID and the SP-ID can be told apart, and that the path does not  *)
(* begin with the CSE-ID twice.                                            *)
THEOREM AddressesLeadToPath ==
  ASSUME NEW own \in CseNames, AreDistinctive(own),
         NEW p \in Seq(Segment), IsPlainPath(p, own),
         NEW a \in AddressesOf(p, own)
  PROVE  IsLocal(a, own) /\ Canonical(a, own) = p
<1>1. \/ \E d \in Spellings(p) : a \in Spelled(d, own)
      \/ a = <<"", own.stem>> \o [p EXCEPT ![1] = "-"]
  BY DEF AddressesOf, Spellings
<1>2. ASSUME NEW d \in Spellings(p), a \in Spelled(d, own)
      PROVE  IsLocal(a, own) /\ Canonical(a, own) = p
  <2>1. CASE a = <<"">> \o d
    BY <2>1, CseRelativeSpelling
  <2>2. CASE a = <<"", "~", own.stem>> \o d
    BY <2>2, SpRelativeSpelling
  <2>3. CASE \E mark \in {"", "_", "~"} :
               a = <<"", mark, own.spId, own.stem>> \o d
    BY <2>3, AbsoluteSpelling
  <2> QED  BY <1>2, <2>1, <2>2, <2>3 DEF Spelled
<1> QED  BY <1>1, <1>2, TwiceNamedSpelling

-----------------------------------------------------------------------------
(* The address of a request on its way.                                    *)

FromNode == prim.op = "Notify" /\ ~ style.client

(* A notification is posted without a type.                                *)
IsUntypedPost(r) ==
    r.method = "POST" /\ r.mimeType = NoType /\ r.typeHeader = NoType

WayInv ==
    /\ cse \in CseNames /\ meant.path \in Seq(Segment)
    /\ meant.path = <<>> \/ prim.to \in AddressesOf(meant.path, cse) \/ FromNode
    /\ stage \in {"sent", "parsed"} =>
         wire.path = prim.to /\ (FromNode => IsUntypedPost(wire))
    /\ IsDecoded =>
         decoded.to = prim.to /\ (FromNode => decoded.op = "Notify")

(* Encoding leaves the address alone, for nodes and for other clients.     *)
LEMMA EncodedPath ==
  ASSUME NEW p
  PROVE  /\ SerializeRequest(encodeRequest(p)).path = p.to
         /\ ClientMessage(p).path = p.to
         /\ p.op = "Notify" => IsUntypedPost(SerializeRequest(encodeRequest(p)))
<1>1. SerializeRequest(encodeRequest(p)).path = p.to
  BY DEF SerializeRequest, encodeRequest, EmptyRequest
<1>2. ClientMessage(p).path = p.to
  BY DEF ClientMessage, encodeRequest, EmptyRequest
<1>3. ASSUME p.op = "Notify"
      PROVE  IsUntypedPost(SerializeRequest(encodeRequest(p)))
  <2>1. operationToMethod["Notify"] = "POST"
    BY DEF operationToMethod, Operation
  <2>2. encodeRequest(p).method = "POST"
    BY <1>3, <2>1 DEF encodeRequest, EmptyRequest
  <2>3. encodeRequest(p).mimeType = NoType /\ encodeRequest(p).typeHeader = NoType
    BY <1>3 DEF encodeRequest, EmptyRequest, NoType
  <2>4. DOMAIN encodeRequest(p) = DOMAIN EmptyRequest
    BY DEF encodeRequest, EmptyRequest
  <2> QED
    BY <2>2, <2>3, <2>4
    DEF IsUntypedPost, SerializeRequest, Methods, encodeRequest, EmptyRequest
<1> QED  BY <1>1, <1>2, <1>3

(* The parser leaves the address alone.                                    *)
LEMMA ParsedPath ==
  ASSUME NEW r
  PROVE  /\ ParseRequest(r).path = r.path
         /\ IsUntypedPost(r) => IsUntypedPost(ParseRequest(r))
BY DEF ParseRequest, IsUntypedPost

(* Decoding does, and takes an untyped POST for a notification.            *)
LEMMA DecodedPath ==
  ASSUME NEW r
  PROVE  /\ decodeRequest(r).to = r.path
         /\ IsUntypedPost(r) => decodeRequest(r).op = "Notify"
<1>1. decodeRequest(r).to = r.path
  BY DEF decodeRequest
<1>2. ASSUME IsUntypedPost(r)
      PROVE  decodeRequest(r).op = "Notify"
  <2>1. ResourceTypeOf(r) = NoType
    BY <1>2 DEF IsUntypedPost, ResourceTypeOf
  <2>2. methodToOperation(r.method, ResourceTypeOf(r) # NoType) = "Notify"
    BY <1>2, <2>1 DEF IsUntypedPost, methodToOperation
  <2> QED  BY <2>2 DEF decodeRequest
<1> QED  BY <1>1, <1>2

(* The first primitive has an address of what is meant.                    *)
LEMMA WayStarts == Init => WayInv
<1> SUFFICES ASSUME Init  PROVE WayInv
  OBVIOUS
<1>1. PICK q \in Requests :
        /\ meant = [path |-> q.path, text |-> q.text]
        /\ \E to \in IF q.path = <<>> THEN {q.to} ELSE AddressesOf(q.path, cse) :
             prim = [op |-> q.op, to |-> to, from |-> q.from, rqi |-> q.rqi, ty |-> q.ty,
                     params |-> q.params, filters |-> {}, vendor |-> "none",
                     content |-> q.content]
  BY DEF Init
<1>2. meant.path = q.path
  BY <1>1
<1>3. prim.to \in IF q.path = <<>> THEN {q.to} ELSE AddressesOf(q.path, cse)
  BY <1>1
<1>4. cse \in CseNames /\ meant.path \in Seq(Segment)
  BY <1>2, MessagesAssumption DEF Init
<1>5. stage = "built"
  BY DEF Init
<1> QED  BY <1>2, <1>3, <1>4, <1>5 DEF WayInv, IsDecoded

(* The service's decisions.                                                *)
Decides ==
    \/ RefuseInvalid \/ DatabaseFails \/ RefuseTarget
    \/ RefuseCreate \/ Create \/ Retrieve \/ UpdateOrDelete
    \/ Notify

(* A notification, or a verification, begins its own way.                  *)
SendsOn == SendNotification \/ SendSubscriptionVerification

(* A decision leaves an answer, and the rest as it was.                    *)
LEMMA DecidesAnswers ==
  ASSUME Decides
  PROVE  /\ stage = "decoded" /\ stage' = "answering"
         /\ UNCHANGED <<cse, meant, style, prim, wire, decoded, verdict>>
BY DEF Decides, RefuseInvalid, DatabaseFails, RefuseTarget, RefuseCreate, Create,
       Retrieve, UpdateOrDelete, Notify, Answer, Dispatched

(* What is sent on starts over.                                            *)
LEMMA SendsOnStarts ==
  ASSUME SendsOn
  PROVE  /\ stage' = "built" /\ prim'.op = "Notify" /\ style' = Node
         /\ decoded' = NoPrimitive
         /\ UNCHANGED <<cse, meant, verdict>>
BY DEF SendsOn, SendNotification, SendSubscriptionVerification, Sends, NoPrimitive

(* The address is carried along.                                           *)
LEMMA WayStep == WayInv /\ [Next]_vars => WayInv'
<1> SUFFICES ASSUME WayInv, [Next]_vars  PROVE WayInv'
  OBVIOUS
<1>1. CASE Send
  <2>1. /\ stage' = "sent" /\ UNCHANGED <<cse, meant, style, prim, decoded>>
        /\ wire' = IF style.client THEN ClientMessage(prim)
                   ELSE SerializeRequest(encodeRequest(prim))
    BY <1>1 DEF Send
  <2>2. wire'.path = prim.to
    BY <2>1, EncodedPath
  <2>3. FromNode => IsUntypedPost(wire')
    BY <2>1, EncodedPath DEF FromNode
  <2> QED  BY <2>1, <2>2, <2>3 DEF WayInv, FromNode, IsDecoded, IsUntypedPost
<1>2. CASE Parse
  <2>1. /\ stage = "sent" /\ stage' = "parsed"
        /\ UNCHANGED <<cse, meant, style, prim, decoded>>
        /\ wire' = ParseRequest(wire)
    BY <1>2 DEF Parse
  <2>2. wire'.path = wire.path /\ (IsUntypedPost(wire) => IsUntypedPost(wire'))
    BY <2>1, ParsedPath
  <2> QED  BY <2>1, <2>2 DEF WayInv, FromNode, IsDecoded, IsUntypedPost
<1>3. CASE Decode
  <2>1. /\ stage = "parsed" /\ stage' = "decoded"
        /\ UNCHANGED <<cse, meant, style, prim, wire>>
        /\ decoded' = decodeRequest(wire)
    BY <1>3 DEF Decode
  <2>2. decoded'.to = wire.path /\ (IsUntypedPost(wire) => decoded'.op = "Notify")
    BY <2>1, DecodedPath
  <2> QED  BY <2>1, <2>2 DEF WayInv, FromNode, IsDecoded
<1>4. CASE Decides
  BY <1>4, DecidesAnswers DEF WayInv, FromNode, IsDecoded
<1>5. CASE SendsOn
  <2>1. /\ stage' = "built" /\ prim'.op = "Notify" /\ ~ style'.client
        /\ UNCHANGED <<cse, meant>>
    <3>1. ~ Node.client
      BY DEF Node
    <3> QED  BY <1>5, <3>1, SendsOnStarts
  <2> QED  BY <2>1 DEF WayInv, FromNode, IsDecoded
<1>6. CASE SendNowhere \/ Lose \/ RefuseToParse \/ NotifyCrashes \/ Return
  <2>1. /\ stage' \in {"returned", "unparsed"}
        /\ UNCHANGED <<cse, meant, style, prim, wire, decoded>>
    BY <1>6 DEF SendNowhere, Lose, RefuseToParse, NotifyCrashes, Return
  <2> QED  BY <2>1 DEF WayInv, FromNode, IsDecoded
<1>7. CASE UNCHANGED vars
  BY <1>7 DEF vars, WayInv, FromNode, IsDecoded, IsUntypedPost
<1> QED
  BY <1>1, <1>2, <1>3, <1>4, <1>5, <1>6, <1>7 DEF Next, Decides, SendsOn

(* So the service looks up what was meant.                                 *)
LEMMA WayAgrees == WayInv => AddressesAgree
<1> SUFFICES ASSUME WayInv, IsDecoded, decoded.op \in {"Create", "Retrieve"},
                    AreDistinctive(cse), IsPlainPath(meant.path, cse)
             PROVE  IsLocal(decoded.to, cse) /\ Canonical(decoded.to, cse) = meant.path
  BY DEF AddressesAgree
<1>1. decoded.to = prim.to /\ ~ FromNode
  BY DEF WayInv
<1>2. meant.path # <<>>
  <2>1. Len(meant.path) >= 1
    BY DEF IsPlainPath
  <2> QED  BY <2>1
<1>3. prim.to \in AddressesOf(meant.path, cse)
  BY <1>1, <1>2 DEF WayInv
<1>4. cse \in CseNames /\ meant.path \in Seq(Segment)
  BY DEF WayInv
<1> QED  BY <1>1, <1>3, <1>4, AddressesLeadToPath

(* However its author spells the address of a resource, and with whatever  *)
(* query, the service looks up the one path of the resource, for any path  *)
(* and any names of the CSE that prefixes cannot be mistaken for.          *)
THEOREM AddressesAlwaysAgree == Spec => []AddressesAgree
<1> QED  BY WayStarts, WayStep, WayAgrees, PTL DEF Spec

-----------------------------------------------------------------------------
(* What the sender is left with.                                           *)

(* The outcomes that a sender may take for success.                        *)
Agreed == {"OK", "CREATED", "CONFLICT"}

AnswerInv ==
    /\ stage \in {"built", "sent", "parsed", "unparsed"} => decoded = NoPrimitive
    /\ stage = "answering" =>
         /\ answer.rsc \in StatusCode
         /\ answer.rsc \in Agreed => isValidRequest(decoded)
    /\ SuccessAgrees

(* A valid request is not the empty primitive.                             *)
LEMMA ValidIsDecoded == ASSUME NEW p, isValidRequest(p)  PROVE p # NoPrimitive
<1>1. NoPrimitive.rqi = ""
  BY DEF NoPrimitive
<1> QED  BY <1>1 DEF isValidRequest

(* An answer has the status code it is given.                              *)
LEMMA ResponseCodes ==
  ASSUME NEW p, NEW rsc, NEW content
  PROVE  BareResponse(rsc).rsc = rsc /\ makeResponse(p, rsc, content).rsc = rsc
BY DEF BareResponse, makeResponse

(* Each decision answers with a status the service has; only a request     *)
(* that is valid may succeed.                                              *)
LEMMA DecisionsAreGrounded ==
  ASSUME Decides
  PROVE  /\ answer'.rsc \in StatusCode
         /\ answer'.rsc \in Agreed => isValidRequest(decoded)
<1>1. CASE RefuseInvalid
  BY <1>1 DEF RefuseInvalid, Answer, makeResponse, StatusCode, Agreed
<1>2. CASE DatabaseFails
  <2>1. \E rsc \in {"INTERNAL_SERVER_ERROR", "BAD_REQUEST"} : answer' = BareResponse(rsc)
    BY <1>2 DEF DatabaseFails, Answer
  <2> QED  BY <2>1, ResponseCodes DEF StatusCode, Agreed
<1>3. CASE RefuseTarget
  BY <1>3 DEF RefuseTarget, Dispatched, Answer, BareResponse, StatusCode
<1>4. CASE RefuseCreate
  <2>1. isValidRequest(decoded)
    BY <1>4 DEF RefuseCreate, Dispatched
  <2>2. \E rsc \in CreateRefusals : answer' = BareResponse(rsc)
    BY <1>4 DEF RefuseCreate, Answer
  <2> QED  BY <2>1, <2>2, ResponseCodes DEF CreateRefusals
<1>5. CASE Create
  BY <1>5 DEF Create, Dispatched, Answer, makeResponse, StatusCode
<1>6. CASE Retrieve
  <2>1. isValidRequest(decoded)
    BY <1>6 DEF Retrieve, Dispatched
  <2>2. \/ \E content : answer' = makeResponse(decoded, "OK", content)
        \/ \E rsc \in {"NOT_FOUND", "OPERATION_NOT_ALLOWED", "NOT_IMPLEMENTED",
                       "ORIGINATOR_HAS_NO_PRIVILEGE", "INTERNAL_SERVER_ERROR"} :
             answer' = BareResponse(rsc)
    BY <1>6, Zenon DEF Retrieve, Answer
  <2>3. answer'.rsc \in {"OK", "NOT_FOUND", "OPERATION_NOT_ALLOWED", "NOT_IMPLEMENTED",
                         "ORIGINATOR_HAS_NO_PRIVILEGE", "INTERNAL_SERVER_ERROR"}
    BY <2>2, ResponseCodes
  <2> QED  BY <2>1, <2>3 DEF StatusCode, ForbiddenCodes
<1>7. CASE UpdateOrDelete
  BY <1>7 DEF UpdateOrDelete, Dispatched, Answer, BareResponse, StatusCode
<1>8. CASE Notify
  <2>1. isValidRequest(decoded)
    BY <1>8 DEF Notify, Dispatched
  <2>2. answer'.rsc \in {"OK", "BAD_REQUEST"}
    <3>1. CASE decoded.content.kind = "sgn"
      <4>1. PICK rsc \in {"OK", "BAD_REQUEST"} :
              answer' = [BareResponse(rsc) EXCEPT !.to = decoded.from,
                                                  !.rqi = decoded.rqi]
        BY <1>8, <3>1, Zenon DEF Notify, Answer, HandlerAnswers
      <4>2. [BareResponse(rsc) EXCEPT !.to = decoded.from, !.rqi = decoded.rqi].rsc = rsc
        BY DEF BareResponse
      <4> QED  BY <4>1, <4>2
    <3>2. CASE decoded.content.kind # "sgn"
      <4>1. answer' = BareResponse("BAD_REQUEST")
        BY <1>8, <3>2 DEF Notify, Answer
      <4> QED  BY <4>1, ResponseCodes
    <3> QED  BY <3>1, <3>2
  <2> QED  BY <2>1, <2>2 DEF StatusCode
<1> QED
  BY <1>1, <1>2, <1>3, <1>4, <1>5, <1>6, <1>7, <1>8 DEF Decides

(* The HTTP status of an answer tells the three outcomes from all others.  *)
LEMMA StatusTellsOutcome ==
  ASSUME NEW rsc \in StatusCode
  PROVE  /\ rscToHttpStatus(rsc) \in {"OK", "Created"} <=> rsc \in {"OK", "CREATED"}
         /\ rscToHttpStatus(rsc) = "Conflict" <=> rsc = "CONFLICT"
BY DEF rscToHttpStatus, StatusCode, ForbiddenCodes

(* The HTTP status of an answer.                                           *)
LEMMA EncodedStatus ==
  ASSUME NEW rsp, NEW mime
  PROVE  encodeResponse(rsp, mime).status =
           IF rsp.content # NoContent /\ mime \notin JsonMimes
           THEN "InternalServerError" ELSE rscToHttpStatus(rsp.rsc)
BY DEF encodeResponse, EmptyResponse

(* An answer that arrives says success when the service did, unless it was *)
(* asked for in a media type that cannot be written.                       *)
LEMMA AnswersSaySo ==
  ASSUME AnswerInv, stage = "answering"
  PROVE  /\ NotificationDone(HttpAnswer.status) =>
              decoded # NoPrimitive /\ answer.rsc \in {"OK", "CREATED"}
         /\ SubscriptionDone(HttpAnswer.status) =>
              decoded # NoPrimitive /\ answer.rsc \in {"OK", "CREATED", "CONFLICT"}
         /\ answer.rsc \in {"OK", "CREATED"} /\ AnswerMime(wire) \in JsonMimes
              => NotificationDone(HttpAnswer.status)
<1>1. answer.rsc \in StatusCode
  BY DEF AnswerInv
<1>2. answer.rsc \in Agreed => isValidRequest(decoded) /\ decoded # NoPrimitive
  BY ValidIsDecoded DEF AnswerInv
<1>3. PICK mime : /\ HttpAnswer = encodeResponse(answer, mime)
                  /\ isValidRequest(decoded) => mime = AnswerMime(wire)
  BY DEF HttpAnswer
<1>4. HttpAnswer.status \in {"InternalServerError", rscToHttpStatus(answer.rsc)}
  BY <1>3, EncodedStatus
<1>5. ASSUME answer.rsc \in {"OK", "CREATED"}, AnswerMime(wire) \in JsonMimes
      PROVE  HttpAnswer.status = rscToHttpStatus(answer.rsc)
  BY <1>2, <1>3, <1>5, EncodedStatus DEF Agreed
<1>6. /\ HttpAnswer.status \in {"OK", "Created"} => answer.rsc \in {"OK", "CREATED"}
      /\ HttpAnswer.status = "Conflict" => answer.rsc = "CONFLICT"
  BY <1>1, <1>4, StatusTellsOutcome
<1>7. answer.rsc \in {"OK", "CREATED"} /\ AnswerMime(wire) \in JsonMimes
        => HttpAnswer.status \in {"OK", "Created"}
  BY <1>1, <1>5, StatusTellsOutcome
<1> QED  BY <1>2, <1>6, <1>7 DEF NotificationDone, SubscriptionDone, Agreed

(* Nothing is answered at first.                                           *)
LEMMA AnswerStarts == Init => AnswerInv
BY DEF Init, AnswerInv, SuccessAgrees

(* No step lets sender and receiver disagree.                              *)
LEMMA AnswerStep == AnswerInv /\ [Next]_vars => AnswerInv'
<1> SUFFICES ASSUME AnswerInv, [Next]_vars  PROVE AnswerInv'
  OBVIOUS
<1>1. CASE Send \/ Parse \/ RefuseToParse
  BY <1>1 DEF Send, Parse, RefuseToParse, AnswerInv, SuccessAgrees
<1>2. CASE Decode
  BY <1>2 DEF Decode, AnswerInv, SuccessAgrees
<1>3. CASE Decides
  <2>1. stage' = "answering" /\ decoded' = decoded
    BY <1>3, DecidesAnswers
  <2>2. /\ answer'.rsc \in StatusCode
        /\ answer'.rsc \in Agreed => isValidRequest(decoded)
    BY <1>3, DecisionsAreGrounded
  <2> QED  BY <2>1, <2>2 DEF AnswerInv, SuccessAgrees
<1>4. CASE SendsOn
  BY <1>4, SendsOnStarts DEF AnswerInv, SuccessAgrees
<1>5. CASE SendNowhere
  <2>1. /\ stage' = "returned" /\ verdict' = "ServiceUnavailable"
        /\ decoded' = NoPrimitive
    BY <1>5 DEF SendNowhere, AnswerInv
  <2> QED
    BY <2>1 DEF AnswerInv, SuccessAgrees, NotificationDone, SubscriptionDone
<1>6. CASE Lose \/ NotifyCrashes
  <2>1. stage' = "returned" /\ verdict' \in {"BadGateway", "GatewayTimeout"}
    BY <1>6 DEF Lose, NotifyCrashes
  <2> QED
    BY <2>1 DEF AnswerInv, SuccessAgrees, NotificationDone, SubscriptionDone
<1>7. CASE Return
  <2>1. /\ stage' = "returned" /\ UNCHANGED <<wire, decoded, answer>>
        /\ verdict' \in {HttpAnswer.status, "BadGateway"}
        /\ stage \in {"answering", "unparsed"}
    BY <1>7 DEF Return
  <2>2. CASE verdict' = "BadGateway"
    BY <2>1, <2>2 DEF AnswerInv, SuccessAgrees, NotificationDone, SubscriptionDone
  <2>3. CASE verdict' = HttpAnswer.status /\ stage = "answering"
    <3>1. /\ NotificationDone(verdict') =>
               decoded' # NoPrimitive /\ answer'.rsc \in {"OK", "CREATED"}
          /\ SubscriptionDone(verdict') =>
               decoded' # NoPrimitive /\ answer'.rsc \in {"OK", "CREATED", "CONFLICT"}
          /\ answer'.rsc \in {"OK", "CREATED"} /\ AnswerMime(wire') \in JsonMimes
               => NotificationDone(verdict')
      BY <2>1, <2>3, AnswersSaySo
    <3> QED  BY <2>1, <3>1 DEF AnswerInv, SuccessAgrees
  <2>4. CASE verdict' = HttpAnswer.status /\ stage = "unparsed"
    <3>1. verdict' = "BadRequest" /\ decoded' = NoPrimitive
      BY <2>1, <2>4 DEF HttpAnswer, EmptyResponse, AnswerInv
    <3> QED
      BY <2>1, <3>1 DEF AnswerInv, SuccessAgrees, NotificationDone, SubscriptionDone
  <2> QED  BY <2>1, <2>2, <2>3, <2>4
<1>8. CASE UNCHANGED vars
  BY <1>8 DEF vars, AnswerInv, SuccessAgrees
<1> QED
  BY <1>1, <1>2, <1>3, <1>4, <1>5, <1>6, <1>7, <1>8 DEF Next, Decides, SendsOn

(* A sender takes for done what the receiver did, and nothing else, for    *)
(* any requests: only an answer that is lost, or asked for in a media type *)
(* there is no codec for, leaves it in doubt.                              *)
THEOREM SuccessAlwaysAgrees == Spec => []SuccessAgrees
<1>1. AnswerInv => SuccessAgrees
  BY DEF AnswerInv
<1> QED  BY <1>1, AnswerStarts, AnswerStep, PTL DEF Spec

-----------------------------------------------------------------------------
(* Messages and what becomes of their contents.                            *)

(* The message of the sender's primitive, and what the parser makes of it. *)
Message ==
    IF style.client THEN ClientMessage(prim) ELSE SerializeRequest(encodeRequest(prim))

Received == ParseRequest(Message)

RoundTrip(c) == DeserializeRequestBody(SerializePrimitiveContent(c))

Doc(c) == IF c = NoContent THEN {} ELSE {SerializePrimitiveContent(c)}

(* What encodeRequest fills in.                                            *)
LEMMA EncodedFields ==
    ASSUME NEW p
    PROVE  /\ encodeRequest(p).from = p.from /\ encodeRequest(p).rqi = p.rqi
           /\ encodeRequest(p).method = operationToMethod[p.op]
           /\ encodeRequest(p).params = p.params \cap SentParameters
           /\ encodeRequest(p).queryNames = {}
           /\ encodeRequest(p).mime = IF p.content = NoContent THEN "" ELSE "application/json"
           /\ encodeRequest(p).mimeType = IF p.op = "Create" /\ p.content # NoContent
                                          THEN p.ty ELSE NoType
           /\ encodeRequest(p).typeHeader = NoType
           /\ encodeRequest(p).wellFormed = TRUE
           /\ encodeRequest(p).body = Doc(p.content)
           /\ DOMAIN encodeRequest(p) = DOMAIN EmptyRequest
BY DEF encodeRequest, EmptyRequest, Doc

(* What a node sends.                                                      *)
LEMMA NodeFields ==
    ASSUME NEW p, ~ style.client, p = prim
    PROVE  /\ Message.from = p.from /\ Message.rqi = p.rqi
           /\ Message.method = IF operationToMethod[p.op] \in Methods
                               THEN operationToMethod[p.op] ELSE "GET"
           /\ Message.params = p.params \cap SentParameters
           /\ Message.queryNames = {}
           /\ Message.mime = IF p.content = NoContent THEN "" ELSE "application/json"
           /\ Message.mimeType = IF p.op = "Create" /\ p.content # NoContent
                                 THEN p.ty ELSE NoType
           /\ Message.typeHeader = NoType
           /\ Message.wellFormed = TRUE
           /\ Message.body = Doc(p.content)
           /\ Message.length = IF p.content = NoContent THEN "none" ELSE "exact"
<1> DEFINE m == encodeRequest(p)
<1>1. /\ m.from = p.from /\ m.rqi = p.rqi
      /\ m.method = operationToMethod[p.op]
      /\ m.params = p.params \cap SentParameters
      /\ m.queryNames = {}
      /\ m.mime = IF p.content = NoContent THEN "" ELSE "application/json"
      /\ m.mimeType = IF p.op = "Create" /\ p.content # NoContent THEN p.ty ELSE NoType
      /\ m.typeHeader = NoType
      /\ m.wellFormed = TRUE
      /\ m.body = Doc(p.content)
      /\ DOMAIN m = DOMAIN EmptyRequest
  BY EncodedFields
<1>2. Message = SerializeRequest(m)
  BY DEF Message
<1>3. Doc(p.content) = {} <=> p.content = NoContent
  BY DEF Doc
<1> HIDE DEF m
<1> QED  BY <1>1, <1>2, <1>3 DEF SerializeRequest, EmptyRequest

(* What another client sends.                                              *)
LEMMA ClientFields ==
    ASSUME NEW p, style.client, p = prim
    PROVE  /\ Message.from = p.from /\ Message.rqi = p.rqi
           /\ Message.method = IF style.method = "" THEN operationToMethod[p.op]
                               ELSE style.method
           /\ Message.params = p.params
           /\ Message.queryNames = {}
           /\ Message.mime = IF p.content = NoContent THEN "" ELSE style.mime
           /\ Message.mimeType = IF p.op = "Create" /\ p.content # NoContent
                                    /\ ~ style.typeInHeader
                                 THEN p.ty ELSE NoType
           /\ Message.typeHeader = IF style.typeInHeader THEN p.ty ELSE NoType
           /\ Message.wellFormed = style.wellFormed
           /\ Message.body = Doc(p.content)
           /\ Message.length = IF p.content = NoContent THEN "none" ELSE style.length
<1> DEFINE m == encodeRequest(p)
<1>1. /\ m.from = p.from /\ m.rqi = p.rqi
      /\ m.method = operationToMethod[p.op]
      /\ m.queryNames = {}
      /\ m.mime = IF p.content = NoContent THEN "" ELSE "application/json"
      /\ m.mimeType = IF p.op = "Create" /\ p.content # NoContent THEN p.ty ELSE NoType
      /\ m.body = Doc(p.content)
      /\ DOMAIN m = DOMAIN EmptyRequest
  BY EncodedFields
<1>2. Message = [m EXCEPT
       !.accept = style.accept,
       !.mime = IF m.mime = "" THEN m.mime ELSE style.mime,
       !.method = IF style.method = "" THEN m.method ELSE style.method,
       !.mimeType = IF style.typeInHeader THEN NoType ELSE m.mimeType,
       !.typeHeader = IF style.typeInHeader THEN p.ty ELSE NoType,
       !.params = p.params,
       !.query = style.query,
       !.length = IF p.content = NoContent THEN "none" ELSE style.length,
       !.wellFormed = style.wellFormed]
  BY DEF Message, ClientMessage
<1> HIDE DEF m
<1> QED  BY <1>1, <1>2 DEF EmptyRequest

(* The parser may lose the body, and nothing else.                         *)
LEMMA ReceivedFields ==
    ASSUME TRUE
    PROVE  /\ Received.from = Message.from /\ Received.rqi = Message.rqi
           /\ Received.method = Message.method /\ Received.params = Message.params
           /\ Received.queryNames = Message.queryNames /\ Received.mime = Message.mime
           /\ Received.mimeType = Message.mimeType
           /\ Received.typeHeader = Message.typeHeader
           /\ Received.body = IF Message.length = "exact" THEN Message.body ELSE {}
<1> DEFINE m == Message
<1>1. DOMAIN m = DOMAIN EmptyRequest
  BY DEF Message, ClientMessage, SerializeRequest, encodeRequest, EmptyRequest
<1>2. Received = [m EXCEPT !.body = IF m.length = "exact" THEN m.body ELSE {}]
  BY DEF Received, ParseRequest
<1> HIDE DEF m
<1>3. /\ Received.from = m.from /\ Received.rqi = m.rqi
      /\ Received.method = m.method /\ Received.params = m.params
      /\ Received.queryNames = m.queryNames /\ Received.mime = m.mime
      /\ Received.mimeType = m.mimeType
      /\ Received.typeHeader = m.typeHeader
      /\ Received.body = IF m.length = "exact" THEN m.body ELSE {}
  BY <1>1, <1>2 DEF EmptyRequest
<1> QED  BY <1>3 DEF m

-----------------------------------------------------------------------------
(* Contents through a serialiser and a deserialiser.                       *)

(* Reading and writing depend on the kind alone, but for a creator.        *)
LEMMA ReadByKind == ASSUME NEW c, NEW d, c.kind = d.kind  PROVE Read(c) = Read(d)
BY DEF Read

(* So does whether it can be read at all.                                  *)
LEMMA ReadableByKind ==
    ASSUME NEW c, NEW d, c.kind = d.kind  PROVE IsReadable(c) <=> IsReadable(d)
BY DEF IsReadable

(* What is written of a resource.                                          *)
LEMMA SerializedFields ==
    ASSUME NEW c
    PROVE  /\ SerializeResource(c).kind = c.kind
           /\ SerializeResource(c).members = (c.has \cap Written(c)) \cup AlwaysWritten(c)
           /\ SerializeResource(c).con = ConWritten(c.text)
BY DEF SerializeResource

(* What is read of a document.                                             *)
LEMMA DeserializedFields ==
    ASSUME NEW d
    PROVE  /\ DeserializeResource(d).kind = d.kind
           /\ DeserializeResource(d).rep = {}
           /\ DeserializeResource(d).has =
                (d.members \cap Read(d))
                  \cup (IF d.kind = "sub" /\ d.members \cap Creator # {}
                        THEN {"creatorProvided"} ELSE {})
           /\ DeserializeResource(d).text =
                IF "con" \in d.members THEN ConRead(d.con) ELSE NoText
           /\ DOMAIN DeserializeResource(d) = {"kind", "rep", "has", "text"}
BY DEF DeserializeResource

(* One resource, written and read.                                         *)
Reread(c) == DeserializeResource(SerializeResource(c))

ReadHas(c) ==
    LET members == (c.has \cap Written(c)) \cup AlwaysWritten(c)
    IN  (members \cap Read(c))
          \cup (IF c.kind = "sub" /\ members \cap Creator # {}
                THEN {"creatorProvided"} ELSE {})

(* A resource keeps its kind, and the attributes both sides know.          *)
LEMMA RereadFields ==
    ASSUME NEW c
    PROVE  /\ Reread(c).kind = c.kind /\ Reread(c).rep = {}
           /\ Reread(c).has = ReadHas(c)
           /\ c.kind = "cin" => Reread(c).text = ConRead(ConWritten(c.text))
           /\ Reread(c).text \in {ConRead(ConWritten(c.text)), NoText}
           /\ Reread(c) = [kind |-> Reread(c).kind, has |-> Reread(c).has,
                           text |-> Reread(c).text, rep |-> Reread(c).rep]
<1> DEFINE d == SerializeResource(c)
<1>1. /\ d.kind = c.kind
      /\ d.members = (c.has \cap Written(c)) \cup AlwaysWritten(c)
      /\ d.con = ConWritten(c.text)
  BY SerializedFields
<1>2. c.kind = "cin" => "con" \in d.members
  BY <1>1 DEF AlwaysWritten
<1> HIDE DEF d
<1>3. Read(d) = Read(c)
  BY <1>1, ReadByKind
<1>4. /\ DeserializeResource(d).kind = c.kind
      /\ DeserializeResource(d).rep = {}
      /\ DeserializeResource(d).has = ReadHas(c)
      /\ DeserializeResource(d).text =
           IF "con" \in d.members THEN ConRead(ConWritten(c.text)) ELSE NoText
  BY <1>1, <1>3, DeserializedFields DEF ReadHas
<1>5. DeserializeResource(d) =
        [kind |-> DeserializeResource(d).kind, has |-> DeserializeResource(d).has,
         text |-> DeserializeResource(d).text, rep |-> DeserializeResource(d).rep]
  BY DEF DeserializeResource
<1>6. Reread(c) = DeserializeResource(d)
  BY DEF Reread, d
<1> QED  BY <1>2, <1>4, <1>5, <1>6

(* A content, with the resource it may hold.                               *)
LEMMA RoundTripFields ==
    ASSUME NEW c, IsContent(c), c # NoContent
    PROVE  /\ RoundTrip(c).kind = c.kind
           /\ RoundTrip(c).has = ReadHas(c)
           /\ RoundTrip(c).text = Reread(c).text
           /\ RoundTrip(c).rep = {Reread(r) : r \in c.rep}
           /\ RoundTrip(c) = [kind |-> RoundTrip(c).kind, has |-> RoundTrip(c).has,
                              text |-> RoundTrip(c).text, rep |-> RoundTrip(c).rep]
<1> DEFINE doc == SerializePrimitiveContent(c)
<1>1. /\ doc.resource = SerializeResource(c)
      /\ doc.rep = {SerializeResource(r) : r \in c.rep}
  BY DEF SerializePrimitiveContent
<1>2. IsReadable(c) /\ \A r \in c.rep : IsReadable(r)
  BY DEF IsContent
<1>3. IsReadable(doc.resource) /\ \A d \in doc.rep : IsReadable(d)
  <2>1. IsReadable(SerializeResource(c))
    BY <1>2, SerializedFields, ReadableByKind
  <2>2. \A r \in c.rep : IsReadable(SerializeResource(r))
    BY <1>2, SerializedFields, ReadableByKind
  <2> QED  BY <1>1, <2>1, <2>2
<1>4. {d \in doc.rep : IsReadable(d)} = doc.rep
  BY <1>3
<1>5. {DeserializeResource(d) : d \in doc.rep} = {Reread(r) : r \in c.rep}
  BY <1>1 DEF Reread
<1>6. RoundTrip(c) = [Reread(c) EXCEPT !.rep = {Reread(r) : r \in c.rep}]
  <2>1. RoundTrip(c) =
          [DeserializeResource(doc.resource) EXCEPT
             !.rep = {DeserializeResource(d) : d \in {d \in doc.rep : IsReadable(d)}}]
    BY <1>3 DEF RoundTrip, DeserializeRequestBody
  <2>2. DeserializeResource(doc.resource) = Reread(c)
    BY <1>1 DEF Reread
  <2> HIDE DEF doc
  <2> QED  BY <1>4, <1>5, <2>1, <2>2
<1> DEFINE e == Reread(c)
           reps == {Reread(r) : r \in c.rep}
<1>7. /\ e = [kind |-> e.kind, has |-> e.has, text |-> e.text, rep |-> e.rep]
      /\ e.kind = c.kind /\ e.has = ReadHas(c)
  BY RereadFields
<1>8. RoundTrip(c) = [e EXCEPT !.rep = reps]
  BY <1>6
<1> HIDE DEF e, reps
<1>9. /\ RoundTrip(c).kind = c.kind /\ RoundTrip(c).has = ReadHas(c)
      /\ RoundTrip(c).text = e.text /\ RoundTrip(c).rep = reps
      /\ RoundTrip(c) = [kind |-> RoundTrip(c).kind, has |-> RoundTrip(c).has,
                         text |-> RoundTrip(c).text, rep |-> RoundTrip(c).rep]
  BY <1>7, <1>8
<1> QED  BY <1>9 DEF e, reps

(* A text that is well-formed is written and read as one.                  *)
LEMMA TextsAreTexts ==
    ASSUME NEW t \in Text
    PROVE  ConRead(ConWritten(t)) \in Text
<1>1. \A s \in Text : Escaped(s) \in Text
  BY DEF Escaped, Text
<1>2. Understood(t) \in Text
  <2>1. t.shape \in Shape /\ t = [shape |-> t.shape, marks |-> t.marks, escapes |-> t.escapes]
    BY DEF Text
  <2>2. \E s \in Shape : Understood(t) = [t EXCEPT !.shape = s]
    BY <2>1 DEF Understood, Shape
  <2> QED  BY <2>1, <2>2 DEF Text
<1>3. ConWritten(t).text \in Text
  <2>1. Escaped(Understood(t)) \in Text /\ Escaped(t) \in Text
    BY <1>1, <1>2
  <2> QED  BY <2>1 DEF ConWritten
<1> QED  BY <1>1, <1>3 DEF ConRead

(* Faithful texts are the same after it.                                   *)
LEMMA FaithfulTexts ==
    ASSUME NEW t \in Text, Faithful(t)
    PROVE  ConRead(ConWritten(t)) = t
<1>1. Escaped(t) = t
  BY DEF Faithful, Escaped
<1>2. CASE t.shape = "word"
  BY <1>1, <1>2 DEF ConWritten, IsParsed, ConRead
<1>3. CASE t.shape \in {"number", "literal", "document"}
  <2>1. Understood(t) = t
    BY <1>3 DEF Understood, Text
  <2> QED  BY <1>1, <1>3, <2>1 DEF ConWritten, IsParsed, ConRead
<1> QED  BY <1>2, <1>3 DEF Faithful

(* What is read of a content is one again.                                 *)
LEMMA ReadAttributes ==
    ASSUME NEW c
    PROVE  IsReadable(c) => Read(c) \subseteq Attribute
<1>1. AERead \subseteq AEWritten
  BY DEF AERead, AEWritten, BaseWritten
<1>2. ContainerRead \subseteq ContainerWritten
  BY DEF ContainerRead, ContainerWritten, BaseWritten
<1>3. ContentInstanceRead \subseteq ContentInstanceWritten
  BY DEF ContentInstanceRead, ContentInstanceWritten, BaseWritten
<1> QED  BY <1>1, <1>2, <1>3 DEF IsReadable, Read, Attribute, NotificationRead

(* A resource stays one.                                                   *)
LEMMA RereadIsResource ==
    ASSUME NEW r, r.kind \in Kind, r.text \in Text, IsReadable(r)
    PROVE  Reread(r) \in Resource
<1>1. ReadHas(r) \subseteq Attribute
  BY ReadAttributes DEF ReadHas, Attribute
<1>2. NoText \in Text
  BY DEF NoText, Text, Shape
<1> QED  BY <1>1, <1>2, RereadFields, TextsAreTexts DEF Resource

(* A content stays one.                                                    *)
LEMMA RoundTripIsContent ==
    ASSUME NEW c, IsContent(c), c # NoContent
    PROVE  IsContent(RoundTrip(c))
<1> DEFINE d == RoundTrip(c)
<1>1. /\ d.kind = c.kind /\ d.has = Reread(c).has /\ d.text = Reread(c).text
      /\ d.rep = {Reread(r) : r \in c.rep}
      /\ d = [kind |-> d.kind, has |-> d.has, text |-> d.text, rep |-> d.rep]
  BY RoundTripFields, RereadFields
<1>2. IsReadable(c) /\ c.rep \subseteq Resource /\ \A r \in c.rep : IsReadable(r)
  BY DEF IsContent
<1>3. Reread(c) \in Resource
  <2>1. c.kind \in Kind /\ c.text \in Text
    BY DEF IsContent
  <2> QED  BY <1>2, <2>1, RereadIsResource
<1>4. ASSUME NEW r \in c.rep
      PROVE  Reread(r) \in Resource /\ IsReadable(Reread(r))
  <2>1. Reread(r).kind = r.kind
    BY RereadFields
  <2>2. r.kind \in Kind /\ r.text \in Text /\ IsReadable(r)
    BY <1>2 DEF Resource
  <2>3. Reread(r) \in Resource
    BY <2>2, RereadIsResource
  <2>4. IsReadable(Reread(r))
    BY ONLY <2>1, <2>2 DEF IsReadable
  <2> QED  BY <2>3, <2>4
<1>5. d.rep \subseteq Resource /\ \A r \in d.rep : IsReadable(r)
  BY <1>1, <1>4
<1>6. d.rep # {} => c.rep # {}
  BY <1>1
<1>7. IsReadable(d)
  BY <1>1, <1>2, ReadableByKind
<1>8. d.kind \in Kind /\ d.has \subseteq Attribute /\ d.text \in Text
  BY <1>1, <1>3, RereadFields DEF Resource
<1> HIDE DEF d
<1>9. IsContent(d)
  BY <1>1, <1>5, <1>6, <1>7, <1>8 DEF IsContent
<1> QED  BY <1>9 DEF d

-----------------------------------------------------------------------------
(* What the receiver has in its primitive.                                 *)

(* What decodeRequest fills in.                                            *)
LEMMA DecodedFields ==
    ASSUME NEW r
    PROVE  /\ decodeRequest(r).op = methodToOperation(r.method, ResourceTypeOf(r) # NoType)
           /\ decodeRequest(r).from = r.from /\ decodeRequest(r).rqi = r.rqi
           /\ decodeRequest(r).ty = ResourceTypeOf(r)
           /\ decodeRequest(r).params =
                (r.params \cap ReadParameters) \cup decodeQueryParams(r)
           /\ decodeRequest(r).filters \subseteq filterCriteriaFromQuery(r)
           /\ decodeRequest(r).content = DecodedContent(r)
<1>1. decodeRequest(r).filters \subseteq filterCriteriaFromQuery(r)
  <2>1. decodeRequest(r).filters =
          IF methodToOperation(r.method, ResourceTypeOf(r) # NoType) = "Retrieve"
          THEN filterCriteriaFromQuery(r) ELSE {}
    BY DEF decodeRequest
  <2> QED  BY <2>1
<1> QED  BY <1>1 DEF decodeRequest

(* A body that is there is one document.                                   *)
LEMMA BodyOfDocument ==
    ASSUME NEW r, NEW d, r.body = {d}
    PROVE  DecodedContent(r) = IF r.mime \in JsonMimes THEN DeserializeRequestBody(d)
                               ELSE NoContent
<1>1. (CHOOSE doc \in {d} : TRUE) = d
  OBVIOUS
<1> QED  BY <1>1 DEF DecodedContent, BodyIsRead

(* The content arrives, or there is none: when the body has no length the  *)
(* parser understands, or a media type nothing reads.                      *)
LEMMA ArrivedContent ==
    ASSUME NEW c, c = prim.content
    PROVE  /\ DecodedContent(Received) \in {NoContent, RoundTrip(c)}
           /\ c = NoContent => DecodedContent(Received) = NoContent
           /\ (/\ c # NoContent
               /\ style.client => style.length = "exact" /\ style.mime \in JsonMimes)
              => DecodedContent(Received) = RoundTrip(c)
<1> DEFINE d == SerializePrimitiveContent(c)
<1>1. Received.body \in {{}, Doc(c)}
  BY NodeFields, ClientFields, ReceivedFields
<1>2. Received.body = {} => DecodedContent(Received) = NoContent
  BY DEF DecodedContent, BodyIsRead
<1>3. Doc(c) = IF c = NoContent THEN {} ELSE {d}
  BY DEF Doc
<1>4. DeserializeRequestBody(d) = RoundTrip(c)
  BY DEF RoundTrip
<1> HIDE DEF d
<1>5. ASSUME Received.body = {d}
      PROVE  DecodedContent(Received) = IF Received.mime \in JsonMimes THEN RoundTrip(c)
                                        ELSE NoContent
  BY <1>4, <1>5, BodyOfDocument
<1>6. ASSUME c # NoContent,
             style.client => style.length = "exact" /\ style.mime \in JsonMimes
      PROVE  DecodedContent(Received) = RoundTrip(c)
  <2>1. Received.mime = Message.mime
        /\ Received.body = IF Message.length = "exact" THEN Message.body ELSE {}
    BY ReceivedFields
  <2>2. CASE style.client
    <3>1. Message.mime = style.mime /\ Message.length = style.length /\ Message.body = Doc(c)
      BY <1>6, <2>2, ClientFields
    <3> QED  BY <1>3, <1>5, <1>6, <2>1, <2>2, <3>1
  <2>3. CASE ~ style.client
    <3>1. /\ Message.mime = "application/json" /\ Message.length = "exact"
          /\ Message.body = Doc(c)
      BY <1>6, <2>3, NodeFields
    <3>2. "application/json" \in JsonMimes
      BY DEF JsonMimes
    <3> QED  BY <1>3, <1>5, <1>6, <2>1, <3>1, <3>2
  <2> QED  BY <2>2, <2>3
<1> QED  BY <1>1, <1>2, <1>3, <1>5, <1>6

(* A primitive that is on its way.                                         *)
Outgoing ==
    /\ prim.op \in Operation
    /\ prim.ty \in Kind \cup {NoType}
    /\ prim.params \subseteq ReadParameters \cup QueryParameters
    /\ prim.filters = {}
    /\ IsContent(prim.content)
    /\ style.method \in Methods \cup {"", "Unknown"}

(* No content is a content.                                                *)
LEMMA NoContentIsContent == IsContent(NoContent)
BY DEF IsContent

(* The parts of a content have their types.                                *)
LEMMA ContentTyped ==
    ASSUME NEW c, IsContent(c)
    PROVE  /\ c.kind \in Kind \cup {"none"}
           /\ c.has \subseteq Attribute
           /\ c.text \in Text
           /\ c.rep \subseteq Resource
<1>1. NoText \in Text
  BY DEF NoText, Text, Shape
<1>2. CASE c = NoContent
  <2>1. /\ NoContent.kind = "none" /\ NoContent.has = {} /\ NoContent.text = NoText
        /\ NoContent.rep = {}
    BY DEF NoContent
  <2> QED  BY <1>1, <1>2, <2>1
<1>3. CASE c # NoContent
  BY <1>3 DEF IsContent
<1> QED  BY <1>2, <1>3

(* What arrives is a content.                                              *)
LEMMA DecodedIsContent ==
    ASSUME IsContent(prim.content)
    PROVE  IsContent(DecodedContent(Received))
<1>1. DecodedContent(Received) \in {NoContent, RoundTrip(prim.content)}
  BY ArrivedContent
<1>2. prim.content = NoContent => DecodedContent(Received) = NoContent
  BY ArrivedContent
<1> QED  BY <1>1, <1>2, RoundTripIsContent, NoContentIsContent

(* A message of a well-formed primitive is well-formed.                    *)
LEMMA MessageTyped ==
    ASSUME Outgoing
    PROVE  /\ Message.method \in Methods \cup {"Unknown"}
           /\ Message.mimeType \in Kind \cup {NoType}
           /\ Message.typeHeader \in Kind \cup {NoType}
           /\ Message.queryNames = {}
<1>1. operationToMethod[prim.op] \in Methods
  BY DEF Outgoing, operationToMethod, Operation, Methods
<1>2. CASE style.client
  BY <1>1, <1>2, ClientFields DEF Outgoing
<1>3. CASE ~ style.client
  <2>1. "GET" \in Methods
    BY DEF Methods
  <2> QED  BY <1>1, <1>3, <2>1, NodeFields DEF Outgoing
<1> QED  BY <1>2, <1>3

(* What is decoded of a message is a primitive, whatever came of its body. *)
LEMMA DecodedIsPrimitive ==
    ASSUME Outgoing
    PROVE  IsPrimitive(decodeRequest(Received))
<1> DEFINE p == decodeRequest(Received)
<1>1. p.op \in Operation
  BY DecodedFields DEF methodToOperation, Operation
<1>2. p.ty \in Kind \cup {NoType}
  BY DecodedFields, MessageTyped, ReceivedFields DEF ResourceTypeOf
<1>3. p.params \subseteq ReadParameters \cup QueryParameters
  BY DecodedFields DEF decodeQueryParams
<1>4. p.filters \subseteq FilterKeys
  BY DecodedFields DEF filterCriteriaFromQuery
<1>5. IsContent(p.content)
  BY DecodedFields, DecodedIsContent DEF Outgoing
<1> HIDE DEF p
<1>6. IsPrimitive(p)
  BY <1>1, <1>2, <1>3, <1>4, <1>5, ContentTyped DEF IsPrimitive
<1> QED  BY <1>6 DEF p

(* What the service creates it can write, unless it is a notification.     *)
LEMMA CreatedFields ==
    ASSUME NEW p, IsContent(p.content), MayBeCreated(p)
    PROVE  /\ Created(p) \in Resource /\ IsReadable(Created(p))
           /\ Created(p).kind = p.content.kind
           /\ Created(p).text = p.content.text
<1> DEFINE c == p.content
           given == {"rn", "ri", "pi", "ct", "lt", "ty", "et"}
                     \cup (CASE c.kind = "ae" -> {"aei", "rr"}
                            [] c.kind = "sub" -> {"cr", "nct"}
                            [] OTHER -> {"st"})
                     \cup (IF p.vendor = "creator_null" THEN {"cr"} ELSE {})
<1>1. c.kind \in {"ae", "cnt", "cin", "sub"}
  BY DEF MayBeCreated
<1>2. /\ c \in [kind : Kind, has : SUBSET Attribute, text : Text, rep : SUBSET Resource]
      /\ c.rep = {}
  BY <1>1 DEF IsContent, NoContent
<1>3. given \subseteq Attribute
  <2>1. given \subseteq {"rn", "ri", "pi", "ct", "lt", "ty", "et", "aei", "rr", "cr",
                         "nct", "st"}
    OBVIOUS
  <2>2. {"rn", "ri", "pi", "ct", "lt", "ty", "et", "aei", "rr", "cr", "nct", "st"}
          \subseteq Attribute
    BY DEF Attribute, AEWritten, ContainerWritten, SubscriptionRead, BaseWritten
  <2> QED  BY <2>1, <2>2
<1>4. Created(p) = [c EXCEPT !.has = c.has \cup given]
  BY DEF Created
<1> HIDE DEF c, given
<1>5. /\ Created(p).kind = c.kind /\ Created(p).text = c.text /\ Created(p) \in Resource
  BY <1>2, <1>3, <1>4 DEF Resource
<1> QED  BY <1>1, <1>5 DEF IsReadable, c

-----------------------------------------------------------------------------
(* The primitive, the message and the receiver's primitive go together.    *)

(* Only a creation answers CREATED, or a creation with a content.          *)
AnsweredCreated ==
    (/\ stage = "answering"
     /\ \/ answer.rsc = "CREATED"
        \/ decoded.op = "Create" /\ answer.content # NoContent)
      => MayBeCreated(decoded) /\ answer.content = Created(decoded)

CarryInv ==
    /\ Outgoing
    /\ stage \in {"sent", "unparsed"} => wire = Message
    /\ stage = "parsed" \/ IsDecoded => wire = Received
    /\ IsDecoded => decoded = decodeRequest(Received)
    /\ IsPrimitive(decoded)
    /\ AnsweredCreated

(* The empty primitive is one.                                             *)
LEMMA NoPrimitiveTyped ==
    /\ IsPrimitive(NoPrimitive)
    /\ NoPrimitive.op \in Operation
    /\ NoPrimitive.ty \in Kind \cup {NoType}
    /\ NoPrimitive.params \subseteq ReadParameters \cup QueryParameters
    /\ NoPrimitive.filters = {}
<1> DEFINE p == NoPrimitive
<1>1. /\ p.op = "Notify" /\ p.ty = NoType /\ p.params = {} /\ p.filters = {}
      /\ p.content = NoContent
  BY DEF NoPrimitive
<1> HIDE DEF p
<1>2. /\ p.op \in Operation /\ p.ty \in Kind \cup {NoType}
      /\ p.params \subseteq ReadParameters \cup QueryParameters /\ p.filters = {}
  BY <1>1 DEF Operation
<1>3. IsPrimitive(p)
  BY <1>1, <1>2, NoContentIsContent, ContentTyped DEF IsPrimitive
<1> QED  BY <1>2, <1>3 DEF p

(* A request starts with a primitive and no message.                       *)
LEMMA CarryStarts == Init => CarryInv
<1> SUFFICES ASSUME Init  PROVE CarryInv
  OBVIOUS
<1>1. PICK q \in Requests :
        /\ style = q.style
        /\ \E to :
             prim = [op |-> q.op, to |-> to, from |-> q.from, rqi |-> q.rqi, ty |-> q.ty,
                     params |-> q.params, filters |-> {}, vendor |-> "none",
                     content |-> q.content]
  BY DEF Init
<1>2. /\ prim.op = q.op /\ prim.ty = q.ty /\ prim.params = q.params /\ prim.filters = {}
      /\ prim.content = q.content
  BY <1>1
<1>3. Outgoing
  BY <1>1, <1>2, MessagesAssumption DEF Outgoing
<1>4. stage = "built" /\ decoded = NoPrimitive
  BY DEF Init
<1> QED  BY <1>3, <1>4, NoPrimitiveTyped DEF CarryInv, IsDecoded, AnsweredCreated

(* Each decision but that of Create refuses, or answers without a content  *)
(* what is not a creation.                                                 *)
LEMMA CreateCreates ==
    ASSUME Decides,
           answer'.rsc = "CREATED" \/ (decoded.op = "Create" /\ answer'.content # NoContent)
    PROVE  MayBeCreated(decoded) /\ answer'.content = Created(decoded)
<1>1. \A rsc : /\ BareResponse(rsc).rsc = rsc
               /\ BareResponse(rsc).content = NoContent
  BY DEF BareResponse
<1>2. \A rsc, c : /\ makeResponse(decoded, rsc, c).rsc = rsc
                  /\ makeResponse(decoded, rsc, c).content = c
  BY DEF makeResponse
<1>3. CASE RefuseInvalid
  <2>1. answer' = makeResponse(decoded, "BAD_REQUEST", NoContent)
    BY <1>3 DEF RefuseInvalid, Answer
  <2> QED  BY <1>2, <2>1
<1>4. CASE DatabaseFails
  <2>1. \E rsc \in {"INTERNAL_SERVER_ERROR", "BAD_REQUEST"} : answer' = BareResponse(rsc)
    BY <1>4 DEF DatabaseFails, Answer
  <2> QED  BY <1>1, <2>1
<1>5. CASE RefuseTarget
  <2>1. \E rsc \in {"NOT_FOUND", "BAD_REQUEST"} : answer' = BareResponse(rsc)
    BY <1>5 DEF RefuseTarget, Answer
  <2> QED  BY <1>1, <2>1
<1>6. CASE RefuseCreate
  <2>1. \E rsc \in CreateRefusals : answer' = BareResponse(rsc)
    BY <1>6 DEF RefuseCreate, Answer
  <2> QED  BY <1>1, <2>1 DEF CreateRefusals
<1>7. CASE Create
  <2>1. MayBeCreated(decoded) /\ answer' = makeResponse(decoded, "CREATED", Created(decoded))
    BY <1>7 DEF Create, Answer
  <2> QED  BY <1>2, <2>1
<1>8. CASE Retrieve
  <2>1. \/ \E c : answer' = makeResponse(decoded, "OK", c)
        \/ \E rsc \in {"NOT_FOUND", "OPERATION_NOT_ALLOWED", "NOT_IMPLEMENTED",
                       "ORIGINATOR_HAS_NO_PRIVILEGE", "INTERNAL_SERVER_ERROR"} :
             answer' = BareResponse(rsc)
    BY <1>8, Zenon DEF Retrieve, Answer
  <2>2. answer'.rsc # "CREATED"
    BY <1>1, <1>2, <2>1
  <2>3. decoded.op = "Retrieve"
    BY <1>8 DEF Retrieve, Dispatched
  <2> QED  BY <2>2, <2>3
<1>9. CASE UpdateOrDelete
  <2>1. answer' = BareResponse("NOT_IMPLEMENTED")
    BY <1>9 DEF UpdateOrDelete, Answer
  <2> QED  BY <1>1, <2>1
<1>10. CASE Notify
  <2>1. \E rsc \in {"OK", "BAD_REQUEST"} :
          answer' \in {BareResponse(rsc),
                      [BareResponse(rsc) EXCEPT !.to = decoded.from, !.rqi = decoded.rqi]}
    BY <1>10, Zenon DEF Notify, Answer, HandlerAnswers
  <2>2. \A rsc : [BareResponse(rsc) EXCEPT !.to = decoded.from, !.rqi = decoded.rqi].rsc = rsc
    BY DEF BareResponse
  <2>3. decoded.op = "Notify"
    BY <1>10 DEF Notify, Dispatched
  <2> QED  BY <1>1, <2>1, <2>2, <2>3
<1> QED
  BY <1>3, <1>4, <1>5, <1>6, <1>7, <1>8, <1>9, <1>10 DEF Decides

(* So an answer that creates is Create's.                                  *)
LEMMA DecidesCreated == ASSUME Decides  PROVE AnsweredCreated'
<1>1. decoded' = decoded
  BY DecidesAnswers
<1>2. (answer'.rsc = "CREATED" \/ (decoded.op = "Create" /\ answer'.content # NoContent))
        => MayBeCreated(decoded) /\ answer'.content = Created(decoded)
  BY CreateCreates
<1>3. (answer'.rsc = "CREATED" \/ (decoded'.op = "Create" /\ answer'.content # NoContent))
        => MayBeCreated(decoded') /\ answer'.content = Created(decoded')
  BY <1>1, <1>2
<1> QED  BY <1>3 DEF AnsweredCreated

(* The notifications, and verifications, the service sends.                *)
LEMMA NotificationsSent ==
    ASSUME CarryInv, SendsOn
    PROVE  /\ prim'.op = NoPrimitive.op /\ prim'.ty = NoPrimitive.ty
           /\ prim'.params = NoPrimitive.params /\ prim'.filters = NoPrimitive.filters
           /\ prim'.from = decoded.from /\ prim'.rqi # ""
           /\ \/ prim'.content = Verification
              \/ /\ stage = "answering" /\ MayBeCreated(decoded)
                 /\ answer.content = Created(decoded) /\ IsContent(decoded.content)
                 /\ \E sub \in Subscriptions :
                      prim'.content = BuildNotification(sub, answer.content)
<1>1. PICK c, to, rqi : /\ Sends(c, to, rqi) /\ rqi \in {"ntf", "sub"}
                        /\ \/ c = Verification
                           \/ /\ answer.content.kind # "sub"
                              /\ stage = "answering" /\ answer.rsc = "CREATED"
                              /\ \E sub \in Subscriptions :
                                   c = BuildNotification(sub, answer.content)
  <2>1. CASE SendNotification
    <3>1. /\ stage = "answering" /\ answer.rsc = "CREATED"
          /\ answer.content.kind # "sub"
          /\ \E sub \in Subscriptions :
                Sends(BuildNotification(sub, answer.content), sub.nu, "ntf")
      BY <2>1 DEF SendNotification
    <3>2. "ntf" \in {"ntf", "sub"}
      OBVIOUS
    <3> QED  BY <3>1, <3>2, Zenon
  <2>2. CASE SendSubscriptionVerification
    <3>1. \E sub \in Subscriptions : Sends(Verification, sub.nu, "sub")
      BY <2>2 DEF SendSubscriptionVerification
    <3>2. "sub" \in {"ntf", "sub"}
      OBVIOUS
    <3> QED  BY <3>1, <3>2, Zenon
  <2> QED  BY <2>1, <2>2 DEF SendsOn
<1>2. prim' = [NoPrimitive EXCEPT !.to = to, !.from = decoded.from, !.rqi = rqi,
                                  !.content = c]
  BY <1>1 DEF Sends
<1>3. /\ prim'.op = NoPrimitive.op /\ prim'.ty = NoPrimitive.ty
      /\ prim'.params = NoPrimitive.params /\ prim'.filters = NoPrimitive.filters
      /\ prim'.from = decoded.from /\ prim'.rqi = rqi /\ prim'.content = c
  BY <1>2 DEF NoPrimitive
<1>4. CASE c = Verification
  BY <1>1, <1>3, <1>4
<1>5. CASE /\ stage = "answering" /\ answer.rsc = "CREATED"
           /\ \E sub \in Subscriptions : c = BuildNotification(sub, answer.content)
  <2>1. MayBeCreated(decoded) /\ answer.content = Created(decoded)
    BY <1>5 DEF CarryInv, AnsweredCreated
  <2>2. decoded = decodeRequest(Received)
    BY <1>5 DEF CarryInv, IsDecoded
  <2>3. IsContent(decoded.content)
    BY <2>2, DecodedFields, DecodedIsContent DEF CarryInv, Outgoing
  <2> QED  BY <1>1, <1>3, <1>5, <2>1, <2>3
<1> QED  BY <1>1, <1>4, <1>5

(* What a notification and a verification are made of.                     *)
LEMMA NotificationFields ==
    /\ Verification.kind = "sgn" /\ Verification.has = {"sur", "vrq", "cr"}
    /\ Verification.rep = {}
    /\ \A sub, r : /\ BuildNotification(sub, r).kind = "sgn"
                   /\ BuildNotification(sub, r).has = {"sur", "nev"}
                   /\ BuildNotification(sub, r).rep \in {{}, {r}}
BY DEF Verification, BuildNotification

(* What is sent on is one of the two.                                      *)
LEMMA NotificationsAre ==
    ASSUME CarryInv, SendsOn
    PROVE  /\ prim'.content.kind = "sgn"
           /\ prim'.content.has \in {{"sur", "nev"}, {"sur", "vrq", "cr"}}
<1>1. \/ prim'.content = Verification
      \/ \E sub \in Subscriptions : prim'.content = BuildNotification(sub, answer.content)
  BY NotificationsSent
<1>2. CASE prim'.content = Verification
  BY <1>2, NotificationFields
<1>3. CASE \E sub \in Subscriptions : prim'.content = BuildNotification(sub, answer.content)
  BY <1>3, NotificationFields
<1> QED  BY <1>1, <1>2, <1>3

(* Either is a content.                                                    *)
LEMMA NotificationTyped ==
    ASSUME NEW has \in {{"sur", "vrq", "cr"}, {"sur", "nev"}},
           NEW rep \in SUBSET Resource, \A r \in rep : IsReadable(r)
    PROVE  IsContent([kind |-> "sgn", has |-> has, text |-> NoText, rep |-> rep])
<1> DEFINE c == [kind |-> "sgn", has |-> has, text |-> NoText, rep |-> rep]
<1>1. c.kind = "sgn" /\ c.has = has /\ c.text = NoText /\ c.rep = rep
  OBVIOUS
<1>2. NoText \in Text /\ "sgn" \in Kind
  BY DEF NoText, Text, Shape, Kind
<1>3. has \subseteq Attribute
  BY DEF Attribute, NotificationWritten
<1>4. c \in [kind : Kind, has : SUBSET Attribute, text : Text, rep : SUBSET Resource]
  BY <1>2, <1>3
<1> HIDE DEF c
<1>5. IsContent(c)
  BY <1>1, <1>4 DEF IsContent, IsReadable
<1> QED  BY <1>5 DEF c

(* A verification is one.                                                  *)
LEMMA VerificationIsContent == IsContent(Verification)
BY NotificationTyped DEF Verification

(* A notification about a resource is one.                                 *)
LEMMA NotificationIsContent ==
    ASSUME NEW sub, NEW r \in Resource, IsReadable(r)
    PROVE  IsContent(BuildNotification(sub, r))
<1>1. PICK rep \in {{}, {r}} :
        BuildNotification(sub, r) =
          [kind |-> "sgn", has |-> {"sur", "nev"}, text |-> NoText, rep |-> rep]
  BY DEF BuildNotification
<1> QED  BY <1>1, NotificationTyped

(* What is sent on is a primitive again.                                   *)
LEMMA NotificationsOutgoing == ASSUME CarryInv, SendsOn  PROVE Outgoing'
<1>1. style'.method = ""
  <2>1. Node.method = ""
    BY DEF Node
  <2> QED  BY <2>1, SendsOnStarts
<1>2. IsContent(prim'.content)
  <2>1. CASE prim'.content = Verification
    BY <2>1, VerificationIsContent
  <2>2. CASE /\ MayBeCreated(decoded) /\ answer.content = Created(decoded)
             /\ IsContent(decoded.content)
             /\ \E sub \in Subscriptions :
                  prim'.content = BuildNotification(sub, answer.content)
    <3>1. answer.content \in Resource /\ IsReadable(answer.content)
      BY <2>2, CreatedFields
    <3> QED  BY <2>2, <3>1, NotificationIsContent
  <2> QED  BY <2>1, <2>2, NotificationsSent
<1> QED  BY <1>1, <1>2, NotificationsSent, NoPrimitiveTyped DEF Outgoing

(* Each conversion is applied to what the one before made.                 *)
LEMMA CarryStep == CarryInv /\ [Next]_vars => CarryInv'
<1> SUFFICES ASSUME CarryInv, [Next]_vars  PROVE CarryInv'
  OBVIOUS
<1>0. ASSUME UNCHANGED <<style, prim>>
      PROVE  Outgoing' /\ Message' = Message /\ Received' = Received
  <2>1. Outgoing'
    BY <1>0 DEF CarryInv, Outgoing
  <2>2. Message' = Message
    BY <1>0 DEF Message, ClientMessage
  <2>3. Received' = Received
    BY <2>2 DEF Received
  <2> QED  BY <2>1, <2>2, <2>3
<1>1. CASE Send
  <2>1. /\ stage' = "sent" /\ UNCHANGED <<style, prim, decoded>> /\ wire' = Message
    BY <1>1 DEF Send, Message
  <2> QED  BY <1>0, <2>1 DEF CarryInv, IsDecoded, AnsweredCreated
<1>2. CASE Parse
  <2>1. /\ stage = "sent" /\ stage' = "parsed" /\ UNCHANGED <<style, prim, decoded>>
        /\ wire' = Received
    BY <1>2 DEF Parse, CarryInv, Received
  <2> QED  BY <1>0, <2>1 DEF CarryInv, IsDecoded, AnsweredCreated
<1>3. CASE Decode
  <2>1. /\ stage = "parsed" /\ stage' = "decoded" /\ UNCHANGED <<style, prim, wire>>
        /\ decoded' = decodeRequest(Received) /\ wire = Received
    BY <1>3 DEF Decode, CarryInv
  <2>2. IsPrimitive(decoded')
    BY <2>1, DecodedIsPrimitive DEF CarryInv
  <2> QED  BY <1>0, <2>1, <2>2 DEF CarryInv, IsDecoded, AnsweredCreated
<1>4. CASE Decides
  <2>1. /\ stage = "decoded" /\ stage' = "answering"
        /\ UNCHANGED <<style, prim, wire, decoded>>
    BY <1>4, DecidesAnswers
  <2>2. AnsweredCreated'
    BY <1>4, DecidesCreated
  <2> QED  BY <1>0, <2>1, <2>2 DEF CarryInv, IsDecoded
<1>5. CASE SendsOn
  <2>1. stage' = "built" /\ decoded' = NoPrimitive
    BY <1>5, SendsOnStarts
  <2>2. Outgoing'
    BY <1>5, NotificationsOutgoing
  <2> QED  BY <2>1, <2>2, NoPrimitiveTyped DEF CarryInv, IsDecoded, AnsweredCreated
<1>6. CASE SendNowhere \/ Lose \/ RefuseToParse \/ NotifyCrashes \/ Return
  <2>1. /\ UNCHANGED <<style, prim, wire, decoded>>
        /\ \/ stage' = "returned"
           \/ stage = "sent" /\ stage' = "unparsed"
    BY <1>6 DEF SendNowhere, Lose, RefuseToParse, NotifyCrashes, Return
  <2> QED  BY <1>0, <2>1 DEF CarryInv, IsDecoded, AnsweredCreated
<1>7. CASE UNCHANGED vars
  <2>1. UNCHANGED <<style, prim, wire, decoded, stage, answer>>
    BY <1>7 DEF vars
  <2>2. AnsweredCreated'
    BY <2>1 DEF CarryInv, AnsweredCreated
  <2> QED  BY <1>0, <2>1, <2>2 DEF CarryInv, IsDecoded
<1> QED
  BY <1>1, <1>2, <1>3, <1>4, <1>5, <1>6, <1>7 DEF Next, Decides, SendsOn
-----------------------------------------------------------------------------
(* Types.                                                                  *)

TypeInv == CarryInv /\ TypeOK

(* The initial state has its types.                                        *)
LEMMA TypeStarts == Init => TypeInv
<1> SUFFICES ASSUME Init  PROVE TypeInv
  OBVIOUS
<1>1. CarryInv
  BY CarryStarts
<1>2. IsPrimitive(prim)
  BY <1>1, ContentTyped DEF CarryInv, Outgoing, IsPrimitive
<1>3. cse \in CseNames /\ stage = "built" /\ handled = {} /\ verdict = ""
  BY MessagesAssumption DEF Init
<1>4. answer.rsc = "OK" /\ wire.method = "Unknown"
  BY DEF Init, BareResponse, EmptyRequest
<1> QED
  BY <1>1, <1>2, <1>3, <1>4 DEF TypeInv, TypeOK, CarryInv, Stage, StatusCode, Status

(* Each status code becomes an HTTP status.                                *)
LEMMA HttpStatusTyped == \A rsc \in StatusCode : rscToHttpStatus(rsc) \in Status
BY DEF rscToHttpStatus, Status

(* Each step keeps the types.                                              *)
LEMMA TypeStep == TypeInv /\ [Next]_vars => TypeInv'
<1> SUFFICES ASSUME TypeInv, [Next]_vars  PROVE TypeInv'
  OBVIOUS
<1>1. CarryInv'
  BY CarryStep DEF TypeInv
<1>2. IsPrimitive(prim') /\ IsPrimitive(decoded')
  <2>1. Outgoing' /\ IsPrimitive(decoded)'
    BY <1>1 DEF CarryInv
  <2>2. IsPrimitive(prim)'
    BY <2>1, ContentTyped DEF Outgoing, IsPrimitive
  <2> QED  BY <2>1, <2>2 DEF IsPrimitive
<1>3. cse' \in CseNames
  BY DecidesAnswers, SendsOnStarts
  DEF TypeInv, TypeOK, Next, Decides, SendsOn, vars, Send, Parse, RefuseToParse, Decode,
      SendNowhere, Lose, NotifyCrashes, Return
<1>4. stage' \in Stage
  BY DecidesAnswers, SendsOnStarts
  DEF TypeInv, TypeOK, Next, Decides, SendsOn, vars, Send, Parse, RefuseToParse, Decode,
      SendNowhere, Lose, NotifyCrashes, Return, Stage
<1>5. wire'.method \in Methods \cup {"Unknown"}
  <2>1. CASE Send
    <3>1. wire' = Message
      BY <2>1 DEF Send, Message
    <3> QED  BY <3>1, MessageTyped DEF TypeInv, CarryInv
  <2>2. CASE Parse
    <3>1. wire' = Received
      BY <2>2 DEF Parse, Received, TypeInv, CarryInv
    <3> QED  BY <3>1, MessageTyped, ReceivedFields DEF TypeInv, CarryInv
  <2>3. CASE SendsOn
    <3>1. wire' = EmptyRequest
      BY <2>3 DEF SendsOn, SendNotification, SendSubscriptionVerification, Sends
    <3> QED  BY <3>1 DEF EmptyRequest
  <2>4. CASE Decides
    BY <2>4, DecidesAnswers DEF TypeInv, TypeOK
  <2>5. CASE \/ Decode \/ RefuseToParse \/ SendNowhere \/ Lose \/ NotifyCrashes \/ Return
             \/ UNCHANGED vars
    <3>1. wire' = wire
      BY <2>5 DEF Decode, RefuseToParse, SendNowhere, Lose, NotifyCrashes, Return, vars
    <3> QED  BY <3>1 DEF TypeInv, TypeOK
  <2> QED  BY <2>1, <2>2, <2>3, <2>4, <2>5 DEF Next, Decides, SendsOn
<1>6. \A c \in handled' : c.kind = "sgn"
  <2>1. CASE Notify
    BY <2>1 DEF Notify, TypeInv, TypeOK
  <2>2. CASE ~ Notify
    <3>1. handled' = handled
      BY <2>2
      DEF Next, vars, Send, Parse, RefuseToParse, Decode, SendNowhere, Lose, NotifyCrashes,
          Return, RefuseInvalid, DatabaseFails, RefuseTarget, RefuseCreate, Create,
          Retrieve, UpdateOrDelete, SendNotification, SendSubscriptionVerification, Sends
    <3> QED  BY <3>1 DEF TypeInv, TypeOK
  <2> QED  BY <2>1, <2>2
<1>7. answer'.rsc \in StatusCode
  <2>1. CASE Decides
    BY <2>1, DecisionsAreGrounded
  <2>2. CASE SendsOn
    <3>1. answer' = BareResponse("OK")
      BY <2>2 DEF SendsOn, SendNotification, SendSubscriptionVerification, Sends
    <3> QED  BY <3>1, ResponseCodes DEF StatusCode
  <2>3. CASE \/ Send \/ Parse \/ Decode \/ RefuseToParse \/ SendNowhere \/ Lose
             \/ NotifyCrashes \/ Return \/ UNCHANGED vars
    <3>1. answer' = answer
      BY <2>3
      DEF Send, Parse, Decode, RefuseToParse, SendNowhere, Lose, NotifyCrashes, Return, vars
    <3> QED  BY <3>1 DEF TypeInv, TypeOK
  <2> QED  BY <2>1, <2>2, <2>3 DEF Next, Decides, SendsOn
<1>8. verdict' \in Status
  <2>1. CASE Return
    <3>1. verdict' \in {HttpAnswer.status, "BadGateway"}
      BY <2>1 DEF Return
    <3>2. HttpAnswer.status \in Status
      <4>1. CASE stage = "unparsed"
        BY <4>1 DEF HttpAnswer, EmptyResponse, Status
      <4>2. CASE stage # "unparsed"
        <5>1. PICK mime : HttpAnswer = encodeResponse(answer, mime)
          BY <4>2 DEF HttpAnswer
        <5>2. HttpAnswer.status \in {"InternalServerError", rscToHttpStatus(answer.rsc)}
          BY <5>1, EncodedStatus
        <5>3. "InternalServerError" \in Status
          BY DEF Status
        <5> QED  BY <5>2, <5>3, HttpStatusTyped DEF TypeInv, TypeOK
      <4> QED  BY <4>1, <4>2
    <3>3. "BadGateway" \in Status
      BY DEF Status
    <3> QED  BY <3>1, <3>2, <3>3
  <2>2. CASE SendNowhere \/ Lose \/ NotifyCrashes
    <3>1. verdict' \in {"ServiceUnavailable", "BadGateway", "GatewayTimeout"}
      BY <2>2 DEF SendNowhere, Lose, NotifyCrashes
    <3> QED  BY <3>1 DEF Status
  <2>3. CASE \/ Send \/ Parse \/ Decode \/ RefuseToParse \/ Decides \/ SendsOn
             \/ UNCHANGED vars
    <3>1. verdict' = verdict
      BY <2>3, DecidesAnswers, SendsOnStarts DEF Send, Parse, Decode, RefuseToParse, vars
    <3> QED  BY <3>1 DEF TypeInv, TypeOK
  <2> QED  BY <2>1, <2>2, <2>3 DEF Next, Decides, SendsOn
<1> QED
  BY <1>1, <1>2, <1>3, <1>4, <1>5, <1>6, <1>7, <1>8 DEF TypeInv, TypeOK

(* Every primitive and message has its type, whatever is asked.            *)
THEOREM MessagesTypeCorrect == Spec => []TypeOK
<1>1. TypeInv => TypeOK
  BY DEF TypeInv
<1> QED  BY <1>1, TypeStarts, TypeStep, PTL DEF Spec

-----------------------------------------------------------------------------
(* What is meant arrives.                                                  *)

(* Only what is created has a resource type.                               *)
OnlyCreatesTyped == \A q \in Requests : q.ty # NoType => q.op = "Create"

(* The criteria of a subscription that are read but never written, those   *)
(* of times and sizes, are not sent by a client that uses this serialiser. *)
CriteriaSent(c) == c.kind = "sub" => c.has \cap CriteriaRead \subseteq CriteriaWritten

AllCriteriaSent == \A q \in Requests : CriteriaSent(q.content)

SendInv ==
    /\ CarryInv
    /\ prim.ty # NoType => prim.op = "Create"
    /\ CriteriaSent(prim.content)

(* The provisions hold of the first primitive.                             *)
LEMMA SendStarts == ASSUME OnlyCreatesTyped, AllCriteriaSent  PROVE Init => SendInv
<1> SUFFICES ASSUME Init  PROVE SendInv
  OBVIOUS
<1>1. PICK q \in Requests :
        \E to :
          prim = [op |-> q.op, to |-> to, from |-> q.from, rqi |-> q.rqi, ty |-> q.ty,
                  params |-> q.params, filters |-> {}, vendor |-> "none",
                  content |-> q.content]
  BY DEF Init
<1>2. prim.op = q.op /\ prim.ty = q.ty /\ prim.content = q.content
  BY <1>1
<1>3. prim.ty # NoType => prim.op = "Create"
  BY <1>2 DEF OnlyCreatesTyped
<1>4. CriteriaSent(q.content)
  BY DEF AllCriteriaSent
<1> QED  BY <1>2, <1>3, <1>4, CarryStarts DEF SendInv

(* The primitive changes only when a notification is sent on.              *)
LEMMA PrimStays ==
    ASSUME [Next]_vars
    PROVE  SendsOn \/ UNCHANGED <<prim, style, meant>>
BY DecidesAnswers
DEF Next, Decides, SendsOn, vars, Send, Parse, RefuseToParse, Decode, SendNowhere, Lose,
    NotifyCrashes, Return

(* They hold of the notifications that follow.                             *)
LEMMA SendStep == SendInv /\ [Next]_vars => SendInv'
<1> SUFFICES ASSUME SendInv, [Next]_vars  PROVE SendInv'
  OBVIOUS
<1>1. CarryInv /\ CarryInv'
  BY CarryStep DEF SendInv
<1>2. CASE SendsOn
  <2>1. prim'.ty = NoType
    BY <1>1, <1>2, NotificationsSent DEF NoPrimitive
  <2>2. prim'.content.kind = "sgn"
    BY <1>1, <1>2, NotificationsAre
  <2> QED  BY <1>1, <2>1, <2>2 DEF SendInv, CriteriaSent
<1>3. CASE UNCHANGED <<prim, style, meant>>
  BY <1>1, <1>3 DEF SendInv, CriteriaSent
<1> QED  BY <1>2, <1>3, PrimStays

(* Every attribute that is read, but the creator, is written.              *)
LEMMA ReadIsWritten ==
    ASSUME NEW c, IsReadable(c), CriteriaSent(c)
    PROVE  (c.has \cap Read(c)) \ Creator \subseteq Written(c)
<1>1. CASE c.kind = "ae"
  BY <1>1 DEF Read, Written, AERead, AEWritten, BaseWritten
<1>2. CASE c.kind = "cnt"
  BY <1>2 DEF Read, Written, ContainerRead, ContainerWritten, BaseWritten
<1>3. CASE c.kind = "cin"
  BY <1>3 DEF Read, Written, ContentInstanceRead, ContentInstanceWritten, BaseWritten
<1>4. CASE c.kind = "sub"
  <2>1. Read(c) = SubscriptionRead /\ Written(c) = SubscriptionWritten(c)
    BY <1>4 DEF Read, Written
  <2>2. c.has \cap CriteriaRead \subseteq CriteriaWritten
    BY <1>4 DEF CriteriaSent
  <2>3. SubscriptionRead \ Creator \subseteq
          BaseWritten \cup {"nu", "bn", "nct", "exc", "ln", "su"} \cup CriteriaRead
    BY DEF SubscriptionRead, Creator, BaseWritten
  <2> QED  BY <2>1, <2>2, <2>3 DEF SubscriptionWritten
<1>5. CASE c.kind = "sgn"
  BY <1>5 DEF Read, Written, NotificationRead
<1> QED  BY <1>1, <1>2, <1>3, <1>4, <1>5 DEF IsReadable

(* The kind, the attributes and the kinds inside a notification survive.   *)
LEMMA RoundTripKeeps ==
    ASSUME NEW c, IsContent(c), c # NoContent, CriteriaSent(c)
    PROVE  /\ RoundTrip(c).kind = c.kind
           /\ (c.has \cap Read(c)) \ Creator \subseteq RoundTrip(c).has
           /\ {r.kind : r \in c.rep} = {r.kind : r \in RoundTrip(c).rep}
<1>1. /\ RoundTrip(c).kind = c.kind /\ RoundTrip(c).has = ReadHas(c)
      /\ RoundTrip(c).rep = {Reread(r) : r \in c.rep}
  BY RoundTripFields
<1>2. IsReadable(c)
  BY DEF IsContent
<1>3. (c.has \cap Read(c)) \ Creator \subseteq ReadHas(c)
  BY <1>2, ReadIsWritten DEF ReadHas
<1>4. \A r \in c.rep : Reread(r).kind = r.kind
  BY RereadFields
<1>5. {r.kind : r \in c.rep} = {r.kind : r \in RoundTrip(c).rep}
  BY <1>1, <1>4
<1> QED  BY <1>1, <1>3, <1>5

(* The method and the type together tell the operation.                    *)
LEMMA OperationTold ==
    ASSUME NEW op \in Operation, NEW ty, (ty # NoType) <=> op = "Create"
    PROVE  methodToOperation(operationToMethod[op], ty # NoType) = op
BY DEF methodToOperation, operationToMethod, Operation

(* A plain message tells the operation, the type and the parameters.       *)
LEMMA PlainFields ==
    ASSUME SendInv, IsPlain
    PROVE  /\ Received.method = operationToMethod[prim.op]
           /\ ResourceTypeOf(Received) = prim.ty
           /\ prim.params \cap SentParameters \subseteq Received.params
<1>1. operationToMethod[prim.op] \in Methods
  BY DEF SendInv, CarryInv, Outgoing, operationToMethod, Operation, Methods
<1>2. style.method = "" /\ (prim.op = "Create" => prim.content # NoContent)
      /\ (prim.ty # NoType => prim.op = "Create")
  BY DEF IsPlain, SendInv
<1>3. /\ Message.method = operationToMethod[prim.op]
      /\ Message.mimeType \in {NoType, prim.ty} /\ Message.typeHeader \in {NoType, prim.ty}
      /\ prim.op = "Create" => prim.ty \in {Message.mimeType, Message.typeHeader}
      /\ prim.params \cap SentParameters \subseteq Message.params
  <2>1. CASE style.client
    BY <1>2, <2>1, ClientFields
  <2>2. CASE ~ style.client
    BY <1>1, <1>2, <2>2, NodeFields
  <2> QED  BY <2>1, <2>2
<1>4. /\ Received.method = Message.method /\ Received.params = Message.params
      /\ Received.mimeType = Message.mimeType /\ Received.typeHeader = Message.typeHeader
  BY ReceivedFields
<1>5. ResourceTypeOf(Received) = prim.ty
  BY <1>2, <1>3, <1>4 DEF ResourceTypeOf
<1> QED  BY <1>3, <1>4, <1>5

(* So the receiver has what the sender meant.                              *)
LEMMA SendSurvives == SendInv => RequestSurvives
<1> SUFFICES ASSUME SendInv, IsDecoded, IsPlain
             PROVE
      /\ decoded.op = prim.op /\ decoded.from = prim.from /\ decoded.rqi = prim.rqi
      /\ prim.op = "Create" => decoded.ty = prim.ty
      /\ prim.params \cap SentParameters \subseteq decoded.params
      /\ decoded.content.kind = prim.content.kind
      /\ prim.content # NoContent =>
           (prim.content.has \cap Read(prim.content)) \ Creator
             \subseteq decoded.content.has
      /\ {r.kind : r \in prim.content.rep} = {r.kind : r \in decoded.content.rep}
  BY DEF RequestSurvives
<1> DEFINE c == prim.content
           d == DecodedContent(Received)
<1>1. decoded = decodeRequest(Received)
  BY DEF SendInv, CarryInv
<1>2. /\ decoded.op = methodToOperation(Received.method, ResourceTypeOf(Received) # NoType)
      /\ decoded.from = Received.from /\ decoded.rqi = Received.rqi
      /\ decoded.ty = ResourceTypeOf(Received)
      /\ Received.params \cap ReadParameters \subseteq decoded.params
      /\ decoded.content = d
  BY <1>1, DecodedFields
<1>3. decoded.op = prim.op
  <2>1. prim.op \in Operation /\ ((prim.ty # NoType) <=> prim.op = "Create")
    BY DEF SendInv, CarryInv, Outgoing, IsPlain
  <2> QED  BY <1>2, <2>1, PlainFields, OperationTold
<1>4. decoded.from = prim.from /\ decoded.rqi = prim.rqi
  BY <1>2, ReceivedFields, NodeFields, ClientFields
<1>5. prim.params \cap SentParameters \subseteq decoded.params
  <2>1. SentParameters \subseteq ReadParameters
    BY DEF ReadParameters
  <2> QED  BY <1>2, <2>1, PlainFields
<1>6. /\ c = NoContent => d = NoContent
      /\ c # NoContent => d = RoundTrip(c)
  BY ArrivedContent DEF IsPlain
<1>7. IsContent(c) /\ CriteriaSent(c)
  BY DEF SendInv, CarryInv, Outgoing
<1> HIDE DEF c, d
<1>8. /\ d.kind = c.kind
      /\ c # NoContent => (c.has \cap Read(c)) \ Creator \subseteq d.has
      /\ {r.kind : r \in c.rep} = {r.kind : r \in d.rep}
  BY <1>6, <1>7, RoundTripKeeps
<1> USE DEF c
<1> QED  BY <1>2, <1>3, <1>4, <1>5, <1>8, PlainFields

(* What the receiver decodes is what the sender had in its primitive, for  *)
(* any request of a known kind.                                            *)
THEOREM RequestsAlwaysSurvive ==
    ASSUME OnlyCreatesTyped, AllCriteriaSent
    PROVE  Spec => []RequestSurvives
<1> QED  BY SendStarts, SendStep, SendSurvives, PTL DEF Spec

-----------------------------------------------------------------------------
(* Texts.                                                                  *)

(* A request carries the text its author means, if one that survives.      *)
Speaks(c, text) ==
    /\ c.kind = "cin" => c.text = text
    /\ \A r \in c.rep : r.kind = "cin" => r.text = text

TextsMeant == \A q \in Requests : Faithful(q.text) => Speaks(q.content, q.text)

Heard == \A c \in handled : \A r \in c.rep : r.kind = "cin" => r.text = meant.text

TextInv ==
    /\ CarryInv
    /\ Faithful(meant.text) => Speaks(prim.content, meant.text) /\ Heard

(* The first primitive carries the text that is meant.                     *)
LEMMA TextStarts == ASSUME TextsMeant  PROVE Init => TextInv
<1> SUFFICES ASSUME Init  PROVE TextInv
  OBVIOUS
<1>1. PICK q \in Requests :
        /\ meant = [path |-> q.path, text |-> q.text]
        /\ \E to :
             prim = [op |-> q.op, to |-> to, from |-> q.from, rqi |-> q.rqi, ty |-> q.ty,
                     params |-> q.params, filters |-> {}, vendor |-> "none",
                     content |-> q.content]
  BY DEF Init
<1>2. prim.content = q.content /\ meant.text = q.text
  BY <1>1
<1>3. Faithful(q.text) => Speaks(q.content, q.text)
  BY DEF TextsMeant
<1>4. handled = {}
  BY DEF Init
<1> QED  BY <1>2, <1>3, <1>4, CarryStarts DEF TextInv, Heard

(* What is read speaks as what was written.                                *)
LEMMA RereadText ==
    ASSUME NEW c, c.text \in Text, NEW text, Faithful(text),
           c.kind = "cin" => c.text = text
    PROVE  Reread(c).kind = "cin" => Reread(c).text = text
BY RereadFields, FaithfulTexts

(* What is decoded carries the text that was sent.                         *)
LEMMA DecodedSpeaks ==
    ASSUME CarryInv, NEW text, Faithful(text), Speaks(prim.content, text), IsDecoded
    PROVE  Speaks(decoded.content, text) /\ IsContent(decoded.content)
<1> DEFINE c == prim.content
           d == decoded.content
<1>1. d = DecodedContent(Received)
  BY DecodedFields DEF CarryInv
<1>2. IsContent(c) /\ IsContent(d)
  BY <1>1, DecodedIsContent DEF CarryInv, Outgoing
<1>3. d = NoContent \/ (c # NoContent /\ d = RoundTrip(c))
  BY <1>1, ArrivedContent
<1>4. Speaks(c, text)
  OBVIOUS
<1> HIDE DEF c, d
<1>5. CASE d = NoContent
  <2>1. NoContent.kind = "none" /\ NoContent.rep = {}
    BY DEF NoContent
  <2>2. Speaks(d, text)
    BY <1>5, <2>1 DEF Speaks
  <2> QED  BY <1>2, <2>2 DEF d
<1>6. CASE c # NoContent /\ d = RoundTrip(c)
  <2>1. /\ d.kind = c.kind /\ d.text = Reread(c).text /\ Reread(c).kind = c.kind
        /\ d.rep = {Reread(r) : r \in c.rep}
    BY <1>2, <1>6, RoundTripFields, RereadFields
  <2>2. c.text \in Text /\ \A r \in c.rep : r.text \in Text
    BY <1>2, ContentTyped DEF Resource
  <2>3. Reread(c).kind = "cin" => Reread(c).text = text
    BY <1>4, <2>2, RereadText DEF Speaks
  <2>4. \A r \in c.rep : Reread(r).kind = "cin" => Reread(r).text = text
    BY <1>4, <2>2, RereadText DEF Speaks
  <2>5. Speaks(d, text)
    BY <2>1, <2>3, <2>4 DEF Speaks
  <2> QED  BY <1>2, <2>5 DEF d
<1> QED  BY <1>3, <1>5, <1>6

(* A handler is given what was decoded.                                    *)
LEMMA HandledStays ==
    ASSUME [Next]_vars
    PROVE  \/ handled' = handled
           \/ stage = "decoded" /\ handled' = handled \cup {decoded.content}
<1>1. CASE Notify
  BY <1>1 DEF Notify, Dispatched
<1>2. CASE ~ Notify
  BY <1>2
  DEF Next, vars, Send, Parse, RefuseToParse, Decode, SendNowhere, Lose, NotifyCrashes,
      Return, RefuseInvalid, DatabaseFails, RefuseTarget, RefuseCreate, Create,
      Retrieve, UpdateOrDelete, SendNotification, SendSubscriptionVerification, Sends
<1> QED  BY <1>1, <1>2

(* A notification carries the text of what was created.                    *)
LEMMA TextStep == TextInv /\ [Next]_vars => TextInv'
<1> SUFFICES ASSUME TextInv, [Next]_vars  PROVE TextInv'
  OBVIOUS
<1>1. CarryInv /\ CarryInv'
  BY CarryStep DEF TextInv
<1>2. meant' = meant
  BY PrimStays, SendsOnStarts
<1> SUFFICES ASSUME Faithful(meant.text)
             PROVE  /\ Speaks(prim'.content, meant.text)
                    /\ \A c \in handled' : \A r \in c.rep :
                         r.kind = "cin" => r.text = meant.text
  BY <1>1, <1>2 DEF TextInv, Speaks, Heard
<1>3. Speaks(prim.content, meant.text) /\ Heard
  BY DEF TextInv
<1>4. Speaks(prim'.content, meant.text)
  <2>1. CASE UNCHANGED <<prim, style, meant>>
    BY <1>3, <2>1
  <2>2. CASE prim'.content = Verification
    BY <2>2, NotificationFields DEF Speaks
  <2>3. CASE /\ stage = "answering" /\ MayBeCreated(decoded)
             /\ answer.content = Created(decoded) /\ IsContent(decoded.content)
             /\ \E sub \in Subscriptions :
                  prim'.content = BuildNotification(sub, answer.content)
    <3>1. Speaks(decoded.content, meant.text)
      BY <1>1, <1>3, <2>3, DecodedSpeaks DEF IsDecoded
    <3>2. /\ answer.content.kind = decoded.content.kind
          /\ answer.content.text = decoded.content.text
      BY <2>3, CreatedFields
    <3>3. answer.content.kind = "cin" => answer.content.text = meant.text
      BY <3>1, <3>2 DEF Speaks
    <3>4. prim'.content.kind = "sgn" /\ prim'.content.rep \in {{}, {answer.content}}
      BY <2>3, NotificationFields
    <3> QED  BY <3>3, <3>4 DEF Speaks
  <2> QED  BY <1>1, <2>1, <2>2, <2>3, PrimStays, NotificationsSent
<1>5. \A c \in handled' : \A r \in c.rep : r.kind = "cin" => r.text = meant.text
  <2>1. CASE handled' = handled
    BY <1>3, <2>1 DEF Heard
  <2>2. CASE stage = "decoded" /\ handled' = handled \cup {decoded.content}
    <3>1. Speaks(decoded.content, meant.text)
      BY <1>1, <1>3, <2>2, DecodedSpeaks DEF IsDecoded
    <3> QED  BY <1>3, <2>2, <3>1 DEF Heard, Speaks
  <2> QED  BY <2>1, <2>2, HandledStays
<1> QED  BY <1>4, <1>5

(* So the service and the handlers have the text that was meant.           *)
LEMMA TextSurvives == TextInv => ContentSurvives
<1> SUFFICES ASSUME TextInv, Faithful(meant.text)
             PROVE  /\ Heard
                    /\ stage = "answering" /\ answer.content.kind = "cin"
                         /\ decoded.op = "Create" => answer.content.text = meant.text
  BY DEF ContentSurvives, Heard
<1>1. CarryInv /\ Speaks(prim.content, meant.text) /\ Heard
  BY DEF TextInv
<1>2. ASSUME stage = "answering", answer.content.kind = "cin", decoded.op = "Create"
      PROVE  answer.content.text = meant.text
  <2>1. answer.content # NoContent
    <3>1. NoContent.kind = "none"
      BY DEF NoContent
    <3> QED  BY <1>2, <3>1
  <2>2. MayBeCreated(decoded) /\ answer.content = Created(decoded)
    BY <1>1, <1>2, <2>1 DEF CarryInv, AnsweredCreated
  <2>3. Speaks(decoded.content, meant.text) /\ IsContent(decoded.content)
    BY <1>1, <1>2, DecodedSpeaks DEF IsDecoded
  <2> QED  BY <1>2, <2>2, <2>3, CreatedFields DEF Speaks
<1> QED  BY <1>1, <1>2

(* A faithful text is the same for its author, for the CSE that stores it  *)
(* and for the peer whose handler acts on it, over any number of hops.     *)
THEOREM TextsAlwaysSurvive ==
    ASSUME TextsMeant
    PROVE  Spec => []ContentSurvives
<1> QED  BY TextStarts, TextStep, TextSurvives, PTL DEF Spec

-----------------------------------------------------------------------------
(* Notifications.                                                          *)

(* What a node posts is made by BuildNotification, or a verification.      *)
IsNodeNotification(p) ==
    /\ p.rqi # "" /\ p.content.kind = "sgn"
    /\ p.content.has \in {{"sur", "nev"}, {"sur", "vrq", "cr"}}

NodesNotify ==
    \A q \in Requests : q.op = "Notify" /\ ~ q.style.client => IsNodeNotification(q)

NotifierInv ==
    /\ CarryInv /\ WayInv
    /\ FromNode => IsNodeNotification(prim)
    /\ NotificationsAccepted

(* Before it is sent nothing can be wrong with a notification.             *)
LEMMA NotifierStarts == ASSUME NodesNotify  PROVE Init => NotifierInv
<1> SUFFICES ASSUME Init  PROVE NotifierInv
  OBVIOUS
<1>1. PICK q \in Requests :
        /\ style = q.style
        /\ \E to :
             prim = [op |-> q.op, to |-> to, from |-> q.from, rqi |-> q.rqi, ty |-> q.ty,
                     params |-> q.params, filters |-> {}, vendor |-> "none",
                     content |-> q.content]
  BY DEF Init
<1>2. prim.op = q.op /\ prim.rqi = q.rqi /\ prim.content = q.content
  BY <1>1
<1>3. FromNode => IsNodeNotification(prim)
  BY <1>1, <1>2 DEF NodesNotify, FromNode, IsNodeNotification
<1>4. stage = "built"
  BY DEF Init
<1> QED  BY <1>3, <1>4, CarryStarts, WayStarts DEF NotifierInv, NotificationsAccepted

(* A node's message can be parsed.                                         *)
LEMMA NodesAreParsed ==
    ASSUME CarryInv, FromNode
    PROVE  ParsesRequest(Message)
<1>1. operationToMethod[prim.op] \in Methods
  BY DEF CarryInv, Outgoing, operationToMethod, Operation, Methods
<1> QED  BY <1>1, NodeFields DEF ParsesRequest, FromNode

(* A notification is whole when it arrives.                                *)
LEMMA NotificationArrives ==
    ASSUME NotifierInv, FromNode, IsDecoded
    PROVE  /\ decoded.op = "Notify" /\ decoded.from = prim.from /\ decoded.rqi # ""
           /\ decoded.content.kind = "sgn"
           /\ decoded.content.has = prim.content.has
           /\ {r.kind : r \in decoded.content.rep} = {r.kind : r \in prim.content.rep}
<1> DEFINE c == prim.content
           d == decoded.content
<1>1. decoded.op = "Notify"
  BY DEF NotifierInv, WayInv
<1>2. decoded = decodeRequest(Received)
  BY DEF NotifierInv, CarryInv
<1>3. decoded.from = prim.from /\ decoded.rqi = prim.rqi
  BY <1>2, DecodedFields, ReceivedFields, NodeFields DEF FromNode
<1>4. prim.rqi # "" /\ c.kind = "sgn" /\ c.has \in {{"sur", "nev"}, {"sur", "vrq", "cr"}}
  BY DEF NotifierInv, IsNodeNotification
<1>5. c # NoContent /\ IsContent(c)
  <2>1. NoContent.kind = "none"
    BY DEF NoContent
  <2>2. IsContent(c)
    BY DEF NotifierInv, CarryInv, Outgoing
  <2> QED  BY <1>4, <2>1, <2>2
<1>6. d = RoundTrip(c)
  <2>1. d = DecodedContent(Received)
    BY <1>2, DecodedFields
  <2> QED  BY <1>5, <2>1, ArrivedContent DEF FromNode
<1> HIDE DEF c, d
<1>7. /\ d.kind = "sgn" /\ d.has = ReadHas(c) /\ d.rep = {Reread(r) : r \in c.rep}
  BY <1>4, <1>5, <1>6, RoundTripFields
<1>8. ReadHas(c) = c.has
  <2>1. Written(c) = NotificationWritten /\ Read(c) = NotificationWritten
        /\ AlwaysWritten(c) = {"sur"}
    BY <1>4 DEF Written, Read, NotificationRead, AlwaysWritten
  <2>2. c.has \subseteq NotificationWritten /\ "sur" \in c.has
    BY <1>4 DEF NotificationWritten
  <2> QED  BY <1>4, <2>1, <2>2 DEF ReadHas
<1>9. \A r \in c.rep : Reread(r).kind = r.kind
  BY RereadFields
<1>10. {r.kind : r \in d.rep} = {r.kind : r \in c.rep}
  BY <1>7, <1>9
<1> USE DEF c, d
<1> QED  BY <1>1, <1>3, <1>4, <1>7, <1>8, <1>10

(* A handler that agrees to what was sent agrees to what arrives.          *)
LEMMA HandlersAgree ==
    ASSUME NEW c, NEW d, HandlerAnswers(c) = {"OK"}, d.has = c.has,
           {r.kind : r \in d.rep} = {r.kind : r \in c.rep}
    PROVE  HandlerAnswers(d) = {"OK"}
<1>1. "vrq" \in c.has \/ \E r \in c.rep : r.kind = "cin"
  BY DEF HandlerAnswers
<1>2. ("vrq" \in d.has) \/ \E r \in d.rep : r.kind = "cin"
  <2>1. (\E r \in c.rep : r.kind = "cin") <=> "cin" \in {r.kind : r \in c.rep}
    OBVIOUS
  <2>2. (\E r \in d.rep : r.kind = "cin") <=> "cin" \in {r.kind : r \in d.rep}
    OBVIOUS
  <2> QED  BY <1>1, <2>1, <2>2
<1> QED  BY <1>2 DEF HandlerAnswers

(* The only decision about a notification is that of Notify.               *)
LEMMA NotificationsDecided ==
    ASSUME NotifierInv, FromNode, prim.from # "", HandlerAnswers(prim.content) = {"OK"},
           Decides
    PROVE  answer'.rsc = "OK" /\ \E c \in handled' : c.has = prim.content.has
<1>1. /\ decoded.op = "Notify" /\ decoded.from # "" /\ decoded.rqi # ""
      /\ decoded.content.kind = "sgn" /\ decoded.content.has = prim.content.has
      /\ HandlerAnswers(decoded.content) = {"OK"}
  <2>1. IsDecoded
    BY DecidesAnswers DEF IsDecoded
  <2> QED  BY <2>1, NotificationArrives, HandlersAgree
<1>2. isValidRequest(decoded)
  BY <1>1 DEF isValidRequest
<1>3. Notify
  BY <1>1, <1>2
  DEF Decides, RefuseInvalid, DatabaseFails, RefuseTarget, RefuseCreate, Create, Retrieve,
      UpdateOrDelete, Dispatched
<1>4. /\ handled' = handled \cup {decoded.content}
      /\ \E rsc \in HandlerAnswers(decoded.content) :
            answer' = [BareResponse(rsc) EXCEPT !.to = decoded.from, !.rqi = decoded.rqi]
  BY <1>1, <1>3, Zenon DEF Notify, Answer
<1>5. answer' = [BareResponse("OK") EXCEPT !.to = decoded.from, !.rqi = decoded.rqi]
  BY <1>1, <1>4
<1>6. answer'.rsc = "OK"
  BY <1>5 DEF BareResponse
<1> QED  BY <1>1, <1>4, <1>6

(* A notification that is posted is agreed to.                             *)
LEMMA NotifierStep == NotifierInv /\ [Next]_vars => NotifierInv'
<1> SUFFICES ASSUME NotifierInv, [Next]_vars  PROVE NotifierInv'
  OBVIOUS
<1>1. CarryInv /\ CarryInv' /\ WayInv'
  BY CarryStep, WayStep DEF NotifierInv
<1>2. (FromNode => IsNodeNotification(prim))'
  <2>1. CASE SendsOn
    <3>1. prim'.rqi # ""
      BY <1>1, <2>1, NotificationsSent
    <3> QED  BY <1>1, <2>1, <3>1, NotificationsAre DEF IsNodeNotification
  <2>2. CASE UNCHANGED <<prim, style, meant>>
    BY <2>2 DEF NotifierInv, FromNode, IsNodeNotification
  <2> QED  BY <2>1, <2>2, PrimStays
<1>3. NotificationsAccepted'
  <2> SUFFICES ASSUME FromNode', prim'.from # "", HandlerAnswers(prim'.content) = {"OK"}
               PROVE  /\ stage' # "unparsed"
                      /\ stage' = "answering" =>
                           /\ answer'.rsc = "OK"
                           /\ \E c \in handled' : c.has = prim'.content.has
    BY DEF NotificationsAccepted, FromNode, HandlerAnswers, HasStrayPointer
  <2>1. CASE SendsOn
    BY <2>1, SendsOnStarts
  <2>2. CASE Decides
    <3>1. stage' = "answering" /\ UNCHANGED <<prim, style>>
      BY <2>2, DecidesAnswers
    <3>2. FromNode /\ prim.from # "" /\ HandlerAnswers(prim.content) = {"OK"}
      BY <3>1 DEF FromNode, HandlerAnswers, HasStrayPointer
    <3> QED  BY <2>2, <3>1, <3>2, NotificationsDecided
  <2>3. CASE RefuseToParse
    <3>1. stage = "sent" /\ ~ ParsesRequest(wire) /\ UNCHANGED <<prim, style>>
      BY <2>3 DEF RefuseToParse
    <3>2. wire = Message /\ FromNode
      BY <1>1, <3>1 DEF CarryInv, FromNode
    <3> QED  BY <1>1, <3>1, <3>2, NodesAreParsed
  <2>4. CASE \/ Send \/ Parse \/ Decode \/ SendNowhere \/ Lose \/ NotifyCrashes \/ Return
    <3>1. stage' \in {"sent", "parsed", "decoded", "returned"}
      BY <2>4 DEF Send, Parse, Decode, SendNowhere, Lose, NotifyCrashes, Return
    <3> QED  BY <3>1
  <2>5. CASE UNCHANGED vars
    BY <2>5
    DEF vars, NotifierInv, NotificationsAccepted, FromNode, HandlerAnswers, HasStrayPointer
  <2> QED  BY <2>1, <2>2, <2>3, <2>4, <2>5 DEF Next, Decides, SendsOn
<1> QED  BY <1>1, <1>2, <1>3 DEF NotifierInv

(* Whatever a CSE posts to a subscriber reaches the subscriber's handler   *)
(* and is agreed to, unless it is about an originator without a name or    *)
(* carries nothing a handler takes.                                        *)
THEOREM NotificationsAlwaysAccepted ==
    ASSUME NodesNotify
    PROVE  Spec => []NotificationsAccepted
<1>1. NotifierInv => NotificationsAccepted
  BY DEF NotifierInv
<1> QED  BY <1>1, NotifierStarts, NotifierStep, PTL DEF Spec
=============================================================================
