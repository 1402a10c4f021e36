-------------------------- MODULE FileWatchProofs ---------------------------
(***************************************************************************)
(* Safety of FileWatch, for any number of lines, files, removals and       *)
(* repeated modification times.                                            *)
(*                                                                         *)
(* TailIsExact is about a file nobody removes or truncates.  Such a file,  *)
(* once it is there, is the one main opens (StillThere), and only grows at *)
(* its end, so what was read of it stays a part of it (SubSeqOfAppend) and *)
(* the next read continues it.  PanicsOnlyOnLoss follows news from the     *)
(* look to the read (NewsWasSeen).                                         *)
(***************************************************************************)
EXTENDS FileWatch, SequenceTheorems, TLAPS

\* The writer has a file open, and a line left to write.
WriterOK == writer = "write" => target \in File /\ written < MaxLine

\* No time is later than the clock, and a file that is there has one.
StampsOK ==
  /\ \A f \in File : stamp[f] <= clock
  /\ clock > 0 /\ (current # Missing => stamp[current] > 0)

\* Main has been told of a file, or has had one open.
Found ==
  \/ changed \/ place \in {"seeking", "noticed", "opened", "printing"}
  \/ program = "tail" /\ place = "waiting"

\* A file that was there and was not removed is still there, and is the one that
\* is read.
StillThere ==
  /\ damage = 0 /\ Found => current # Missing
  /\ place \in {"seeking", "opened"} => handle # Missing
  /\ damage = 0 /\ place \in {"seeking", "opened"} => handle = current

\* Only 6 starts with a file, and it starts with nothing printed.
StartsEmpty ==
  place \in {"starting", "seeking"} => program = "tail" /\ offset = 0 /\ printed = << >>

\* What main is told, and reads, was seen.
NewsWasSeen == changed \/ place \in {"noticed", "opened", "printing"} => last # 0

Typed == TypeOK /\ WriterOK /\ StampsOK

LEMMA BoundFacts ==
  /\ MaxLine \in Nat /\ MaxFile \in Nat /\ MaxDamage \in Nat /\ MaxRepeat \in Nat
  /\ MaxError \in Nat
  /\ 1 \in File /\ \A f \in File : f \in Nat /\ f # Missing
  /\ 0 \in Line /\ Line \subseteq Nat
  BY WatchAssumption DEF File, Missing, Line

-----------------------------------------------------------------------------
(* Parts of a file.                                                        *)

LEMMA PartOf ==
  ASSUME NEW s \in Seq(Line), NEW m \in Nat, NEW n \in Nat, 1 <= m, n <= Len(s)
  PROVE  /\ SubSeq(s, m, n) \in Seq(Line)
         /\ Len(SubSeq(s, m, n)) = IF m <= n THEN n - m + 1 ELSE 0
         /\ \A i \in 1 .. n - m + 1 : SubSeq(s, m, n)[i] = s[m + i - 1]
<1>1. \A i \in m .. n : i \in 1 .. Len(s)
  BY LenProperties
<1>2. \A i \in m .. n : s[i] \in Line
  BY <1>1, ElementOfSeq
<1>3. m \in Int /\ n \in Int
  OBVIOUS
<1> QED
  BY <1>2, <1>3, SubSeqProperties

LEMMA RestOf ==
  ASSUME NEW s \in Seq(Line), NEW o \in Nat
  PROVE  /\ SubSeq(s, o + 1, Len(s)) \in Seq(Line)
         /\ Len(SubSeq(s, o + 1, Len(s))) = IF o + 1 <= Len(s) THEN Len(s) - o ELSE 0
         /\ \A i \in 1 .. Len(SubSeq(s, o + 1, Len(s))) :
              SubSeq(s, o + 1, Len(s))[i] = s[o + i]
<1> DEFINE n == Len(s)
<1>1. n \in Nat
  BY LenProperties
<1>2. o + 1 \in Nat /\ 1 <= o + 1 /\ n <= n
  BY <1>1
<1>3. SubSeq(s, o + 1, n) \in Seq(Line)
  BY <1>1, <1>2, PartOf
<1>4. Len(SubSeq(s, o + 1, n)) = IF o + 1 <= n THEN n - (o + 1) + 1 ELSE 0
  BY <1>1, <1>2, PartOf
<1>5. \A i \in 1 .. n - (o + 1) + 1 : SubSeq(s, o + 1, n)[i] = s[o + 1 + i - 1]
  BY <1>1, <1>2, PartOf
<1> HIDE DEF n
<1>6. (IF o + 1 <= n THEN n - (o + 1) + 1 ELSE 0) = IF o + 1 <= n THEN n - o ELSE 0
  BY <1>1
<1>7. \A i \in 1 .. (IF o + 1 <= n THEN n - o ELSE 0) :
        i \in 1 .. n - (o + 1) + 1 /\ o + 1 + i - 1 = o + i
  BY <1>1
<1>8. \A i \in 1 .. (IF o + 1 <= n THEN n - o ELSE 0) :
        SubSeq(s, o + 1, n)[i] = s[o + i]
  <2> SUFFICES ASSUME NEW i \in 1 .. (IF o + 1 <= n THEN n - o ELSE 0)
               PROVE  SubSeq(s, o + 1, n)[i] = s[o + i]
    OBVIOUS
  <2>1. i \in 1 .. n - (o + 1) + 1 /\ o + 1 + i - 1 = o + i
    BY <1>7
  <2>2. SubSeq(s, o + 1, n)[i] = s[o + 1 + i - 1]
    BY <1>5, <2>1
  <2> QED
    BY <2>1, <2>2
<1>9. /\ SubSeq(s, o + 1, n) \in Seq(Line)
      /\ Len(SubSeq(s, o + 1, n)) = IF o + 1 <= n THEN n - o ELSE 0
      /\ \A i \in 1 .. Len(SubSeq(s, o + 1, n)) : SubSeq(s, o + 1, n)[i] = s[o + i]
  BY <1>3, <1>4, <1>6, <1>8, Zenon
<1> QED
  BY <1>9 DEF n

\* A line at the end changes no part of what was there.
LEMMA SubSeqOfAppend ==
  ASSUME NEW s \in Seq(Line), NEW l \in Line, NEW m \in Nat, NEW n \in Nat,
         1 <= m, n <= Len(s)
  PROVE  SubSeq(Append(s, l), m, n) = SubSeq(s, m, n)
<1> DEFINE t == Append(s, l)
<1>1. t \in Seq(Line) /\ Len(s) \in Nat /\ Len(t) = Len(s) + 1
      /\ \A i \in 1 .. Len(s) : t[i] = s[i]
  BY LenProperties
<1>2. n <= Len(t)
  BY <1>1
<1>3. Len(SubSeq(t, m, n)) = Len(SubSeq(s, m, n))
      /\ SubSeq(t, m, n) \in Seq(Line) /\ SubSeq(s, m, n) \in Seq(Line)
  BY <1>1, <1>2, PartOf
<1>4. ASSUME NEW i \in 1 .. Len(SubSeq(t, m, n))
      PROVE  SubSeq(t, m, n)[i] = SubSeq(s, m, n)[i]
  <2>1. i \in 1 .. n - m + 1
    BY <1>1, <1>2, <1>4, PartOf
  <2>2. m + i - 1 \in 1 .. Len(s)
    BY <1>1, <2>1
  <2>3. SubSeq(t, m, n)[i] = t[m + i - 1] /\ SubSeq(s, m, n)[i] = s[m + i - 1]
    BY <1>1, <1>2, <2>1, PartOf
  <2> QED
    BY <1>1, <2>2, <2>3
<1> QED
  BY <1>3, <1>4, SeqEqual

\* What TailIsExact says of what was printed, the offset and the file.
Exact(p, o, c) ==
  o <= Len(c) /\ Len(p) <= o /\ p = SubSeq(c, o - Len(p) + 1, o)

LEMMA ExactAfterAppend ==
  ASSUME NEW c \in Seq(Line), NEW p \in Seq(Line), NEW o \in Nat, NEW l \in Line,
         Exact(p, o, c)
  PROVE  Exact(p, o, Append(c, l))
<1>1. /\ Len(c) \in Nat /\ Len(p) \in Nat /\ Len(Append(c, l)) = Len(c) + 1
      /\ o <= Len(c) /\ Len(p) <= o /\ p = SubSeq(c, o - Len(p) + 1, o)
  BY LenProperties DEF Exact
<1>2. o - Len(p) + 1 \in Nat /\ 1 <= o - Len(p) + 1 /\ o <= Len(c) + 1
  BY <1>1
<1>3. SubSeq(Append(c, l), o - Len(p) + 1, o) = SubSeq(c, o - Len(p) + 1, o)
  BY <1>1, <1>2, SubSeqOfAppend
<1> QED
  BY <1>1, <1>2, <1>3 DEF Exact

LEMMA ReadSums ==
  ASSUME NEW o \in Nat, NEW c \in Nat, NEW p \in Nat, NEW n \in Nat, NEW pn \in Nat,
         o <= c, p <= o, n = c - o, pn = p + n
  PROVE  o + n = c /\ pn <= c /\ c - pn + 1 = o - p + 1
  OBVIOUS

LEMMA ExactAfterRead ==
  ASSUME NEW c \in Seq(Line), NEW p \in Seq(Line), NEW o \in Nat, Exact(p, o, c),
         NEW new, new = SubSeq(c, o + 1, Len(c))
  PROVE  Exact(p \o new, o + Len(new), c)
<1>1. Len(c) \in Nat /\ Len(p) \in Nat /\ o <= Len(c) /\ Len(p) <= o
  BY LenProperties DEF Exact
<1>2. new \in Seq(Line) /\ Len(new) = Len(c) - o
  <2>1. o + 1 \in Nat /\ 1 <= o + 1 /\ Len(c) <= Len(c)
    BY <1>1
  <2>2. new \in Seq(Line) /\ Len(new) = IF o + 1 <= Len(c) THEN Len(c) - (o + 1) + 1 ELSE 0
    BY <1>1, <2>1, PartOf
  <2> QED
    BY <1>1, <2>2
<1>3. Len(p \o new) = Len(p) + Len(new)
  BY <1>2, ConcatProperties
<1>4. p \o new = SubSeq(c, o - Len(p) + 1, Len(c))
  <2>1. /\ o - Len(p) + 1 \in 1 .. Len(c) + 1
        /\ o \in (o - Len(p) + 1) - 1 .. Len(c) /\ Len(c) \in o .. Len(c)
    BY <1>1
  <2>2. SubSeq(c, o - Len(p) + 1, o) \o SubSeq(c, o + 1, Len(c))
          = SubSeq(c, o - Len(p) + 1, Len(c))
    BY <2>1, ConcatAdjacentSubSeq
  <2>3. p = SubSeq(c, o - Len(p) + 1, o)
    BY DEF Exact
  <2> QED
    BY <2>2, <2>3, Zenon
<1>5. /\ o + Len(new) = Len(c) /\ Len(p \o new) <= Len(c)
      /\ Len(c) - Len(p \o new) + 1 = o - Len(p) + 1
  <2> DEFINE lc == Len(c)
             lp == Len(p)
             ln == Len(new)
             lpn == Len(p \o new)
  <2>1. /\ lc \in Nat /\ lp \in Nat /\ ln \in Nat /\ lpn \in Nat
        /\ o <= lc /\ lp <= o /\ ln = lc - o /\ lpn = lp + ln
    BY <1>1, <1>2, <1>3, ConcatProperties, LenProperties
  <2> HIDE DEF lc, lp, ln, lpn
  <2>2. o + ln = lc /\ lpn <= lc /\ lc - lpn + 1 = o - lp + 1
    BY <2>1, ReadSums
  <2> QED
    BY <2>2 DEF lc, lp, ln, lpn
<1>6. SubSeq(c, Len(c) - Len(p \o new) + 1, Len(c)) = p \o new
  BY <1>4, <1>5, Zenon
<1>7. Len(c) <= Len(c)
  BY <1>1
<1> QED
  BY <1>5, <1>6, <1>7, Zenon DEF Exact

LEMMA ExactAtStart ==
  ASSUME NEW c \in Seq(Line)
  PROVE  Exact(<< >>, Len(c), c)
<1>1. Len(c) \in Nat /\ Len(<< >>) = 0 /\ Len(c) - 0 + 1 = Len(c) + 1
  BY LenProperties
<1>2. SubSeq(c, Len(c) + 1, Len(c)) = << >>
  BY <1>1, SubSeqEmpty
<1> QED
  BY <1>1, <1>2 DEF Exact

-----------------------------------------------------------------------------
(* Types.                                                                  *)

LEMMA TouchTypes ==
  ASSUME Typed, NEW f \in File, Touch(f), current' \in {current, f}
  PROVE  /\ clock' \in Nat /\ clock <= clock' /\ repeats' \in 0 .. MaxRepeat
         /\ stamp' \in [File -> Nat] /\ StampsOK'
<1>1. clock \in Nat /\ repeats \in 0 .. MaxRepeat /\ MaxRepeat \in Nat
      /\ stamp \in [File -> Nat] /\ current \in {Missing} \cup File
  BY BoundFacts DEF Typed, TypeOK
<1>2. clock' \in {clock, clock + 1} /\ repeats' \in 0 .. MaxRepeat
      /\ stamp' = [stamp EXCEPT ![f] = clock']
  BY <1>1 DEF Touch
<1>3. clock' \in Nat /\ clock <= clock'
  BY <1>1, <1>2
<1>4. \A g \in File : stamp[g] <= clock'
  BY <1>1, <1>3 DEF Typed, StampsOK
<1>5. stamp' \in [File -> Nat]
  BY <1>1, <1>2, <1>3
<1>6. \A g \in File : stamp'[g] <= clock'
  BY <1>1, <1>2, <1>3, <1>4
<1>7. clock' > 0 /\ stamp'[f] > 0
  <2>1. clock > 0
    BY DEF Typed, StampsOK
  <2> QED
    BY <1>1, <1>2, <1>3, <2>1
<1>8. current' # Missing => stamp'[current'] > 0
  <2>1. current # Missing => stamp[current] > 0
    BY DEF Typed, StampsOK
  <2>2. \A g \in File : g # f => stamp'[g] = stamp[g]
    BY <1>1, <1>2
  <2> QED
    BY <1>1, <1>7, <2>1, <2>2, BoundFacts
<1> QED
  BY <1>2, <1>3, <1>5, <1>6, <1>7, <1>8 DEF StampsOK

LEMMA DamageTypes ==
  ASSUME Typed, Remove \/ Truncate
  PROVE  Typed'
<1>1. damage' \in 0 .. MaxDamage
  <2>1. damage \in 0 .. MaxDamage /\ damage < MaxDamage /\ damage' = damage + 1
    BY DEF Typed, TypeOK, Remove, Truncate
  <2> QED
    BY <2>1, BoundFacts
<1>2. CASE Remove
  BY <1>1, <1>2 DEF Typed, TypeOK, WriterOK, StampsOK, Remove, writing, reading
<1>3. CASE Truncate
  <2>1. current \in File /\ Touch(current) /\ content' = [content EXCEPT ![current] = << >>]
        /\ UNCHANGED <<current, created, errors, writing, reading>>
    BY <1>3 DEF Typed, TypeOK, Truncate
  <2>2. content' \in [File -> Seq(Line)]
    <3>1. << >> \in Seq(Line)
      OBVIOUS
    <3> QED
      BY <2>1, <3>1 DEF Typed, TypeOK
  <2>3. /\ clock' \in Nat /\ clock <= clock' /\ repeats' \in 0 .. MaxRepeat
        /\ stamp' \in [File -> Nat] /\ StampsOK'
    BY <2>1, TouchTypes
  <2>4. last' \in 0 .. clock'
    BY <2>1, <2>3 DEF Typed, TypeOK, reading
  <2> QED
    BY <1>1, <2>1, <2>2, <2>3, <2>4 DEF Typed, TypeOK, WriterOK, writing, reading
<1> QED
  BY <1>2, <1>3

LEMMA WriterTypes ==
  ASSUME Typed, OpenToAppend \/ OpenFails \/ WriteAll
  PROVE  Typed'
<1>1. CASE OpenToAppend /\ current # Missing
  <2>1. current \in File
    BY <1>1 DEF Typed, TypeOK
  <2> QED
    BY <1>1, <2>1 DEF Typed, TypeOK, WriterOK, StampsOK, OpenToAppend, disk, reading
<1>2. CASE OpenToAppend /\ current = Missing
  <2>1. /\ created \in 0 .. MaxFile /\ created < MaxFile
        /\ created' = created + 1 /\ current' = created + 1 /\ Touch(created + 1)
        /\ UNCHANGED <<content, damage, errors, written, inFlight, reading>>
        /\ writer' = "write" /\ target' = current' /\ written < MaxLine
    BY <1>2 DEF Typed, TypeOK, OpenToAppend, Create
  <2>2. created + 1 \in File /\ created + 1 \in 0 .. MaxFile
    BY <2>1, BoundFacts DEF File
  <2>3. /\ clock' \in Nat /\ clock <= clock' /\ repeats' \in 0 .. MaxRepeat
        /\ stamp' \in [File -> Nat] /\ StampsOK'
    BY <2>1, <2>2, TouchTypes
  <2>4. last' \in 0 .. clock'
    BY <2>1, <2>3 DEF Typed, TypeOK, reading
  <2> QED
    BY <2>1, <2>2, <2>3, <2>4 DEF Typed, TypeOK, WriterOK, reading
<1>3. CASE OpenFails
  BY <1>3 DEF Typed, TypeOK, WriterOK, StampsOK, OpenFails, disk, reading
<1>4. CASE WriteAll
  <2>1. target \in File /\ written < MaxLine /\ written \in Line
    BY <1>4 DEF Typed, TypeOK, WriterOK, WriteAll
  <2>2. written + 1 \in Line
    BY <2>1, BoundFacts DEF Line
  <2>3. inFlight' \subseteq [line : Line, file : File]
    BY <1>4, <2>1, <2>2 DEF Typed, TypeOK, WriteAll
  <2> QED
    BY <1>4, <2>2, <2>3 DEF Typed, TypeOK, WriterOK, StampsOK, WriteAll, disk, reading
<1> QED
  BY <1>1, <1>2, <1>3, <1>4

LEMMA LandTypes ==
  ASSUME Typed, NEW w \in inFlight, Land(w) \/ LandFails(w)
  PROVE  Typed'
<1>1. w.line \in Line /\ w.file \in File
  BY DEF Typed, TypeOK
<1>2. CASE Land(w)
  <2>1. content' \in [File -> Seq(Line)]
    <3>1. Append(content[w.file], w.line) \in Seq(Line)
      BY <1>1 DEF Typed, TypeOK
    <3>2. content' = [content EXCEPT ![w.file] = Append(content[w.file], w.line)]
      BY <1>2 DEF Land
    <3> QED
      BY <1>1, <3>1, <3>2 DEF Typed, TypeOK
  <2>2. /\ clock' \in Nat /\ clock <= clock' /\ repeats' \in 0 .. MaxRepeat
        /\ stamp' \in [File -> Nat] /\ StampsOK'
    BY <1>1, <1>2, TouchTypes DEF Land
  <2>3. last' \in 0 .. clock'
    BY <1>2, <2>2 DEF Typed, TypeOK, Land, reading
  <2> QED
    BY <1>2, <2>1, <2>2, <2>3 DEF Typed, TypeOK, WriterOK, Land, reading
<1>3. CASE LandFails(w)
  BY <1>3 DEF Typed, TypeOK, WriterOK, StampsOK, LandFails, disk, reading
<1> QED
  BY <1>2, <1>3

LEMMA ReaderTypes ==
  ASSUME Typed, StillThere, Look \/ Reader
  PROVE  Typed'
<1>1. CASE Look
  <2>1. current \in File /\ last' = stamp[current] /\ UNCHANGED clock
    BY <1>1 DEF Typed, TypeOK, Look, disk
  <2>2. last' \in 0 .. clock'
    BY <2>1 DEF Typed, TypeOK, StampsOK
  <2> QED
    BY <1>1, <2>2 DEF Typed, TypeOK, WriterOK, StampsOK, Look, disk, writing
<1>2. CASE StartTail \/ Notice \/ OpenToRead \/ OpenToReadFails \/ PutOut
  BY <1>2 DEF Typed, TypeOK, WriterOK, StampsOK, StartTail, Notice, OpenToRead,
              OpenToReadFails, PutOut, Goes, disk, writing
<1>3. CASE SeekToEnd \/ ReadAll \/ ReadNew
  <2>1. handle \in File
    BY <1>3 DEF Typed, TypeOK, StillThere, SeekToEnd, ReadAll, ReadNew, Goes
  <2>2. content[handle] \in Seq(Line) /\ Len(content[handle]) \in Nat
    BY <2>1, LenProperties DEF Typed, TypeOK
  <2>3. NewLines \in Seq(Line) /\ Len(NewLines) \in Nat
    <3>1. offset + 1 \in Nat /\ 1 <= offset + 1
          /\ Len(content[handle]) <= Len(content[handle])
      BY <2>2 DEF Typed, TypeOK
    <3>2. NewLines \in Seq(Line)
      BY <2>2, <3>1, PartOf DEF NewLines
    <3> QED
      BY <3>2, LenProperties
  <2>4. printed' \in Seq(Line)
    <3>1. printed \o NewLines \in Seq(Line)
      BY <2>3, ConcatProperties DEF Typed, TypeOK
    <3> QED
      BY <1>3, <2>2, <3>1 DEF Typed, TypeOK, SeekToEnd, ReadAll, ReadNew
  <2>5. offset' \in Nat
    BY <1>3, <2>2, <2>3 DEF Typed, TypeOK, SeekToEnd, ReadAll, ReadNew
  <2> QED
    BY <1>3, <2>4, <2>5 DEF Typed, TypeOK, WriterOK, StampsOK, SeekToEnd, ReadAll, ReadNew,
                            Goes, disk, writing
<1> QED
  BY <1>1, <1>2, <1>3 DEF Reader

-----------------------------------------------------------------------------
(* What is read.                                                           *)

Told == StillThere /\ StartsEmpty /\ TailIsExact /\ NewsWasSeen

LEMMA ExactWhileTailing ==
  TailIsExact <=> (Tailing /\ damage = 0 => Exact(printed, offset, content[current]))
  BY DEF TailIsExact, Exact

\* After a removal or a truncation nothing is claimed of the file.
LEMMA DamageTold ==
  ASSUME Typed, Told, Remove \/ Truncate
  PROVE  Told'
<1>1. damage \in Nat /\ damage' = damage + 1 /\ UNCHANGED reading
  BY DEF Typed, TypeOK, Remove, Truncate
<1>2. damage' # 0 /\ damage' > 0
  BY <1>1
<1> QED
  BY <1>1, <1>2 DEF Told, StillThere, StartsEmpty, TailIsExact, NewsWasSeen, reading

\* The writer adds a file only where there is none, so that nothing has been read.
LEMMA WriterTold ==
  ASSUME Typed, Told, OpenToAppend \/ OpenFails \/ WriteAll
  PROVE  Told'
<1>1. UNCHANGED <<content, damage, reading>> /\ (current' = current \/ current = Missing)
  BY DEF OpenToAppend, OpenFails, WriteAll, Create, disk
<1>2. CASE current' = current
  BY <1>1, <1>2 DEF Told, StillThere, Found, StartsEmpty, TailIsExact, Tailing,
                    NewsWasSeen, reading
<1>3. CASE current = Missing
  <2>1. damage = 0 => ~Found
    BY <1>3 DEF Told, StillThere
  <2>2. Tailing => Found
    BY DEF Tailing, Found
  <2>3. place \in {"seeking", "opened"} => Found
    BY DEF Found
  <2>4. StillThere'
    BY <1>1, <2>1, <2>3 DEF Told, StillThere, Found, reading
  <2>5. TailIsExact'
    BY <1>1, <2>1, <2>2 DEF TailIsExact, Tailing, reading
  <2> QED
    BY <1>1, <2>4, <2>5 DEF Told, StartsEmpty, NewsWasSeen, reading
<1> QED
  BY <1>1, <1>2, <1>3

\* A line that lands late is after everything that was read.
LEMMA LandTold ==
  ASSUME Typed, Told, NEW w \in inFlight, Land(w) \/ LandFails(w)
  PROVE  Told'
<1>1. UNCHANGED <<current, damage, reading>>
  BY DEF Land, LandFails, disk
<1>2. w.line \in Line /\ w.file \in File
  BY DEF Typed, TypeOK
<1>3. content' = content \/ content' = [content EXCEPT ![w.file] = Append(content[w.file], w.line)]
  BY DEF Land, LandFails, disk
<1>4. TailIsExact'
  <2> SUFFICES ASSUME Tailing, damage = 0
               PROVE  Exact(printed, offset, content'[current])
    BY <1>1 DEF TailIsExact, Exact, Tailing, reading
  <2>1. current \in File
    BY DEF Typed, TypeOK, Told, StillThere, Found, Tailing
  <2>2. /\ Exact(printed, offset, content[current]) /\ content[current] \in Seq(Line)
        /\ printed \in Seq(Line) /\ offset \in Nat
    BY <2>1, ExactWhileTailing DEF Typed, TypeOK, Told
  <2>3. content'[current] \in {content[current], Append(content[current], w.line)}
    BY <1>2, <1>3, <2>1 DEF Typed, TypeOK
  <2> QED
    BY <1>2, <2>2, <2>3, ExactAfterAppend
<1> QED
  BY <1>1, <1>4 DEF Told, StillThere, Found, StartsEmpty, NewsWasSeen, reading

\* The look and the steps of main that read nothing.
LEMMA TurnTold ==
  ASSUME Typed, Told,
         Look \/ StartTail \/ Notice \/ OpenToRead \/ OpenToReadFails \/ PutOut
  PROVE  Told'
<1>1. UNCHANGED <<current, damage, content, program, offset, printed>>
  BY DEF Look, StartTail, Notice, OpenToRead, OpenToReadFails, PutOut, disk
<1>2. program \in {"watcher", "tail"} /\ damage \in Nat
  BY BoundFacts DEF Typed, TypeOK
<1>3. StillThere'
  BY <1>1, <1>2 DEF Told, StillThere, Found, StartsEmpty, Look, StartTail, Notice, OpenToRead,
                    OpenToReadFails, PutOut, Goes
<1>4. StartsEmpty'
  BY <1>1 DEF Told, StartsEmpty, Look, StartTail, Notice, OpenToRead, OpenToReadFails, PutOut,
              Goes
<1>5. NewsWasSeen'
  <2>1. Look => last' # 0
    BY BoundFacts DEF Typed, TypeOK, StampsOK, Look
  <2>2. ~Look => UNCHANGED last
    BY DEF StartTail, Notice, OpenToRead, OpenToReadFails, PutOut
  <2> QED
    BY <2>1, <2>2 DEF Told, NewsWasSeen, Look, StartTail, Notice, OpenToRead, OpenToReadFails,
                      PutOut, Goes
<1>6. Tailing' /\ damage = 0 => Tailing
  BY <1>1 DEF Tailing, Look, StartTail, Notice, OpenToRead, OpenToReadFails, PutOut, Goes,
              Told, StillThere, Found
<1>7. TailIsExact'
  BY <1>1, <1>6 DEF Told, TailIsExact
<1> QED
  BY <1>3, <1>4, <1>5, <1>7 DEF Told

LEMMA SeekTold ==
  ASSUME Typed, Told, SeekToEnd
  PROVE  Told'
<1>1. /\ place = "seeking" /\ place' = "waiting" /\ offset' = Len(content[handle])
      /\ UNCHANGED <<current, damage, content, program, changed, last, printed>>
      /\ program = "tail" /\ printed = << >>
  BY DEF SeekToEnd, Goes, disk, Told, StartsEmpty
<1>2. damage = 0 => handle = current /\ current \in File
  BY <1>1 DEF Told, StillThere, Found, Typed, TypeOK
<1>3. TailIsExact'
  <2> SUFFICES ASSUME damage = 0
               PROVE  Exact(<< >>, Len(content[current]), content[current])
    BY <1>1, <1>2 DEF TailIsExact, Exact
  <2> QED
    BY <1>2, ExactAtStart DEF Typed, TypeOK
<1>4. StillThere' /\ StartsEmpty' /\ NewsWasSeen'
  BY <1>1, <1>2 DEF Told, StillThere, Found, StartsEmpty, NewsWasSeen
<1> QED
  BY <1>3, <1>4 DEF Told

\* read_new_content goes on where it stopped.
LEMMA ReadTold ==
  ASSUME Typed, Told, ReadAll \/ ReadNew
  PROVE  Told'
<1>1. /\ place = "opened" /\ place' = "printing"
      /\ UNCHANGED <<current, damage, content, program, changed, last>>
  BY DEF ReadAll, ReadNew, Goes, disk
<1>2. damage = 0 => handle = current /\ current \in File
  BY <1>1 DEF Told, StillThere, Found, Typed, TypeOK
<1>3. TailIsExact'
  <2> SUFFICES ASSUME Tailing', damage = 0
               PROVE  Exact(printed', offset', content[current])
    BY <1>1 DEF TailIsExact, Exact
  <2>1. ReadNew /\ Tailing
    BY <1>1 DEF Tailing, ReadAll
  <2>2. /\ Exact(printed, offset, content[current]) /\ content[current] \in Seq(Line)
        /\ printed \in Seq(Line) /\ offset \in Nat
    BY <1>2, <2>1, ExactWhileTailing DEF Typed, TypeOK, Told
  <2>3. /\ NewLines = SubSeq(content[current], offset + 1, Len(content[current]))
        /\ printed' = printed \o NewLines /\ offset' = offset + Len(NewLines)
    BY <1>2, <2>1 DEF ReadNew, NewLines
  <2> QED
    BY <2>2, <2>3, ExactAfterRead
<1>4. StillThere' /\ StartsEmpty' /\ NewsWasSeen'
  BY <1>1, <1>2 DEF Told, StillThere, Found, StartsEmpty, NewsWasSeen
<1> QED
  BY <1>3, <1>4 DEF Told

\* A read that fails otherwise: nothing is printed, and the offset stays.
LEMMA FailTypes ==
  ASSUME Typed, StartFails \/ ReadFails
  PROVE  Typed'
<1>1. errors' \in 0 .. MaxError
  <2>1. errors \in 0 .. MaxError /\ errors < MaxError /\ errors' = errors + 1
    BY DEF Typed, TypeOK, StartFails, ReadFails, Unreadable
  <2> QED
    BY <2>1, BoundFacts
<1> QED
  BY <1>1 DEF Typed, TypeOK, WriterOK, StampsOK, StartFails, ReadFails, writing

LEMMA FailTold ==
  ASSUME Typed, Told, StartFails \/ ReadFails
  PROVE  Told'
<1>1. /\ UNCHANGED <<current, damage, content, program, offset, printed, changed, last>>
      /\ place' \in {"panicked", "waiting"}
      /\ place' = "waiting" => place \in {"noticed", "opened"} /\ program # "watcher"
  BY DEF StartFails, ReadFails
<1>2. Found' => Found
  BY <1>1 DEF Found
<1>3. StillThere' /\ StartsEmpty' /\ NewsWasSeen'
  BY <1>1, <1>2 DEF Told, StillThere, StartsEmpty, NewsWasSeen
<1>4. Tailing' => Tailing
  BY <1>1 DEF Tailing
<1>5. TailIsExact'
  BY <1>1, <1>4 DEF Told, TailIsExact
<1> QED
  BY <1>3, <1>5 DEF Told

-----------------------------------------------------------------------------
LEMMA StartsTyped == Init => Typed /\ Told
<1> SUFFICES ASSUME Init
             PROVE  Typed /\ Told
  OBVIOUS
<1>1. /\ current \in {Missing, 1} /\ created = current
      /\ damage = 0 /\ repeats = 0 /\ errors = 0 /\ clock = 1
      /\ writer = "open" /\ target = Missing /\ written = 0 /\ inFlight = {}
      /\ program \in {"watcher", "tail"}
      /\ place = IF program = "tail" THEN "starting" ELSE "waiting"
      /\ last = 0 /\ changed = FALSE /\ handle = Missing /\ offset = 0 /\ printed = << >>
      /\ stamp = [f \in File |-> IF f = current THEN 1 ELSE 0]
  BY DEF Init
<1>2. content \in [File -> Seq(Line)]
  <2> PICK old \in {<< >>, <<0>>} :
        content = [f \in File |-> IF f = current THEN old ELSE << >>]
    BY DEF Init
  <2>1. << >> \in Seq(Line) /\ <<0>> \in Seq(Line)
    BY BoundFacts
  <2> QED
    BY <2>1
<1>3. created \in 0 .. MaxFile /\ current \in {Missing} \cup File
  BY <1>1, WatchAssumption DEF File, Missing
<1>4. /\ stamp \in [File -> Nat] /\ \A f \in File : stamp[f] <= clock
      /\ clock > 0 /\ (current # Missing => stamp[current] > 0)
  BY <1>1, <1>3
<1>5. /\ damage \in 0 .. MaxDamage /\ repeats \in 0 .. MaxRepeat
      /\ errors \in 0 .. MaxError /\ last \in 0 .. clock
  BY <1>1, BoundFacts
<1>6. Typed
  <2>1. offset \in Nat /\ printed \in Seq(Line) /\ clock \in Nat
    BY <1>1
  <2>2. target \in {Missing} \cup File /\ handle \in {Missing} \cup File
    BY <1>1
  <2>3. /\ writer \in {"open", "write", "panicked"} /\ writer # "write"
        /\ written \in Line /\ inFlight \subseteq [line : Line, file : File]
    BY <1>1, BoundFacts
  <2>4. /\ program \in {"watcher", "tail"} /\ changed \in BOOLEAN
        /\ place \in {"starting", "seeking", "waiting", "noticed", "opened", "printing",
                     "panicked"}
    BY <1>1
  <2> QED
    BY <1>2, <1>3, <1>4, <1>5, <2>1, <2>2, <2>3, <2>4 DEF Typed, TypeOK, WriterOK, StampsOK
<1>7. Told
  BY <1>1 DEF Told, StillThere, Found, StartsEmpty, TailIsExact, Tailing, NewsWasSeen
<1> QED
  BY <1>6, <1>7

LEMMA StepsKeep ==
  ASSUME Typed, Told, [Next]_vars
  PROVE  Typed' /\ Told'
<1>1. CASE UNCHANGED vars
  BY <1>1 DEF Typed, TypeOK, WriterOK, StampsOK, Told, StillThere, Found, StartsEmpty,
              TailIsExact, Tailing, NewsWasSeen, vars, disk, writing, reading
<1>2. CASE Remove \/ Truncate
  BY <1>2, DamageTypes, DamageTold
<1>3. CASE OpenToAppend \/ OpenFails \/ WriteAll
  BY <1>3, WriterTypes, WriterTold
<1>4. CASE \E w \in inFlight : Land(w) \/ LandFails(w)
  BY <1>4, LandTypes, LandTold
<1>5. CASE Look \/ Reader
  <2>1. Typed'
    BY <1>5, ReaderTypes DEF Told
  <2>2. Told'
    BY <1>5, TurnTold, SeekTold, ReadTold DEF Reader
  <2> QED
    BY <2>1, <2>2
<1>6. CASE StartFails \/ ReadFails
  BY <1>6, FailTypes, FailTold
<1> QED
  BY <1>1, <1>2, <1>3, <1>4, <1>5, <1>6 DEF Next

LEMMA AlwaysTold == Spec => [](Typed /\ Told)
<1>1. Init => Typed /\ Told
  BY StartsTyped
<1>2. Typed /\ Told /\ [Next]_vars => (Typed /\ Told)'
  BY StepsKeep
<1> QED
  BY <1>1, <1>2, PTL DEF Spec

-----------------------------------------------------------------------------
(* No line twice.                                                          *)

\* Line l is in file f, at i.
At(f, i, l) == f \in File /\ i \in 1 .. Len(content[f]) /\ content[f][i] = l

\* A line is in one place, or on its way to a file, and was written before.
LinesOnce ==
  /\ \A f, g \in File : \A i, j \in Nat : \A l \in Line :
       At(f, i, l) /\ At(g, j, l) => f = g /\ i = j
  /\ \A f \in File : \A i \in Nat : \A l \in Line : At(f, i, l) => l <= written
  /\ \A w \in inFlight :
       /\ w.line <= written
       /\ \A f \in File : \A i \in Nat : ~At(f, i, w.line)
  /\ \A v, w \in inFlight : v.line = w.line => v = w

\* What 6 has printed is before its offset, in whatever file it still is.
PrintedOnce ==
  program = "tail" =>
    \A n \in 1 .. Len(printed) :
      /\ printed[n] <= written
      /\ \A w \in inFlight : w.line # printed[n]
      /\ \A f \in File : \A i \in Nat : At(f, i, printed[n]) => i <= offset

OnceOnly == LinesOnce /\ PrintedOnce /\ NoLineTwice

\* A step that takes lines away, from files or from those on their way, and reads
\* none.
LEMMA FewerOnce ==
  ASSUME OnceOnly, UNCHANGED <<program, printed, offset, written>>, inFlight' \subseteq inFlight,
         \A f \in File : \A i \in Nat : \A l \in Line : At(f, i, l)' => At(f, i, l),
         Typed
  PROVE  OnceOnly'
<1>1. \A w \in inFlight : w.line \in Line
  BY DEF Typed, TypeOK
<1>2. LinesOnce'
  BY <1>1 DEF OnceOnly, LinesOnce
<1>3. \A n \in 1 .. Len(printed) : printed[n] \in Line
  BY ElementOfSeq DEF Typed, TypeOK
<1>4. PrintedOnce'
  BY <1>3 DEF OnceOnly, PrintedOnce
<1> QED
  BY <1>2, <1>4 DEF OnceOnly, NoLineTwice

LEMMA TruncateOnce ==
  ASSUME Typed, OnceOnly, Truncate
  PROVE  OnceOnly'
<1>1. /\ content' = [content EXCEPT ![current] = << >>] /\ current \in File
      /\ UNCHANGED <<inFlight, program, printed, offset, written>>
  BY DEF Truncate, writing, reading, Typed, TypeOK
<1>2. content'[current] = << >> /\ \A f \in File \ {current} : content'[f] = content[f]
  BY <1>1 DEF Typed, TypeOK
<1>3. ASSUME NEW f \in File, NEW i \in Nat, NEW l \in Line, At(f, i, l)'
      PROVE  At(f, i, l)
  <2>1. f # current
    BY <1>2, <1>3 DEF At
  <2> QED
    BY <1>2, <1>3, <2>1 DEF At
<1> QED
  BY <1>1, <1>3, FewerOnce

\* The next line has a number no line has.
LEMMA WriteAllOnce ==
  ASSUME Typed, OnceOnly, WriteAll
  PROVE  OnceOnly'
<1> DEFINE new == [line |-> written + 1, file |-> target]
<1>1. /\ written' = written + 1 /\ inFlight' = inFlight \cup {new}
      /\ UNCHANGED <<content, program, printed, offset>>
  BY DEF WriteAll, disk, reading
<1>2. written \in Nat /\ \A w \in inFlight : w.line \in Nat
  BY BoundFacts DEF Typed, TypeOK
<1>3. \A f, i, l : At(f, i, l)' <=> At(f, i, l)
  BY <1>1 DEF At
<1>4. \A l \in Nat : l <= written => l <= written + 1 /\ l # written + 1
  BY <1>2
<1>5. \A f \in File : \A i \in Nat : ~At(f, i, written + 1)
  <2> SUFFICES ASSUME NEW f \in File, NEW i \in Nat, At(f, i, written + 1)
               PROVE  FALSE
    OBVIOUS
  <2>1. written + 1 \in Line
    BY ElementOfSeq DEF At, Typed, TypeOK
  <2>2. written + 1 <= written
    BY <2>1 DEF OnceOnly, LinesOnce
  <2> QED
    BY <1>2, <2>2
<1>6. LinesOnce'
  <2>1. \A f \in File : \A i \in Nat : \A l \in Line : At(f, i, l)' => l <= written'
    BY <1>1, <1>3, <1>4, BoundFacts DEF OnceOnly, LinesOnce
  <2>2. \A w \in inFlight' : /\ w.line <= written'
                             /\ \A f \in File : \A i \in Nat : ~At(f, i, w.line)'
    BY <1>1, <1>2, <1>3, <1>4, <1>5 DEF OnceOnly, LinesOnce
  <2>3. \A v, w \in inFlight' : v.line = w.line => v = w
    BY <1>1, <1>2, <1>4 DEF OnceOnly, LinesOnce
  <2>4. \A f, g \in File : \A i, j \in Nat : \A l \in Line :
          At(f, i, l)' /\ At(g, j, l)' => f = g /\ i = j
    BY <1>3 DEF OnceOnly, LinesOnce
  <2> QED
    BY <2>1, <2>2, <2>3, <2>4 DEF LinesOnce
<1>7. PrintedOnce'
  <2>1. \A n \in 1 .. Len(printed) : printed[n] \in Nat
    BY ElementOfSeq, BoundFacts DEF Typed, TypeOK
  <2> SUFFICES ASSUME program = "tail", NEW n \in 1 .. Len(printed)
               PROVE  /\ printed[n] <= written + 1
                      /\ \A w \in inFlight' : w.line # printed[n]
                      /\ \A f \in File : \A i \in Nat : At(f, i, printed[n])' => i <= offset
    BY <1>1 DEF PrintedOnce
  <2>2. /\ printed[n] <= written
        /\ \A w \in inFlight : w.line # printed[n]
        /\ \A f \in File : \A i \in Nat : At(f, i, printed[n]) => i <= offset
    BY DEF OnceOnly, PrintedOnce
  <2> QED
    BY <1>1, <1>3, <1>4, <2>1, <2>2
<1> QED
  BY <1>1, <1>6, <1>7 DEF OnceOnly, NoLineTwice

\* A line that lands is no longer on its way.
LEMMA LandOnce ==
  ASSUME Typed, OnceOnly, NEW w \in inFlight, Land(w)
  PROVE  OnceOnly'
<1> DEFINE k == w.file
           n == Len(content[k])
<1>1. /\ k \in File /\ w.line \in Line /\ content[k] \in Seq(Line) /\ n \in Nat
      /\ w.line <= written
  BY LenProperties DEF Typed, TypeOK, OnceOnly, LinesOnce
<1>2. /\ inFlight' = inFlight \ {w}
      /\ content' = [content EXCEPT ![k] = Append(content[k], w.line)]
      /\ UNCHANGED <<written, program, printed, offset>>
  BY DEF Land, reading
<1>3. /\ content'[k] = Append(content[k], w.line)
      /\ \A f \in File \ {k} : content'[f] = content[f]
  BY <1>1, <1>2 DEF Typed, TypeOK
<1>4. ASSUME NEW f \in File, NEW i \in Nat, NEW l \in Line, At(f, i, l)'
      PROVE  At(f, i, l) \/ (f = k /\ i = n + 1 /\ l = w.line)
  <2>1. CASE f # k
    BY <1>3, <1>4, <2>1 DEF At
  <2>2. CASE f = k
    <3>1. i \in 1 .. n + 1 /\ Append(content[k], w.line)[i] = l
      <4>1. i \in 1 .. Len(content'[k]) /\ content'[k][i] = l
        BY <1>4, <2>2 DEF At
      <4>2. Len(content'[k]) = n + 1
        BY <1>1, <1>3
      <4> QED
        BY <1>3, <4>1, <4>2
    <3>2. CASE i = n + 1
      BY <1>1, <2>2, <3>1, <3>2
    <3>3. CASE i \in 1 .. n
      BY <1>1, <2>2, <3>1, <3>3 DEF At
    <3> QED
      BY <1>1, <3>1, <3>2, <3>3
  <2> QED
    BY <2>1, <2>2
<1>5. \A f \in File : \A i \in Nat : ~At(f, i, w.line)
  BY DEF OnceOnly, LinesOnce
<1>6. \A v \in inFlight' : v \in inFlight /\ v.line # w.line /\ v.line \in Line
  BY <1>2 DEF OnceOnly, LinesOnce, Typed, TypeOK
<1>7. LinesOnce'
  <2>1. \A f \in File : \A i \in Nat : \A l \in Line : At(f, i, l)' => l <= written'
    BY <1>1, <1>2, <1>4 DEF OnceOnly, LinesOnce
  <2>2. \A v \in inFlight' : /\ v.line <= written'
                             /\ \A f \in File : \A i \in Nat : ~At(f, i, v.line)'
    BY <1>2, <1>4, <1>6 DEF OnceOnly, LinesOnce
  <2>3. \A v, u \in inFlight' : v.line = u.line => v = u
    BY <1>6 DEF OnceOnly, LinesOnce
  <2>4. \A f, g \in File : \A i, j \in Nat : \A l \in Line :
          At(f, i, l)' /\ At(g, j, l)' => f = g /\ i = j
    <3> SUFFICES ASSUME NEW f \in File, NEW g \in File, NEW i \in Nat, NEW j \in Nat,
                        NEW l \in Line, At(f, i, l)', At(g, j, l)'
                 PROVE  f = g /\ i = j
      OBVIOUS
    <3>1. At(f, i, l) \/ (f = k /\ i = n + 1 /\ l = w.line)
      BY <1>4
    <3>2. At(g, j, l) \/ (g = k /\ j = n + 1 /\ l = w.line)
      BY <1>4
    <3>3. CASE l = w.line
      BY <1>5, <3>1, <3>2, <3>3
    <3>4. CASE l # w.line
      BY <3>1, <3>2, <3>4 DEF OnceOnly, LinesOnce
    <3> QED
      BY <3>3, <3>4
  <2> QED
    BY <2>1, <2>2, <2>3, <2>4 DEF LinesOnce
<1>8. PrintedOnce'
  <2> SUFFICES ASSUME program = "tail", NEW m \in 1 .. Len(printed)
               PROVE  /\ printed[m] <= written
                      /\ \A v \in inFlight' : v.line # printed[m]
                      /\ \A f \in File : \A i \in Nat : At(f, i, printed[m])' => i <= offset
    BY <1>2 DEF PrintedOnce
  <2>1. /\ printed[m] <= written
        /\ \A v \in inFlight : v.line # printed[m]
        /\ \A f \in File : \A i \in Nat : At(f, i, printed[m]) => i <= offset
    BY DEF OnceOnly, PrintedOnce
  <2>2. printed[m] \in Line /\ printed' = printed
    BY <1>2, ElementOfSeq DEF Typed, TypeOK
  <2>3. \A v \in inFlight' : v.line # printed[m]
    BY <1>2, <2>1
  <2>4. ASSUME NEW f \in File, NEW i \in Nat, At(f, i, printed[m])'
        PROVE  i <= offset
    <3>1. printed[m] # w.line
      BY <2>1
    <3>2. At(f, i, printed[m])
      BY <1>4, <2>2, <2>4, <3>1
    <3> QED
      BY <2>1, <3>2
  <2> QED
    BY <2>1, <2>3, <2>4
<1> QED
  BY <1>2, <1>7, <1>8 DEF OnceOnly, NoLineTwice

\* 4 prints what it likes, and 6 starts with nothing printed.
LEMMA NothingOnce ==
  ASSUME Typed, OnceOnly, UNCHANGED <<content, inFlight, written, program>>,
         program # "tail" \/ printed' = << >>
  PROVE  OnceOnly'
<1>1. \A f, i, l : At(f, i, l)' <=> At(f, i, l)
  BY DEF At
<1>2. LinesOnce'
  BY <1>1 DEF OnceOnly, LinesOnce
<1>3. PrintedOnce' /\ NoLineTwice'
  <2>1. program = "tail" => 1 .. Len(printed') = {}
    OBVIOUS
  <2> QED
    BY <2>1 DEF PrintedOnce, NoLineTwice
<1> QED
  BY <1>2, <1>3 DEF OnceOnly

\* What is read next is past the offset, so none of it was printed.
LEMMA ReadNewOnce ==
  ASSUME Typed, StillThere, OnceOnly, ReadNew
  PROVE  OnceOnly'
<1> DEFINE c == content[handle]
           p == Len(printed)
           q == Len(NewLines)
<1>1. /\ place = "opened" /\ program = "tail"
      /\ printed' = printed \o NewLines /\ offset' = offset + q
      /\ UNCHANGED <<content, inFlight, written, program>>
  BY DEF ReadNew, Goes, disk, writing
<1>2. handle \in File /\ c \in Seq(Line) /\ Len(c) \in Nat /\ offset \in Nat
      /\ printed \in Seq(Line) /\ p \in Nat
  BY <1>1, LenProperties DEF Typed, TypeOK, StillThere
<1>3. /\ NewLines \in Seq(Line) /\ q = IF offset + 1 <= Len(c) THEN Len(c) - offset ELSE 0
      /\ \A i \in 1 .. q : NewLines[i] = c[offset + i]
  <2>1. NewLines = SubSeq(c, offset + 1, Len(c))
    BY DEF NewLines
  <2> QED
    BY <1>2, <2>1, RestOf, Zenon
<1>4. ASSUME NEW i \in 1 .. q
      PROVE  At(handle, offset + i, NewLines[i]) /\ NewLines[i] \in Line
             /\ offset + i \in Nat /\ offset < offset + i /\ offset + i <= offset + q
  <2>1. offset + i \in 1 .. Len(c) /\ offset < offset + i /\ offset + i <= offset + q
    BY <1>2, <1>3
  <2>2. NewLines[i] = c[offset + i] /\ c[offset + i] \in Line
    BY <1>2, <1>3, <2>1, ElementOfSeq
  <2> QED
    BY <1>2, <2>1, <2>2 DEF At
<1>5. q \in Nat /\ Len(printed') = p + q
  BY <1>1, <1>2, <1>3, ConcatProperties, LenProperties
<1>6. ASSUME NEW m \in 1 .. p + q
      PROVE  \/ m \in 1 .. p /\ printed'[m] = printed[m]
             \/ m - p \in 1 .. q /\ m > p /\ printed'[m] = NewLines[m - p]
  <2>1. printed'[m] = IF m <= p THEN printed[m] ELSE NewLines[m - p]
    BY <1>1, <1>2, <1>3, ConcatProperties
  <2> QED
    BY <1>2, <1>5, <2>1
<1>7. \A f, i, l : At(f, i, l)' <=> At(f, i, l)
  BY <1>1 DEF At
<1>8. LinesOnce'
  BY <1>1, <1>7 DEF OnceOnly, LinesOnce
<1>9. \A m \in 1 .. p : /\ printed[m] <= written
                        /\ \A w \in inFlight : w.line # printed[m]
                        /\ \A f \in File : \A i \in Nat : At(f, i, printed[m]) => i <= offset
  BY <1>1 DEF OnceOnly, PrintedOnce
<1>10. \A m \in 1 .. q : /\ NewLines[m] <= written
                         /\ \A w \in inFlight : w.line # NewLines[m]
                         /\ \A f \in File : \A i \in Nat :
                              At(f, i, NewLines[m]) => i = offset + m
  BY <1>2, <1>4 DEF OnceOnly, LinesOnce
<1> HIDE DEF c, p, q
<1>11. PrintedOnce'
  <2> SUFFICES ASSUME NEW m \in 1 .. p + q
               PROVE  /\ printed'[m] <= written
                      /\ \A w \in inFlight : w.line # printed'[m]
                      /\ \A f \in File : \A i \in Nat : At(f, i, printed'[m]) => i <= offset + q
    BY <1>1, <1>5, <1>7 DEF PrintedOnce
  <2>1. CASE m \in 1 .. p /\ printed'[m] = printed[m]
    <3>1. \A i \in Nat : i <= offset => i <= offset + q
      BY <1>2, <1>5
    <3>2. /\ printed[m] <= written
          /\ \A w \in inFlight : w.line # printed[m]
          /\ \A f \in File : \A i \in Nat : At(f, i, printed[m]) => i <= offset
      BY <1>9, <2>1
    <3> QED
      BY <2>1, <3>1, <3>2
  <2>2. CASE m - p \in 1 .. q /\ printed'[m] = NewLines[m - p]
    <3>1. /\ NewLines[m - p] <= written
          /\ \A w \in inFlight : w.line # NewLines[m - p]
          /\ \A f \in File : \A i \in Nat :
               At(f, i, NewLines[m - p]) => i = offset + (m - p)
      BY <1>10, <2>2
    <3>2. offset + (m - p) <= offset + q
      BY <1>4, <2>2
    <3> QED
      BY <2>2, <3>1, <3>2
  <2> QED
    BY <1>6, <2>1, <2>2
<1>12. NoLineTwice'
  <2>1. ASSUME NEW i \in 1 .. p, NEW j \in 1 .. q, printed[i] = NewLines[j]
        PROVE  FALSE
    <3>1. At(handle, offset + j, printed[i]) /\ offset + j \in Nat /\ offset < offset + j
      BY <1>4, <2>1
    <3>2. offset + j <= offset
      BY <1>2, <1>9, <3>1
    <3> QED
      BY <1>2, <3>1, <3>2
  <2>2. ASSUME NEW i \in 1 .. q, NEW j \in 1 .. q, NewLines[i] = NewLines[j]
        PROVE  i = j
    <3>1. At(handle, offset + i, NewLines[j]) /\ offset + i \in Nat
      BY <1>4, <2>2
    <3>2. offset + i = offset + j
      BY <1>2, <1>10, <3>1
    <3> QED
      BY <1>2, <1>5, <3>2
  <2>3. \A i, j \in 1 .. p : printed[i] = printed[j] => i = j
    BY <1>1 DEF OnceOnly, NoLineTwice, p
  <2> SUFFICES ASSUME NEW i \in 1 .. p + q, NEW j \in 1 .. p + q, printed'[i] = printed'[j]
               PROVE  i = j
    BY <1>5 DEF NoLineTwice
  <2>4. \/ i \in 1 .. p /\ printed'[i] = printed[i]
        \/ i - p \in 1 .. q /\ printed'[i] = NewLines[i - p]
    BY <1>6
  <2>5. \/ j \in 1 .. p /\ printed'[j] = printed[j]
        \/ j - p \in 1 .. q /\ printed'[j] = NewLines[j - p]
    BY <1>6
  <2>6. i - p = j - p => i = j
    BY <1>2, <1>5
  <2> QED
    BY <2>1, <2>2, <2>3, <2>4, <2>5, <2>6
<1> QED
  BY <1>8, <1>11, <1>12 DEF OnceOnly

LEMMA StartsOnce == Init => OnceOnly
<1> SUFFICES ASSUME Init
             PROVE  OnceOnly
  OBVIOUS
<1> PICK old \in {<< >>, <<0>>} :
      content = [f \in File |-> IF f = current THEN old ELSE << >>]
  BY DEF Init
<1>1. inFlight = {} /\ printed = << >> /\ written = 0
  BY DEF Init
<1>2. \A f \in File : \A i, l : At(f, i, l) => f = current /\ i = 1 /\ l = 0
  BY DEF At
<1>3. LinesOnce
  BY <1>1, <1>2 DEF LinesOnce
<1>4. 1 .. Len(printed) = {}
  BY <1>1
<1> QED
  BY <1>3, <1>4 DEF OnceOnly, PrintedOnce, NoLineTwice

LEMMA StepsOnce ==
  ASSUME Typed, Told, OnceOnly, [Next]_vars
  PROVE  OnceOnly'
<1>1. CASE UNCHANGED <<content, inFlight, written, program, printed, offset>>
  BY <1>1, FewerOnce DEF At
<1>2. CASE Remove \/ OpenToAppend \/ OpenFails
  <2>1. UNCHANGED <<content, inFlight, written, program, printed, offset>>
    BY <1>2 DEF Remove, OpenToAppend, OpenFails, Create, disk, writing, reading
  <2> QED
    BY <1>1, <2>1
<1>3. CASE Truncate
  BY <1>3, TruncateOnce
<1>4. CASE WriteAll
  BY <1>4, WriteAllOnce
<1>5. ASSUME NEW w \in inFlight, LandFails(w)
      PROVE  OnceOnly'
  <2>1. inFlight' \subseteq inFlight /\ UNCHANGED <<content, written, program, printed, offset>>
    BY <1>5 DEF LandFails, disk, reading
  <2> QED
    BY <2>1, FewerOnce DEF At
<1>6. CASE \E w \in inFlight : Land(w)
  BY <1>6, LandOnce
<1>7. CASE \/ Look \/ StartTail \/ Notice \/ OpenToRead \/ OpenToReadFails \/ PutOut
           \/ StartFails \/ ReadFails
  <2>1. UNCHANGED <<content, inFlight, written, program, printed, offset>>
    BY <1>7 DEF Look, StartTail, Notice, OpenToRead, OpenToReadFails, PutOut, StartFails,
                ReadFails, disk, writing
  <2> QED
    BY <1>1, <2>1
<1>8. CASE SeekToEnd \/ ReadAll
  <2>1. /\ UNCHANGED <<content, inFlight, written, program>>
        /\ program # "tail" \/ printed' = << >>
    BY <1>8 DEF SeekToEnd, ReadAll, Goes, disk, writing, Told, StartsEmpty
  <2> QED
    BY <2>1, NothingOnce
<1>9. CASE ReadNew
  BY <1>9, ReadNewOnce DEF Told
<1>10. CASE UNCHANGED vars
  <2>1. UNCHANGED <<content, inFlight, written, program, printed, offset>>
    BY <1>10 DEF vars, disk, writing, reading
  <2> QED
    BY <1>1, <2>1
<1> QED
  BY <1>2, <1>3, <1>4, <1>5, <1>6, <1>7, <1>8, <1>9, <1>10 DEF Next, Reader

-----------------------------------------------------------------------------
(* Theorems.                                                               *)

\* Disk, writer and watchers keep their types, the modification time main has seen
\* last is no later than the clock, and background writes go to files there were.
THEOREM WatchTypes == Spec => []TypeOK
<1>1. Typed /\ Told => TypeOK
  BY DEF Typed
<1> QED
  BY <1>1, AlwaysTold, PTL

\* However writes that land late, looks and reads interleave, what 6-async-tail-f
\* has printed of a file nobody removes or truncates is a part of it that ends
\* at its offset.
THEOREM TailPrintsExactly == Spec => []TailIsExact
<1>1. Typed /\ Told => TailIsExact
  BY DEF Told
<1> QED
  BY <1>1, AlwaysTold, PTL

\* 6-async-tail-f prints no line twice, also when the file is truncated, removed or
\* replaced between two reads.
THEOREM TailNeverRepeats == Spec => []NoLineTwice
<1>1. Init => OnceOnly
  BY StartsOnce
<1>2. Typed /\ Told /\ OnceOnly /\ [Next]_vars => OnceOnly'
  BY StepsOnce
<1>3. OnceOnly => NoLineTwice
  BY DEF OnceOnly
<1> QED
  BY <1>1, <1>2, <1>3, AlwaysTold, PTL DEF Spec

\* main of 4-file-watcher reads only what has been seen: a step of its panics finds
\* that last_modified is set, and either no file, which therefore was removed after
\* it had been seen, or one that cannot be read.
THEOREM UnwrapNeedsLoss == Spec => PanicsOnlyOnLoss
<1>1. ASSUME Typed, Told, [Next]_vars, program = "watcher", place # "panicked",
             place' = "panicked"
      PROVE  last # 0 /\ (current = Missing \/ errors' > errors)
  <2>1. place \in {"noticed", "opened"} /\ (OpenToReadFails \/ ReadFails)
    <3>1. place \notin {"starting", "seeking"}
      BY <1>1 DEF Told, StartsEmpty
    <3>2. ~(UNCHANGED place)
      BY <1>1
    <3>3. \A w \in inFlight : Land(w) \/ LandFails(w) => UNCHANGED place
      BY DEF Land, LandFails, reading
    <3>4. Remove \/ Truncate \/ OpenToAppend \/ OpenFails \/ WriteAll \/ Look => UNCHANGED place
      BY DEF Remove, Truncate, OpenToAppend, OpenFails, WriteAll, Look, reading
    <3>5. OpenToReadFails \/ ReadFails
      BY <1>1, <3>1, <3>2, <3>3, <3>4
         DEF Next, Reader, StartFails, StartTail, SeekToEnd, Notice, OpenToRead, ReadAll,
             ReadNew, PutOut, Goes, vars, reading
    <3> QED
      BY <3>5 DEF OpenToReadFails, ReadFails, Goes
  <2>2. last # 0
    BY <1>1, <2>1 DEF Told, NewsWasSeen
  <2>3. errors \in Nat
    BY <1>1, BoundFacts DEF Typed, TypeOK
  <2> QED
    BY <2>1, <2>2, <2>3 DEF OpenToReadFails, ReadFails, Unreadable
<1>2. Typed /\ Told /\ [Next]_vars
        => [program = "watcher" /\ place # "panicked" /\ place' = "panicked" =>
              last # 0 /\ (current = Missing \/ errors' > errors)]_vars
  BY <1>1
<1> QED
  BY <1>2, AlwaysTold, PTL DEF Spec, PanicsOnlyOnLoss
=============================================================================
