----------------------------- MODULE WatchProofs -----------------------------
(***************************************************************************)
(* Proofs about module Watch, for every number of log writers, sites,      *)
(* things to watch and requests: the types of the four components; that a  *)
(* lone writer's lines are all kept and seen; that one failed check is no  *)
(* alarm; and that Redis keeps the password the app connects with.         *)
(*                                                                         *)
(* The components share nothing, so each has an inductive invariant of its *)
(* own, which the steps of the others leave alone.                         *)
(***************************************************************************)
EXTENDS Watch, SequenceTheorems, WellFoundedInduction, TLAPS

-----------------------------------------------------------------------------
(* Numbers *)

LEMMA HasLeast ==
    ASSUME NEW T \in SUBSET Nat, T # {}
    PROVE  \E x \in T : \A y \in T : x <= y
<1> DEFINE R == {p \in Nat \X Nat : p[1] < p[2]}
<1>1. OpToRel(<, Nat) = R
  BY DEF OpToRel
<1>2. IsWellFoundedOn(R, Nat)
  BY <1>1, NatLessThanWellFounded
<1> HIDE DEF R
<1>3. PICK x \in T : \A y \in T : ~ (<<y, x>> \in R)
  BY <1>2, WFMin
<1>4. \A y \in T : ~ (y < x)
  BY <1>3 DEF R
<1> QED BY <1>4

LEMMA HasGreatest ==
    ASSUME NEW n \in Nat, NEW T \in SUBSET (0..n), T # {}
    PROVE  \E x \in T : \A y \in T : y <= x
<1> DEFINE D == {n - t : t \in T}
<1>0. \A t \in T : t \in 0..n /\ n - t \in Nat
  OBVIOUS
<1>1. D \in SUBSET Nat /\ D # {}
  BY <1>0
<1> HIDE DEF D
<1>2. PICK z \in D : \A y \in D : z <= y
  BY <1>1, HasLeast
<1>3. PICK x \in T : z = n - x
  BY DEF D
<1>4. \A y \in T : z <= n - y
  BY <1>2 DEF D
<1> QED BY <1>3, <1>4

-----------------------------------------------------------------------------
(* The log: its invariant *)

\* A flush takes all of the buffer, and an operation that ends flushes first.
HandShape(r) ==
    /\ r.sent = <<>> \/ r.buffer = <<>>
    /\ r.at = "closed" => r.sent = <<>>
    /\ r.at # "open" => r.buffer = <<>>

LogShape == \A w \in Writer : HandShape(writer[w])

SoundIsAlone == \A w \in Open : writer[w].sound => Open = {w}

Elements(s) == {s[i] : i \in DOMAIN s}

\* What a writer has numbered and the table has not.
Pending(r) == Elements(r.sent) \cup Elements(r.buffer)

\* The number before a writer's first.
From(r) == r.seq - r.wrote

\* The line is in the table, and a follower that has passed it has shown it.
Shown(table, view, line, q) ==
    table[q] = line /\ (q <= view.cursor => line \in view.shown)

\* Of a lone writer each line is in the table or pending, what is pending
\* comes after all that is in the table, and so does what it will write.
Intact(w, r, table, view) ==
    /\ r.wrote <= r.seq
    /\ \A p \in 1..MaxSeq : p > r.seq => table[p] = NoLine
    /\ \A e \in Pending(r) : \E i \in 1..r.wrote : e = <<From(r) + i, <<w, i>>>>
    /\ \A e \in Pending(r) : \A p \in 1..MaxSeq : p >= e[1] => table[p] = NoLine
    /\ \A i \in 1..r.wrote :
          Shown(table, view, <<w, i>>, From(r) + i) \/ <<From(r) + i, <<w, i>>>> \in Pending(r)

Whole(w, r, table, view) == \A i \in 1..r.wrote : \E q \in 1..MaxSeq : Shown(table, view, <<w, i>>, q)

SoundOK(w, r, table, view) ==
    r.sound => IF r.at = "closed" THEN Whole(w, r, table, view) ELSE Intact(w, r, table, view)

CursorOK == reader.cursor # 0 => logged[reader.cursor] # NoLine

LogSafe == ~expired => CursorOK /\ \A w \in Writer : SoundOK(w, writer[w], logged, reader)

LogInv == LogTypeOK /\ LogShape /\ SoundIsAlone /\ LogSafe

-----------------------------------------------------------------------------
(* The log: what its operators do *)

LEMMA LastSeqIs ==
    ASSUME LogTypeOK
    PROVE  /\ LastSeq \in 0..MaxSeq
           /\ LastSeq # 0 => logged[LastSeq] # NoLine
           /\ \A q \in 1..MaxSeq : q > LastSeq => logged[q] = NoLine
<1> DEFINE T == {0} \cup {q \in 1..MaxSeq : logged[q] # NoLine}
<1>1. MaxSeq \in Nat
  BY DeployLogAssumption
<1>2. T \in SUBSET (0..MaxSeq) /\ T # {}
  BY <1>1
<1>3. PICK n \in T : \A y \in T : y <= n
  BY <1>1, <1>2, HasGreatest
<1>4. /\ n \in 0..MaxSeq /\ (n # 0 => logged[n] # NoLine)
      /\ \A q \in n + 1..MaxSeq : logged[q] = NoLine
  BY <1>1, <1>2, <1>3
<1>5. /\ LastSeq \in 0..MaxSeq /\ (LastSeq # 0 => logged[LastSeq] # NoLine)
      /\ \A q \in LastSeq + 1..MaxSeq : logged[q] = NoLine
  BY <1>4 DEF LastSeq
<1> HIDE DEF T
<1> QED BY <1>1, <1>5

LEMMA SentEntries ==
    ASSUME LogTypeOK, NEW w \in Writer
    PROVE  /\ Sent(w) = Elements(writer[w].sent) /\ Sent(w) \in SUBSET Entry
           /\ Pending(writer[w]) \in SUBSET Entry
<1>1. writer[w].sent \in Seq(Entry) /\ writer[w].buffer \in Seq(Entry)
  BY DEF LogTypeOK, WriterState
<1>2. \A s \in Seq(Entry) : Elements(s) \in SUBSET Entry
  BY ElementOfSeq, LenProperties DEF Elements
<1> QED BY <1>1, <1>2 DEF Sent, Elements, Pending

\* An insert fills free numbers only, and changes nothing else.
LEMMA InsertedIs ==
    ASSUME LogTypeOK, NEW entries \in SUBSET Entry
    PROVE  /\ Inserted(entries) \in [1..MaxSeq -> Line \cup {NoLine}]
           /\ \A q \in 1..MaxSeq : logged[q] # NoLine => Inserted(entries)[q] = logged[q]
           /\ \A q \in 1..MaxSeq :
                 (\A e \in entries : e[1] # q) => Inserted(entries)[q] = logged[q]
           /\ \A q \in 1..MaxSeq : \A e \in entries :
                 logged[q] = NoLine /\ e[1] = q =>
                    \E x \in entries : x[1] = q /\ Inserted(entries)[q] = x[2]
<1> DEFINE at(q) == IF logged[q] = NoLine /\ \E e \in entries : e[1] = q
                    THEN (CHOOSE e \in entries : e[1] = q)[2]
                    ELSE logged[q]
<1>1. \A q \in 1..MaxSeq : Inserted(entries)[q] = at(q)
  BY DEF Inserted
<1>2. Inserted(entries) = [q \in 1..MaxSeq |-> at(q)]
  BY DEF Inserted
<1>3. ASSUME NEW q \in 1..MaxSeq, logged[q] = NoLine, NEW e \in entries, e[1] = q
      PROVE  \E x \in entries : x[1] = q /\ at(q) = x[2] /\ x[2] \in Line
  <2>1. PICK x \in entries : x = CHOOSE y \in entries : y[1] = q
    BY <1>3
  <2>2. x[1] = q
    BY <1>3, <2>1
  <2>3. at(q) = x[2]
    BY <1>3, <2>1
  <2> QED BY <2>2, <2>3 DEF Entry
<1>4. \A q \in 1..MaxSeq : at(q) \in Line \cup {NoLine}
  BY <1>3 DEF LogTypeOK
<1> QED BY <1>1, <1>2, <1>3, <1>4

\* The rest of an operation's hand changes one writer.
LEMMA WriterMoves ==
    ASSUME LogInv, NEW w \in Writer, NEW r \in WriterState,
           writer' = [writer EXCEPT ![w] = r], HandShape(r),
           UNCHANGED <<logged, reader, expired>>,
           writer[w].at # "closed", r.sound => writer[w].sound,
           ~expired => SoundOK(w, r, logged, reader)
    PROVE  LogInv'
<1>1. /\ writer' \in [Writer -> WriterState]
      /\ \A x \in Writer : writer'[x] = IF x = w THEN r ELSE writer[x]
  BY DEF LogInv, LogTypeOK
<1>2. LogTypeOK' /\ LogShape'
  BY <1>1 DEF LogInv, LogTypeOK, LogShape
<1>3. SoundIsAlone'
  <2>1. w \in Open /\ Open' \subseteq Open
    BY <1>1 DEF Open
  <2>2. ASSUME NEW x \in Open', writer'[x].sound
        PROVE  Open = {x}
    BY <1>1, <2>1, <2>2 DEF LogInv, SoundIsAlone
  <2> QED BY <2>1, <2>2 DEF SoundIsAlone
<1>4. LogSafe'
  <2> SUFFICES ASSUME ~expired
               PROVE  CursorOK' /\ \A x \in Writer : SoundOK(x, writer'[x], logged', reader')
    BY DEF LogSafe
  <2>1. CursorOK /\ \A x \in Writer : SoundOK(x, writer[x], logged, reader)
    BY DEF LogInv, LogSafe
  <2>3. \A x \in Writer : SoundOK(x, writer'[x], logged', reader')
    <3> SUFFICES ASSUME NEW x \in Writer
                 PROVE  SoundOK(x, writer'[x], logged', reader')
      OBVIOUS
    <3>1. CASE x = w
      <4>1. writer'[x] = r
        BY <1>1, <3>1
      <4> QED BY <3>1, <4>1
    <3>2. CASE x # w
      <4>1. writer'[x] = writer[x]
        BY <1>1, <3>2
      <4> QED BY <2>1, <4>1
    <3> QED BY <3>1, <3>2
  <2> QED BY <2>1, <2>3 DEF CursorOK
<1> QED BY <1>2, <1>3, <1>4 DEF LogInv

-----------------------------------------------------------------------------
(* The log: its steps *)

LEMMA LogFacts ==
    ASSUME LogInv, NEW w \in Writer
    PROVE  /\ writer[w] \in WriterState /\ HandShape(writer[w]) /\ LogTypeOK
           /\ Pending(writer[w]) \in SUBSET Entry
           /\ ~expired => CursorOK /\ SoundOK(w, writer[w], logged, reader)
           /\ MaxSeq \in Nat /\ MaxLines \in Nat
BY SentEntries, DeployLogAssumption DEF LogInv, LogTypeOK, LogShape, LogSafe

LEMMA ElementsAre ==
    /\ Elements(<<>>) = {}
    /\ \A S : \A s \in Seq(S) : \A e \in S :
          Append(s, e) \in Seq(S) /\ Elements(Append(s, e)) = Elements(s) \cup {e}
<1>1. Elements(<<>>) = {}
  BY DEF Elements
<1>2. ASSUME NEW S, NEW s \in Seq(S), NEW e \in S
      PROVE  Append(s, e) \in Seq(S) /\ Elements(Append(s, e)) = Elements(s) \cup {e}
  <2>1. /\ Append(s, e) \in Seq(S) /\ Len(Append(s, e)) = Len(s) + 1 /\ Len(s) \in Nat
        /\ \A i \in 1..Len(s) : Append(s, e)[i] = s[i]
        /\ Append(s, e)[Len(s) + 1] = e
    BY AppendProperties, LenProperties
  <2>2. DOMAIN s = 1..Len(s) /\ DOMAIN Append(s, e) = 1..Len(s) + 1
    BY <2>1, LenProperties
  <2> QED BY <2>1, <2>2 DEF Elements
<1> QED BY <1>1, <1>2

\* What is taken is pending as before.
LEMMA TookDoes ==
    ASSUME NEW r \in WriterState, r.sent = <<>>
    PROVE  /\ Took(r) \in WriterState /\ Pending(Took(r)) = Pending(r)
           /\ Took(r).sent = r.buffer /\ Took(r).buffer = <<>>
           /\ Took(r).at = r.at /\ Took(r).seq = r.seq /\ Took(r).wrote = r.wrote
           /\ Took(r).sound = r.sound
<1>1. r.sent \o r.buffer = r.buffer /\ <<>> \in Seq(Entry)
  BY ConcatEmptySeq, EmptySeq DEF WriterState
<1>2. /\ Took(r) \in WriterState
      /\ Took(r).sent = r.buffer /\ Took(r).buffer = <<>>
      /\ Took(r).at = r.at /\ Took(r).seq = r.seq /\ Took(r).wrote = r.wrote
      /\ Took(r).sound = r.sound
  BY <1>1 DEF Took, WriterState
<1> QED BY <1>2 DEF Pending

\* Another line, at the end of what is pending.
LEMMA LineAdded ==
    ASSUME LogInv, NEW w \in Writer, NEW r \in WriterState,
           writer[w].at = "open", writer[w].seq < MaxSeq,
           r.at = "open", r.sound = writer[w].sound,
           r.seq = writer[w].seq + 1, r.wrote = writer[w].wrote + 1,
           Pending(r) = Pending(writer[w]) \cup {<<r.seq, <<w, r.wrote>>>>},
           ~expired
    PROVE  SoundOK(w, r, logged, reader)
<1> DEFINE old == writer[w]
<1>f. old \in WriterState /\ SoundOK(w, old, logged, reader) /\ MaxSeq \in Nat /\ MaxLines \in Nat
  BY LogFacts
<1> SUFFICES ASSUME r.sound
             PROVE  Intact(w, r, logged, reader)
  BY DEF SoundOK
<1>1. Intact(w, old, logged, reader)
  BY <1>f DEF SoundOK
<1>2. old.seq \in Nat /\ old.wrote \in Nat /\ r.seq = old.seq + 1 /\ r.wrote = old.wrote + 1
  BY <1>f DEF WriterState
<1>3. From(r) = From(old) /\ From(r) \in Int /\ From(r) + r.wrote = r.seq /\ old.wrote <= old.seq
  BY <1>1, <1>2 DEF From, Intact
<1>4. r.wrote <= r.seq /\ \A p \in 1..MaxSeq : p > r.seq => logged[p] = NoLine
  BY <1>1, <1>2 DEF Intact
<1>5. ASSUME NEW e \in Pending(r)
      PROVE  /\ \E i \in 1..r.wrote : e = <<From(r) + i, <<w, i>>>>
             /\ \A p \in 1..MaxSeq : p >= e[1] => logged[p] = NoLine
  <2>1. CASE e \in Pending(old)
    BY <1>1, <1>2, <1>3, <2>1 DEF Intact
  <2>2. CASE e = <<r.seq, <<w, r.wrote>>>>
    BY <1>1, <1>2, <1>3, <2>2 DEF Intact
  <2> QED BY <2>1, <2>2
<1>6. ASSUME NEW i \in 1..r.wrote
      PROVE  Shown(logged, reader, <<w, i>>, From(r) + i) \/ <<From(r) + i, <<w, i>>>> \in Pending(r)
  <2>1. CASE i \in 1..old.wrote
    BY <1>1, <1>3, <2>1 DEF Intact
  <2>2. CASE i = r.wrote
    BY <1>3, <2>2
  <2> QED BY <1>2, <2>1, <2>2
<1> QED BY <1>4, <1>5, <1>6 DEF Intact

LEMMA WritesStep ==
    ASSUME LogInv, NEW w \in Writer, Writes(w)
    PROVE  LogInv'
<1> DEFINE r == writer[w]
           e == <<r.seq + 1, <<w, r.wrote + 1>>>>
           put == [r EXCEPT !.seq = @ + 1, !.wrote = @ + 1, !.buffer = Append(@, e)]
<1>f. r \in WriterState /\ HandShape(r) /\ MaxSeq \in Nat /\ MaxLines \in Nat
  BY LogFacts
<1>1. /\ r.at = "open" /\ r.sent = <<>> /\ r.wrote < MaxLines /\ r.seq < MaxSeq
      /\ writer' = [writer EXCEPT ![w] = Took(put)] \/ writer' = [writer EXCEPT ![w] = put]
      /\ UNCHANGED <<logged, reader, expired>>
  BY DEF Writes
<1>2. e \in Entry /\ r.buffer \in Seq(Entry)
  BY <1>f, <1>1 DEF WriterState, Entry, Line
<1>3. Append(r.buffer, e) \in Seq(Entry) /\ Elements(Append(r.buffer, e)) = Elements(r.buffer) \cup {e}
  BY <1>2, ElementsAre
<1>n. r.seq + 1 \in 0..MaxSeq /\ r.wrote + 1 \in 0..MaxLines
  BY <1>f, <1>1 DEF WriterState
<1>4. /\ put \in WriterState /\ put.at = "open" /\ put.sent = <<>> /\ put.sound = r.sound
      /\ put.seq = r.seq + 1 /\ put.wrote = r.wrote + 1 /\ put.buffer = Append(r.buffer, e)
  <2> DEFINE n == r.seq + 1
             m == r.wrote + 1
             b == Append(r.buffer, e)
  <2>1. put = [r EXCEPT !.seq = n, !.wrote = m, !.buffer = b]
    BY <1>f DEF WriterState
  <2>2. n \in 0..MaxSeq /\ m \in 0..MaxLines /\ b \in Seq(Entry)
    BY <1>n, <1>3
  <2> HIDE DEF n, m, b
  <2>3. /\ put \in WriterState /\ put.at = r.at /\ put.sent = r.sent /\ put.sound = r.sound
        /\ put.seq = n /\ put.wrote = m /\ put.buffer = b
    BY <1>f, <2>1, <2>2 DEF WriterState
  <2> QED BY <1>1, <2>3 DEF n, m, b
<1> HIDE DEF put
<1>5. Pending(put) = Pending(r) \cup {<<put.seq, <<w, put.wrote>>>>}
  BY <1>1, <1>3, <1>4 DEF Pending
<1>6. /\ Took(put) \in WriterState /\ Pending(Took(put)) = Pending(put)
      /\ Took(put).buffer = <<>>
      /\ Took(put).at = "open" /\ Took(put).seq = put.seq /\ Took(put).wrote = put.wrote
      /\ Took(put).sound = put.sound
  BY <1>4, TookDoes
<1>7. ~expired => SoundOK(w, put, logged, reader) /\ SoundOK(w, Took(put), logged, reader)
  BY <1>1, <1>4, <1>5, <1>6, LineAdded
<1>8. HandShape(put) /\ HandShape(Took(put))
  BY <1>4, <1>6 DEF HandShape
<1>9. CASE writer' = [writer EXCEPT ![w] = put]
  BY <1>1, <1>4, <1>7, <1>8, <1>9, WriterMoves
<1>10. CASE writer' = [writer EXCEPT ![w] = Took(put)]
  BY <1>1, <1>4, <1>6, <1>7, <1>8, <1>10, WriterMoves
<1> QED BY <1>1, <1>9, <1>10

LEMMA FlushesStep ==
    ASSUME LogInv, NEW w \in Writer, Flushes(w)
    PROVE  LogInv'
<1> DEFINE r == writer[w]
           s == [Took(r) EXCEPT !.at = "closing"]
<1>f. r \in WriterState /\ HandShape(r) /\ (~expired => SoundOK(w, r, logged, reader))
  BY LogFacts
<1>1. /\ r.at = "open" /\ r.sent = <<>>
      /\ writer' = [writer EXCEPT ![w] = s]
      /\ UNCHANGED <<logged, reader, expired>>
  BY DEF Flushes
<1>2. /\ Took(r) \in WriterState /\ Pending(Took(r)) = Pending(r)
      /\ Took(r).buffer = <<>>
      /\ Took(r).seq = r.seq /\ Took(r).wrote = r.wrote /\ Took(r).sound = r.sound
  BY <1>f, <1>1, TookDoes
<1>3. /\ s \in WriterState /\ s.at = "closing" /\ s.buffer = <<>> /\ s.sent = Took(r).sent
      /\ s.seq = r.seq /\ s.wrote = r.wrote /\ s.sound = r.sound
  BY <1>2 DEF WriterState
<1> HIDE DEF s
<1>4. Pending(s) = Pending(r)
  BY <1>2, <1>3 DEF Pending
<1>5. HandShape(s)
  BY <1>3 DEF HandShape
<1>6. ~expired => SoundOK(w, s, logged, reader)
  BY <1>f, <1>1, <1>3, <1>4 DEF SoundOK, Intact, From
<1> QED BY <1>1, <1>3, <1>5, <1>6, WriterMoves

LEMMA ResumesStep ==
    ASSUME LogInv, NEW w \in Writer, Resumes(w)
    PROVE  LogInv'
<1> DEFINE fresh == [Closed EXCEPT !.at = "open", !.seq = Start, !.sound = Open = {}]
           other(x) == [writer[x] EXCEPT !.sound = @ /\ x \notin Open]
<1>f. LogTypeOK /\ MaxSeq \in Nat /\ MaxLines \in Nat
  BY LogFacts
<1>1. /\ writer[w] = Closed /\ UNCHANGED <<logged, reader, expired>>
      /\ writer' = [x \in Writer |-> IF x = w THEN fresh ELSE other(x)]
  BY DEF Resumes
<1>2. LastSeq \in 0..MaxSeq /\ \A q \in 1..MaxSeq : q > LastSeq => logged[q] = NoLine
  BY <1>f, LastSeqIs
<1>3. /\ fresh \in WriterState /\ fresh.at = "open" /\ fresh.seq = LastSeq /\ fresh.wrote = 0
      /\ fresh.buffer = <<>> /\ fresh.sent = <<>> /\ fresh.sound = (Open = {})
  <2>1. <<>> \in Seq(Entry)
    BY EmptySeq
  <2>2. 0 \in 0..MaxLines /\ 0 \in 0..MaxSeq
    BY <1>f
  <2>3. Closed \in WriterState /\ Closed.wrote = 0 /\ Closed.buffer = <<>> /\ Closed.sent = <<>>
    BY <2>1, <2>2 DEF Closed, WriterState
  <2> QED BY <1>2, <2>3 DEF WriterState, Start
<1>4. ASSUME NEW x \in Writer
      PROVE  /\ other(x) \in WriterState /\ HandShape(other(x))
             /\ other(x).at = writer[x].at /\ other(x).wrote = writer[x].wrote
             /\ other(x).sound = (writer[x].sound /\ writer[x].at = "closed")
  <2>1. writer[x] \in WriterState /\ HandShape(writer[x])
    BY LogFacts
  <2> QED BY <2>1 DEF WriterState, HandShape, Open
<1> HIDE DEF fresh, other
<1>5. /\ writer' \in [Writer -> WriterState]
      /\ \A x \in Writer : writer'[x] = IF x = w THEN fresh ELSE other(x)
  BY <1>1, <1>3, <1>4
<1>6. LogTypeOK' /\ LogShape'
  BY <1>1, <1>3, <1>4, <1>5, <1>f DEF LogTypeOK, LogShape, HandShape
<1>7. SoundIsAlone'
  <2>1. Open' = Open \cup {w}
    BY <1>1, <1>3, <1>4, <1>5 DEF Open, Closed
  <2> QED BY <1>3, <1>4, <1>5, <2>1 DEF SoundIsAlone, Open
<1>8. LogSafe'
  <2> SUFFICES ASSUME ~expired, NEW x \in Writer
               PROVE  CursorOK' /\ SoundOK(x, writer'[x], logged', reader')
    BY <1>1 DEF LogSafe
  <2>1. CursorOK /\ SoundOK(x, writer[x], logged, reader)
    BY LogFacts
  <2>2. CASE x = w
    <3>1. Pending(fresh) = {}
      BY <1>3, ElementsAre DEF Pending
    <3>2. Intact(w, fresh, logged, reader)
      BY <1>2, <1>3, <3>1 DEF Intact
    <3>3. SoundOK(x, writer'[x], logged', reader')
      BY <1>1, <1>3, <1>5, <2>2, <3>2 DEF SoundOK, Intact, Shown
    <3> QED BY <1>1, <2>1, <3>3 DEF CursorOK
  <2>3. CASE x # w
    <3>1. SoundOK(x, writer'[x], logged', reader')
      BY <1>1, <1>4, <1>5, <2>1, <2>3 DEF SoundOK, Whole, Shown
    <3> QED BY <1>1, <2>1, <3>1 DEF CursorOK
  <2> QED BY <2>2, <2>3
<1> QED BY <1>6, <1>7, <1>8 DEF LogInv

LEMMA LosesStep ==
    ASSUME LogInv, NEW w \in Writer, Loses(w)
    PROVE  LogInv'
<1> DEFINE s == [[writer[w] EXCEPT !.sent = <<>>] EXCEPT !.sound = FALSE]
<1>f. writer[w] \in WriterState /\ HandShape(writer[w]) /\ LogTypeOK
  BY LogFacts
<1>1. /\ writer[w].sent # <<>> /\ UNCHANGED <<logged, reader, expired>>
      /\ writer' = [writer EXCEPT ![w] = s]
  BY <1>f DEF Loses, LogTypeOK
<1>2. /\ s \in WriterState /\ s.sent = <<>> /\ s.sound = FALSE /\ s.at = writer[w].at
      /\ s.buffer = writer[w].buffer
  BY <1>f, EmptySeq DEF WriterState
<1> HIDE DEF s
<1>3. HandShape(s) /\ writer[w].at # "closed" /\ SoundOK(w, s, logged, reader)
  BY <1>f, <1>1, <1>2 DEF HandShape, SoundOK
<1> QED BY <1>1, <1>2, <1>3, WriterMoves

LEMMA EndsStep ==
    ASSUME LogInv, NEW w \in Writer, Ends(w)
    PROVE  LogInv'
<1> DEFINE r == writer[w]
           s == Ended(r)
<1>f. /\ r \in WriterState /\ HandShape(r) /\ LogTypeOK /\ (~expired => SoundOK(w, r, logged, reader))
      /\ Pending(r) \in SUBSET Entry /\ MaxSeq \in Nat
  BY LogFacts
<1>1. /\ r.at # "closed" /\ UNCHANGED <<logged, reader, expired>>
      /\ writer' = [writer EXCEPT ![w] = s]
  BY DEF Ends
<1>2. /\ s \in WriterState /\ s.at = "closed" /\ s.sent = <<>> /\ s.buffer = <<>>
      /\ s.wrote = r.wrote /\ s.sound = (r.sound /\ FlushedAll(r))
  BY <1>f, EmptySeq DEF WriterState, Ended, FlushedAll
<1> HIDE DEF s
<1>3. ASSUME ~expired, s.sound
      PROVE  Whole(w, s, logged, reader)
  <2>1. Intact(w, r, logged, reader) /\ Pending(r) = {}
    BY <1>f, <1>1, <1>2, <1>3, ElementsAre DEF SoundOK, HandShape, Pending, FlushedAll
  <2>2. r.seq \in 0..MaxSeq /\ r.wrote \in Nat /\ r.wrote <= r.seq
    BY <1>f, <2>1, DeployLogAssumption DEF WriterState, Intact
  <2>3. \A i \in 1..r.wrote : From(r) + i \in 1..MaxSeq
    BY <1>f, <2>2 DEF From
  <2> QED BY <1>2, <2>1, <2>3 DEF Whole, Intact
<1>4. HandShape(s) /\ (~expired => SoundOK(w, s, logged, reader))
  BY <1>2, <1>3 DEF HandShape, SoundOK
<1> QED BY <1>1, <1>2, <1>4, WriterMoves

\* What is shown stays shown while nothing is deleted.
LEMMA ShownStays ==
    ASSUME LogTypeOK, NEW entries \in SUBSET Entry, logged' = Inserted(entries), UNCHANGED reader,
           NEW line \in Line, NEW q \in 1..MaxSeq, Shown(logged, reader, line, q)
    PROVE  Shown(logged', reader', line, q)
BY InsertedIs, NoLineAssumption DEF Shown

LEMMA InsertsStep ==
    ASSUME LogInv, NEW w \in Writer, Inserts(w)
    PROVE  LogInv'
<1> DEFINE r == writer[w]
           s == [r EXCEPT !.sent = <<>>]
<1>f. /\ r \in WriterState /\ HandShape(r) /\ LogTypeOK /\ Pending(r) \in SUBSET Entry
      /\ (~expired => CursorOK /\ SoundOK(w, r, logged, reader)) /\ MaxSeq \in Nat /\ MaxLines \in Nat
  BY LogFacts
<1>1. /\ r.sent # <<>> /\ logged' = Inserted(Sent(w)) /\ UNCHANGED <<reader, expired>>
      /\ writer' = [writer EXCEPT ![w] = s]
  BY DEF Inserts
<1>2. /\ s \in WriterState /\ s.sent = <<>> /\ s.at = r.at /\ s.buffer = r.buffer
      /\ s.seq = r.seq /\ s.wrote = r.wrote /\ s.sound = r.sound
  BY <1>f, EmptySeq DEF WriterState
<1> HIDE DEF s
<1>3. r.at # "closed" /\ r.buffer = <<>> /\ Sent(w) = Pending(r) /\ Pending(s) = {}
  BY <1>f, <1>1, <1>2, SentEntries, ElementsAre DEF HandShape, Pending
<1>4. /\ writer' \in [Writer -> WriterState]
      /\ \A x \in Writer : writer'[x] = IF x = w THEN s ELSE writer[x]
  BY <1>1, <1>2, <1>f DEF LogTypeOK
<1>5. /\ logged' \in [1..MaxSeq -> Line \cup {NoLine}]
      /\ \A q \in 1..MaxSeq : logged[q] # NoLine => logged'[q] = logged[q]
      /\ \A q \in 1..MaxSeq : (\A e \in Pending(r) : e[1] # q) => logged'[q] = logged[q]
      /\ \A q \in 1..MaxSeq : \A e \in Pending(r) :
            logged[q] = NoLine /\ e[1] = q => \E x \in Pending(r) : x[1] = q /\ logged'[q] = x[2]
  BY <1>1, <1>3, <1>f, InsertedIs
<1>6. LogTypeOK' /\ LogShape'
  BY <1>1, <1>2, <1>4, <1>5, <1>f DEF LogInv, LogTypeOK, LogShape, HandShape
<1>7. SoundIsAlone' /\ w \in Open
  <2>1. Open' = Open /\ w \in Open
    BY <1>2, <1>3, <1>4 DEF Open
  <2> QED BY <1>2, <1>4, <2>1 DEF LogInv, SoundIsAlone, Open
<1>8. ASSUME ~expired, r.sound
      PROVE  Intact(w, s, logged', reader')
  <2>1. Intact(w, r, logged, reader) /\ CursorOK
    BY <1>3, <1>8, <1>f DEF SoundOK
  <2>2. r.wrote \in Nat /\ r.seq \in 0..MaxSeq /\ r.wrote <= r.seq /\ From(r) = r.seq - r.wrote
    BY <1>f, <2>1 DEF WriterState, Intact, From
  <2> DEFINE from == From(r)
  <2>n. from \in Nat /\ from + r.wrote = r.seq
    BY <2>2
  <2> HIDE DEF from
  <2>3. \A e \in Pending(r) : \E i \in 1..r.wrote : e = <<from + i, <<w, i>>>>
    BY <2>1 DEF Intact, from
  <2>4. \A p \in 1..MaxSeq : p > r.seq => logged'[p] = NoLine
    <3>1. \A e \in Pending(r) : e[1] <= r.seq
      BY <2>2, <2>3, <2>n
    <3> QED BY <1>5, <2>1, <2>2, <3>1 DEF Intact
  <2>5. ASSUME NEW i \in 1..r.wrote
        PROVE  Shown(logged', reader', <<w, i>>, from + i)
    <3>1. from + i \in 1..MaxSeq /\ <<w, i>> \in Line
      BY <1>f, <2>2, <2>n DEF WriterState, Line
    <3>2. CASE Shown(logged, reader, <<w, i>>, from + i)
      BY <1>1, <1>3, <1>f, <3>1, <3>2, ShownStays
    <3>3. CASE <<from + i, <<w, i>>>> \in Pending(r)
      <4>1. \A p \in 1..MaxSeq : p >= from + i => logged[p] = NoLine
        BY <2>1, <3>3 DEF Intact
      <4>2. logged[from + i] = NoLine
        BY <3>1, <4>1
      <4>3. PICK x \in Pending(r) : x[1] = from + i /\ logged'[from + i] = x[2]
        BY <1>5, <3>1, <3>3, <4>2
      <4>4. x = <<from + i, <<w, i>>>>
        BY <2>3, <2>n, <4>3
      <4>5. reader.cursor \in 0..MaxSeq /\ ~(from + i <= reader.cursor)
        BY <1>f, <2>1, <3>1, <4>1 DEF CursorOK, LogTypeOK
      <4> QED BY <1>1, <4>3, <4>4, <4>5 DEF Shown
    <3> QED BY <2>1, <3>2, <3>3 DEF Intact, from
  <2>6. From(s) = from
    BY <1>2 DEF From, from
  <2> QED BY <1>2, <1>3, <2>2, <2>4, <2>5, <2>6 DEF Intact
<1>9. LogSafe'
  <2> SUFFICES ASSUME ~expired, NEW x \in Writer
               PROVE  CursorOK' /\ SoundOK(x, writer'[x], logged', reader')
    BY <1>1 DEF LogSafe
  <2>1. CursorOK'
    BY <1>1, <1>5, <1>f DEF CursorOK, LogTypeOK
  <2>2. CASE x = w
    <3>1. r.sound => Intact(w, s, logged', reader')
      BY <1>8
    <3> QED BY <1>2, <1>3, <1>4, <2>1, <2>2, <3>1 DEF SoundOK, Intact, Shown
  <2>3. CASE x # w
    <3>1. writer'[x] = writer[x] /\ writer[x] \in WriterState /\ SoundOK(x, writer[x], logged, reader)
      BY <1>4, <2>3, LogFacts
    <3>2. writer[x].sound => writer[x].at = "closed"
      BY <1>7, <2>3 DEF LogInv, SoundIsAlone, Open
    <3>3. ASSUME writer[x].sound
          PROVE  Whole(x, writer'[x], logged', reader')
      <4>1. Whole(x, writer[x], logged, reader)
        BY <3>1, <3>2, <3>3 DEF SoundOK
      <4>2. ASSUME NEW i \in 1..writer[x].wrote
            PROVE  \E q \in 1..MaxSeq : Shown(logged', reader', <<x, i>>, q)
        <5>1. PICK q \in 1..MaxSeq : Shown(logged, reader, <<x, i>>, q)
          BY <4>1 DEF Whole
        <5>2. <<x, i>> \in Line
          BY <3>1, <1>f DEF WriterState, Line
        <5> QED BY <1>1, <1>3, <1>f, <5>1, <5>2, ShownStays
      <4> QED BY <3>1, <4>2 DEF Whole
    <3> QED BY <2>1, <3>1, <3>2, <3>3 DEF SoundOK
  <2> QED BY <2>2, <2>3
<1> QED BY <1>6, <1>7, <1>9 DEF LogInv

LEMMA ReadsStep ==
    ASSUME LogInv, Reads
    PROVE  LogInv'
<1> DEFINE seen == {logged[q] : q \in {p \in reader.cursor + 1..MaxSeq : logged[p] # NoLine}}
<1>f. LogTypeOK /\ MaxSeq \in Nat
  BY DeployLogAssumption DEF LogInv
<1>1. /\ LastSeq > reader.cursor /\ UNCHANGED <<logged, writer, expired>>
      /\ reader' = [cursor |-> LastSeq, shown |-> reader.shown \cup seen]
  BY DEF Reads
<1>2. LastSeq \in 0..MaxSeq /\ (LastSeq # 0 => logged[LastSeq] # NoLine)
  BY <1>f, LastSeqIs
<1>3. reader.cursor \in 0..MaxSeq /\ reader.shown \in SUBSET Line
  BY <1>f DEF LogTypeOK
<1>4. seen \subseteq Line
  BY <1>3, <1>f DEF LogTypeOK
<1> HIDE DEF seen
<1>5. LogTypeOK'
  BY <1>1, <1>2, <1>3, <1>4, <1>f DEF LogTypeOK
<1>6. ASSUME NEW line \in Line, NEW q \in 1..MaxSeq, Shown(logged, reader, line, q)
      PROVE  Shown(logged', reader', line, q)
  <2>1. CASE q <= reader.cursor
    BY <1>1, <1>6, <2>1 DEF Shown
  <2>2. CASE q > reader.cursor
    <3>1. logged[q] = line /\ line # NoLine
      BY <1>6, NoLineAssumption DEF Shown
    <3>2. line \in seen
      BY <1>3, <2>2, <3>1 DEF seen
    <3> QED BY <1>1, <3>1, <3>2 DEF Shown
  <2> QED BY <1>3, <2>1, <2>2
<1>7. LogShape' /\ SoundIsAlone'
  BY <1>1 DEF LogInv, LogShape, SoundIsAlone, Open
<1>e. UNCHANGED expired
  BY <1>1
<1>c. CursorOK'
  BY <1>1, <1>2 DEF CursorOK
<1>8. LogSafe'
  <2> SUFFICES ASSUME ~expired, NEW w \in Writer
               PROVE  SoundOK(w, writer'[w], logged', reader')
    BY <1>c, <1>e DEF LogSafe
  <2>2. writer[w] \in WriterState /\ SoundOK(w, writer[w], logged, reader) /\ MaxLines \in Nat
    BY LogFacts
  <2>3. ASSUME NEW i \in 1..writer[w].wrote
        PROVE  <<w, i>> \in Line
    BY <2>2 DEF WriterState, Line
  <2>4. CASE writer[w].at = "closed"
    BY <1>1, <1>6, <2>2, <2>3, <2>4 DEF SoundOK, Whole
  <2>5. CASE writer[w].at # "closed"
    <3> SUFFICES ASSUME writer[w].sound
                 PROVE  Intact(w, writer'[w], logged', reader')
      BY <1>1, <2>5 DEF SoundOK
    <3>1. Intact(w, writer[w], logged, reader)
      BY <2>2, <2>5 DEF SoundOK
    <3>2. \A i \in 1..writer[w].wrote : From(writer[w]) + i \in 1..MaxSeq
      BY <2>2, <3>1, <1>f DEF WriterState, From, Intact
    <3>3. \A i \in 1..writer[w].wrote :
             Shown(logged', reader', <<w, i>>, From(writer[w]) + i)
                \/ <<From(writer[w]) + i, <<w, i>>>> \in Pending(writer[w])
      BY <1>6, <2>3, <3>1, <3>2 DEF Intact
    <3> QED BY <1>1, <3>1, <3>3 DEF Intact, From
  <2> QED BY <2>4, <2>5
<1> QED BY <1>5, <1>7, <1>8 DEF LogInv

LEMMA ExpiresStep ==
    ASSUME LogInv, Expires
    PROVE  LogInv'
<1>1. LogTypeOK'
  BY DEF LogInv, LogTypeOK, Expires
<1> QED BY <1>1 DEF LogInv, LogShape, SoundIsAlone, Open, LogSafe, Expires

LEMMA LogStepKeeps ==
    ASSUME LogInv, LogNext
    PROVE  LogInv'
BY ResumesStep, WritesStep, FlushesStep, InsertsStep, LosesStep, EndsStep, ReadsStep, ExpiresStep
   DEF LogNext

LEMMA LogStart ==
    ASSUME LogInit
    PROVE  LogInv
<1>1. Closed \in WriterState /\ HandShape(Closed) /\ Closed.at = "closed" /\ ~Closed.sound
  BY DeployLogAssumption, EmptySeq DEF Closed, WriterState, HandShape
<1>2. LogTypeOK
  <2>1. logged \in [1..MaxSeq -> Line \cup {NoLine}] /\ expired \in BOOLEAN
    BY DEF LogInit
  <2>2. writer \in [Writer -> WriterState]
    BY <1>1 DEF LogInit
  <2>3. reader \in [cursor : 0..MaxSeq, shown : SUBSET Line]
    BY DeployLogAssumption DEF LogInit
  <2> QED BY <2>1, <2>2, <2>3 DEF LogTypeOK
<1>3. \A w \in Writer : writer[w] = Closed
  BY DEF LogInit
<1>4. Open = {}
  BY <1>1, <1>3 DEF Open
<1> QED BY <1>1, <1>2, <1>3, <1>4
        DEF LogInv, LogShape, SoundIsAlone, LogSafe, SoundOK, CursorOK, LogInit

LEMMA LogIsKept ==
    ASSUME LogInv
    PROVE  LogKept
BY LogFacts DEF LogKept, SoundOK, Whole, Shown

-----------------------------------------------------------------------------
(* Redis: its invariant *)

\* Who has nothing in hand is at rest, and who works has a row.
RedisShape ==
    \A a \in Actor :
        /\ hand[a].at = "idle" => hand[a] = Free
        /\ hand[a].at # "idle" => hand[a].row \in RedisConfig

\* While no removal has overlapped with anything, who is not removing Redis
\* works with the password of the row, and so does the container; without a
\* row there is no container.
OnePassword ==
    /\ ~Overlap
    /\ \A a \in Actor :
          /\ hand[a].at # "idle" /\ ~Removing(a) =>
                config # NoRedis /\ hand[a].row.secret = config.secret
          /\ hand[a].at \in {"forget", "wipe"} => box = NoRedis
    /\ box # NoRedis => config # NoRedis /\ box.secret = config.secret

RedisInv == RedisTypeOK /\ RedisShape /\ (~raced => OnePassword)

LEMMA RedisFacts ==
    ASSUME RedisInv, NEW a \in Actor
    PROVE  /\ hand[a] \in HandState /\ hand \in [Actor -> HandState]
           /\ config \in RedisConfig \cup {NoRedis} /\ box \in Box \cup {NoRedis}
           /\ (config # NoRedis => config \in RedisConfig)
           /\ (box # NoRedis => box \in Box)
           /\ (hand[a].at = "idle" <=> hand[a] = Free)
           /\ (hand[a].at # "idle" => hand[a].row \in RedisConfig)
           /\ NoRedis \notin RedisConfig /\ NoRedis \notin Box
BY NoRedisAssumption DEF RedisInv, RedisTypeOK, RedisShape, Free

LEMMA FreeType == Free \in HandState
BY DEF Free, HandState

\* One actor goes on to state r.
LEMMA HandMoves ==
    ASSUME RedisInv, NEW a \in Actor, NEW r \in HandState,
           hand' = [hand EXCEPT ![a] = r],
           r.at = "idle" => r = Free,
           r.at # "idle" => r.row \in RedisConfig,
           config' \in RedisConfig \cup {NoRedis}, box' \in Box \cup {NoRedis},
           volume' \in BOOLEAN, clicks' \in 0..MaxClicks, upsets' \in 0..MaxUpsets,
           raced' = (raced \/ Overlap'),
           ~raced /\ ~raced' =>
              /\ \A x \in Actor : x # a /\ hand[x].at # "idle" /\ ~Removing(x) =>
                    config' # NoRedis /\ hand[x].row.secret = config'.secret
              /\ \A x \in Actor : x # a /\ hand[x].at \in {"forget", "wipe"} => box' = NoRedis
              /\ r.at \notin {"idle", "remove", "forget", "wipe"} =>
                    config' # NoRedis /\ r.row.secret = config'.secret
              /\ r.at \in {"forget", "wipe"} => box' = NoRedis
              /\ box' # NoRedis => config' # NoRedis /\ box'.secret = config'.secret
    PROVE  RedisInv'
<1>1. /\ hand' \in [Actor -> HandState]
      /\ \A x \in Actor : hand'[x] = IF x = a THEN r ELSE hand[x]
  BY RedisFacts
<1>2. raced \in BOOLEAN /\ Overlap' \in BOOLEAN
  BY DEF RedisInv, RedisTypeOK, Overlap
<1>3. RedisTypeOK'
  BY <1>1, <1>2 DEF RedisInv, RedisTypeOK
<1>4. RedisShape'
  BY <1>1 DEF RedisInv, RedisShape
<1>5. ~raced' => OnePassword'
  <2> SUFFICES ASSUME ~raced'
               PROVE  OnePassword'
    OBVIOUS
  <2>1. ~raced /\ ~Overlap'
    OBVIOUS
  <2>2. \A x \in Actor :
          /\ hand'[x].at # "idle" /\ ~Removing(x)' =>
                config' # NoRedis /\ hand'[x].row.secret = config'.secret
          /\ hand'[x].at \in {"forget", "wipe"} => box' = NoRedis
    BY <1>1, <2>1 DEF Removing
  <2> QED BY <2>1, <2>2 DEF OnePassword
<1> QED BY <1>3, <1>4, <1>5 DEF RedisInv

\* Who removes Redis is alone with it.
LEMMA RemovingIsAlone ==
    ASSUME OnePassword, RedisInv, NEW a \in Actor, Removing(a), NEW x \in Actor, x # a
    PROVE  hand[x].at = "idle" /\ ~Removing(x)
<1>1. hand[x] = Free
  BY DEF OnePassword, Overlap
<1> QED BY <1>1 DEF Free, Removing

Working == {"state", "label up", "label down", "start", "volume", "clear", "run"}

LEMMA AtIs ==
    ASSUME RedisInv, NEW a \in Actor, NEW step \in Working \cup {"forget", "wipe"},
           hand[a].at # "idle"
    PROVE  LET r == [hand[a] EXCEPT !.at = step]
           IN  /\ r \in HandState /\ r.at = step /\ r.row = hand[a].row /\ r.wipe = hand[a].wipe
               /\ r.row \in RedisConfig
               /\ At(a, step) => hand' = [hand EXCEPT ![a] = r]
<1>1. hand[a] \in HandState /\ hand \in [Actor -> HandState] /\ hand[a].row \in RedisConfig
  BY RedisFacts
<1> QED BY <1>1 DEF HandState, Working, At

\* A step of an operation that keeps Redis running.
LEMMA WorkingMoves ==
    ASSUME RedisInv, NEW a \in Actor, hand[a].at \in Working,
           \/ Done(a)
           \/ \E step \in Working : At(a, step),
           UNCHANGED <<config, clicks>>, volume' \in BOOLEAN, upsets' \in 0..MaxUpsets,
           raced' = (raced \/ Overlap'),
           box' \in Box \cup {NoRedis},
           box' # NoRedis =>
              box'.secret = hand[a].row.secret \/ (box # NoRedis /\ box'.secret = box.secret)
    PROVE  RedisInv'
<1>f. /\ hand[a].at # "idle" /\ ~Removing(a) /\ hand[a] # Free
      /\ config' \in RedisConfig \cup {NoRedis} /\ clicks' \in 0..MaxClicks
  BY RedisFacts DEF Working, Removing, RedisInv, RedisTypeOK
<1>1. PICK r \in HandState :
         /\ hand' = [hand EXCEPT ![a] = r]
         /\ r = Free \/ (r.at \in Working /\ r.row = hand[a].row /\ r.row \in RedisConfig)
  <2>1. CASE Done(a)
    BY <2>1, FreeType DEF Done
  <2>2. ASSUME NEW step \in Working, At(a, step)
        PROVE  \E r \in HandState :
                  /\ hand' = [hand EXCEPT ![a] = r]
                  /\ r.at \in Working /\ r.row = hand[a].row /\ r.row \in RedisConfig
    <3> DEFINE r == [hand[a] EXCEPT !.at = step]
    <3>1. /\ r \in HandState /\ r.at = step /\ r.row = hand[a].row /\ r.row \in RedisConfig
          /\ hand' = [hand EXCEPT ![a] = r]
      BY <1>f, <2>2, AtIs
    <3> HIDE DEF r
    <3> QED BY <2>2, <3>1
  <2> QED BY <2>1, <2>2
<1>2. r.at = "idle" => r = Free
  BY <1>1 DEF Working
<1>3. r.at # "idle" => r.row \in RedisConfig
  BY <1>1 DEF Free
<1>4. ASSUME ~raced
      PROVE  /\ config # NoRedis /\ hand[a].row.secret = config.secret
             /\ \A x \in Actor : x # a => hand[x].at \notin {"forget", "wipe"}
             /\ \A x \in Actor : hand[x].at # "idle" /\ ~Removing(x) =>
                   hand[x].row.secret = config.secret
             /\ box # NoRedis => box.secret = config.secret
  <2>1. OnePassword
    BY <1>4 DEF RedisInv
  <2>2. ASSUME NEW x \in Actor, x # a, hand[x].at \in {"forget", "wipe"}
        PROVE  FALSE
    <3>1. Removing(x)
      BY <2>2 DEF Removing
    <3> QED BY <1>f, <2>1, <2>2, <3>1, RemovingIsAlone
  <2> QED BY <1>f, <2>1, <2>2 DEF OnePassword
<1>5. r.at \notin {"idle", "remove", "forget", "wipe"} => r.row = hand[a].row
  BY <1>1 DEF Free
<1>6. r.at \notin {"forget", "wipe"}
  <2>1. Free.at = "idle"
    BY DEF Free
  <2>2. r.at = "idle" \/ r.at \in Working
    BY <1>1, <2>1
  <2> QED BY <2>2 DEF Working
<1>7. ~raced /\ ~raced' =>
         /\ \A x \in Actor : x # a /\ hand[x].at # "idle" /\ ~Removing(x) =>
               config' # NoRedis /\ hand[x].row.secret = config'.secret
         /\ \A x \in Actor : x # a /\ hand[x].at \in {"forget", "wipe"} => box' = NoRedis
         /\ r.at \notin {"idle", "remove", "forget", "wipe"} =>
               config' # NoRedis /\ r.row.secret = config'.secret
         /\ r.at \in {"forget", "wipe"} => box' = NoRedis
         /\ box' # NoRedis => config' # NoRedis /\ box'.secret = config'.secret
  <2> SUFFICES ASSUME ~raced
               PROVE  /\ \A x \in Actor : x # a /\ hand[x].at # "idle" /\ ~Removing(x) =>
                            config' # NoRedis /\ hand[x].row.secret = config'.secret
                      /\ \A x \in Actor : x # a /\ hand[x].at \in {"forget", "wipe"} =>
                            box' = NoRedis
                      /\ r.at \notin {"idle", "remove", "forget", "wipe"} =>
                            config' # NoRedis /\ r.row.secret = config'.secret
                      /\ r.at \in {"forget", "wipe"} => box' = NoRedis
                      /\ box' # NoRedis => config' # NoRedis /\ box'.secret = config'.secret
    OBVIOUS
  <2>1. config' = config /\ config # NoRedis
    BY <1>4
  <2>2. box' # NoRedis => box'.secret = config.secret
    BY <1>4
  <2> QED BY <1>4, <1>5, <1>6, <2>1, <2>2
<1> QED BY <1>f, <1>1, <1>2, <1>3, <1>7, HandMoves

LEMMA WorkingSteps ==
    ASSUME RedisInv, NEW a \in Actor, raced' = (raced \/ Overlap'),
           \/ State(a) \/ Label(a) \/ StartsAgain(a) \/ EnsureVolume(a) \/ Clears(a)
           \/ RunsService(a) \/ NotSeen(a)
    PROVE  RedisInv'
<1>f. /\ hand[a] \in HandState /\ box \in Box \cup {NoRedis} /\ (box # NoRedis => box \in Box)
      /\ (hand[a].at # "idle" => hand[a].row \in RedisConfig)
      /\ volume \in BOOLEAN /\ upsets \in 0..MaxUpsets /\ MaxUpsets \in Nat
  BY RedisFacts, RedisAssumption DEF RedisInv, RedisTypeOK
<1>1. hand[a].at \in Working
  BY DEF State, Label, StartsAgain, EnsureVolume, Clears, RunsService, NotSeen, Working
<1>2. Done(a) \/ \E step \in Working : At(a, step)
  BY DEF State, Label, StartsAgain, EnsureVolume, Clears, RunsService, NotSeen, Working
<1>3. UNCHANGED <<config, clicks>> /\ volume' \in BOOLEAN
  BY <1>f DEF State, Label, StartsAgain, EnsureVolume, Clears, RunsService, NotSeen
<1>4. upsets' \in 0..MaxUpsets
  <2>1. CASE UNCHANGED upsets
    BY <1>f, <2>1
  <2>2. CASE Upset
    BY <1>f, <2>2 DEF Upset
  <2> QED BY <2>1, <2>2
          DEF State, Label, StartsAgain, EnsureVolume, Clears, RunsService, NotSeen
<1>5. /\ box' \in Box \cup {NoRedis}
      /\ box' # NoRedis =>
            box'.secret = hand[a].row.secret \/ (box # NoRedis /\ box'.secret = box.secret)
  <2>1. CASE UNCHANGED box
    BY <1>f, <2>1
  <2>2. CASE StartsAgain(a)
    <3>1. CASE box = NoRedis
      BY <2>2, <3>1 DEF StartsAgain
    <3>2. CASE box # NoRedis
      <4> DEFINE up == [box EXCEPT !.up = TRUE]
      <4>1. up \in Box /\ up.secret = box.secret
        BY <1>f, <3>2 DEF Box
      <4>2. box' = up
        BY <2>2, <3>2 DEF StartsAgain
      <4> HIDE DEF up
      <4> QED BY <3>2, <4>1, <4>2
    <3> QED BY <3>1, <3>2
  <2>3. CASE Clears(a)
    BY <2>3 DEF Clears
  <2>4. CASE RunsService(a)
    <3> DEFINE new == [secret |-> hand[a].row.secret, size |-> hand[a].row.size, up |-> TRUE]
    <3>1. new \in Box /\ new.secret = hand[a].row.secret
      BY <1>f, <1>1 DEF Working, RedisConfig, Box
    <3>2. box' = new \/ UNCHANGED box
      BY <2>4 DEF RunsService
    <3> HIDE DEF new
    <3> QED BY <2>1, <3>1, <3>2
  <2> QED BY <2>1, <2>2, <2>3, <2>4 DEF State, Label, EnsureVolume, NotSeen
<1> QED BY <1>1, <1>2, <1>3, <1>4, <1>5, WorkingMoves


\* A request or the pass begins, with the row as it leaves it.
LEMMA RedisBegins ==
    ASSUME RedisInv, NEW a \in Actor, NEW r \in HandState,
           r.at \in {"state", "volume", "remove"}, r.row = config',
           hand' = [hand EXCEPT ![a] = r],
           config' \in RedisConfig, clicks' \in 0..MaxClicks,
           config # NoRedis => config'.secret = config.secret,
           UNCHANGED <<box, volume, upsets>>,
           raced' = (raced \/ Overlap')
    PROVE  RedisInv'
<1>1. r.at \notin {"idle", "forget", "wipe"}
  OBVIOUS
<1>2. /\ config' \in RedisConfig \cup {NoRedis} /\ config' # NoRedis
      /\ box' \in Box \cup {NoRedis} /\ volume' \in BOOLEAN /\ upsets' \in 0..MaxUpsets
  BY NoRedisAssumption DEF RedisInv, RedisTypeOK
<1>3. ~raced /\ ~raced' =>
         /\ \A x \in Actor : x # a /\ hand[x].at # "idle" /\ ~Removing(x) =>
               config' # NoRedis /\ hand[x].row.secret = config'.secret
         /\ \A x \in Actor : x # a /\ hand[x].at \in {"forget", "wipe"} => box' = NoRedis
         /\ r.at \notin {"idle", "remove", "forget", "wipe"} =>
               config' # NoRedis /\ r.row.secret = config'.secret
         /\ r.at \in {"forget", "wipe"} => box' = NoRedis
         /\ box' # NoRedis => config' # NoRedis /\ box'.secret = config'.secret
  BY <1>1, <1>2 DEF RedisInv, OnePassword
<1>4. r.at = "idle" => r = Free
  BY <1>1
<1>5. r.at # "idle" => r.row \in RedisConfig
  OBVIOUS
<1> QED BY <1>2, <1>3, <1>4, <1>5, HandMoves

LEMMA WithIs ==
    ASSUME NEW a \in Actor, NEW set \in RedisConfig, NEW step \in {"state", "volume"},
           With(a, set, step)
    PROVE  \E r \in HandState :
              r.at = step /\ r.row = set /\ hand' = [hand EXCEPT ![a] = r]
<1> DEFINE mid == [Free EXCEPT !.at = step]
           r == [mid EXCEPT !.row = set]
<1>1. mid \in HandState /\ mid.at = step
  BY FreeType DEF HandState
<1>2. hand' = [hand EXCEPT ![a] = r]
  BY DEF With
<1> HIDE DEF mid
<1>3. r \in HandState /\ r.at = step /\ r.row = set
  BY <1>1 DEF HandState
<1> HIDE DEF r
<1> QED BY <1>2, <1>3

LEMMA RequestSteps ==
    ASSUME RedisInv, raced' = (raced \/ Overlap'), NEW a \in Clerk,
           \/ \E size \in Size : Enable(a, size) \/ Update(a, size)
           \/ RestartAsked(a)
           \/ \E wipe \in BOOLEAN : Disable(a, wipe)
    PROVE  RedisInv'
<1>f. /\ config \in RedisConfig \cup {NoRedis} /\ (config # NoRedis => config \in RedisConfig)
      /\ clicks \in 0..MaxClicks /\ MaxClicks \in Nat /\ a \in Actor
  BY RedisFacts, RedisAssumption DEF RedisInv, RedisTypeOK, Actor
<1>1. clicks < MaxClicks /\ clicks' = clicks + 1 /\ UNCHANGED <<box, volume, upsets>>
  BY DEF Enable, Update, RestartAsked, Disable, Click
<1>2. clicks' \in 0..MaxClicks /\ clicks + 1 \in 1..MaxClicks
  BY <1>f, <1>1
<1>3. ASSUME NEW size \in Size, Enable(a, size)
      PROVE  RedisInv'
  <2> DEFINE new == [secret |-> clicks + 1, size |-> size]
  <2>1. new \in RedisConfig
    BY <1>2 DEF RedisConfig
  <2>2. config = NoRedis /\ config' = new /\ With(a, config', "state")
    BY <1>3 DEF Enable
  <2> HIDE DEF new
  <2>3. PICK r \in HandState : /\ r.at = "state" /\ r.row = config'
                               /\ hand' = [hand EXCEPT ![a] = r]
    BY <1>f, <2>1, <2>2, WithIs
  <2> QED BY <1>f, <1>1, <1>2, <2>1, <2>2, <2>3, RedisBegins
<1>4. ASSUME NEW size \in Size, Update(a, size)
      PROVE  RedisInv'
  <2> DEFINE new == [config EXCEPT !.size = size]
  <2>1. config # NoRedis /\ config' = new /\ With(a, config', "state")
    BY <1>4 DEF Update
  <2>2. new \in RedisConfig /\ new.secret = config.secret
    BY <1>f, <2>1 DEF RedisConfig
  <2> HIDE DEF new
  <2>3. PICK r \in HandState : /\ r.at = "state" /\ r.row = config'
                               /\ hand' = [hand EXCEPT ![a] = r]
    BY <1>f, <2>1, <2>2, WithIs
  <2> QED BY <1>f, <1>1, <1>2, <2>1, <2>2, <2>3, RedisBegins
<1>5. ASSUME RestartAsked(a)
      PROVE  RedisInv'
  <2>1. config # NoRedis /\ config' = config /\ With(a, config, "volume")
    BY <1>5 DEF RestartAsked
  <2>2. PICK r \in HandState : /\ r.at = "volume" /\ r.row = config
                               /\ hand' = [hand EXCEPT ![a] = r]
    BY <1>f, <2>1, WithIs
  <2> QED BY <1>f, <1>1, <1>2, <2>1, <2>2, RedisBegins
<1>6. ASSUME NEW wipe \in BOOLEAN, Disable(a, wipe)
      PROVE  RedisInv'
  <2> DEFINE r == [at |-> "remove", row |-> config, wipe |-> wipe]
  <2>1. config # NoRedis /\ config' = config /\ hand' = [hand EXCEPT ![a] = r]
    BY <1>6 DEF Disable
  <2>2. r \in HandState /\ r.at = "remove" /\ r.row = config
    BY <1>f DEF HandState
  <2> HIDE DEF r
  <2> QED BY <1>f, <1>1, <1>2, <2>1, <2>2, RedisBegins
<1> QED BY <1>3, <1>4, <1>5, <1>6

LEMMA PassStep ==
    ASSUME RedisInv, raced' = (raced \/ Overlap'), PassBegins
    PROVE  RedisInv'
<1>1. /\ config # NoRedis /\ config' = config /\ config \in RedisConfig
      /\ clicks' \in 0..MaxClicks /\ Pass \in Actor /\ UNCHANGED <<box, volume, upsets>>
      /\ With(Pass, config, "state")
  BY RedisFacts DEF PassBegins, RedisInv, RedisTypeOK, Actor
<1>2. PICK r \in HandState : /\ r.at = "state" /\ r.row = config
                             /\ hand' = [hand EXCEPT ![Pass] = r]
  BY <1>1, WithIs
<1> QED BY <1>1, <1>2, RedisBegins

LEMMA RemovesStep ==
    ASSUME RedisInv, NEW a \in Actor, raced' = (raced \/ Overlap'), Removes(a)
    PROVE  RedisInv'
<1> DEFINE r == [hand[a] EXCEPT !.at = "forget"]
<1>1. /\ hand[a].at = "remove" /\ At(a, "forget") /\ box' = NoRedis
      /\ UNCHANGED <<config, volume, clicks, upsets>>
  BY DEF Removes, Removed
<1>2. r \in HandState /\ r.at = "forget" /\ r.row \in RedisConfig /\ hand' = [hand EXCEPT ![a] = r]
  BY <1>1, AtIs
<1> HIDE DEF r
<1>3. /\ config' \in RedisConfig \cup {NoRedis} /\ box' \in Box \cup {NoRedis}
      /\ volume' \in BOOLEAN /\ clicks' \in 0..MaxClicks /\ upsets' \in 0..MaxUpsets
  BY <1>1 DEF RedisInv, RedisTypeOK
<1>4. ~raced /\ ~raced' =>
         /\ \A x \in Actor : x # a /\ hand[x].at # "idle" /\ ~Removing(x) =>
               config' # NoRedis /\ hand[x].row.secret = config'.secret
         /\ \A x \in Actor : x # a /\ hand[x].at \in {"forget", "wipe"} => box' = NoRedis
         /\ r.at \notin {"idle", "remove", "forget", "wipe"} =>
               config' # NoRedis /\ r.row.secret = config'.secret
         /\ r.at \in {"forget", "wipe"} => box' = NoRedis
         /\ box' # NoRedis => config' # NoRedis /\ box'.secret = config'.secret
  BY <1>1, <1>2 DEF RedisInv, OnePassword
<1> QED BY <1>2, <1>3, <1>4, HandMoves

\* The last steps of a removal, when nobody else is at anything.
LEMMA RemovalGoesOn ==
    ASSUME RedisInv, NEW a \in Actor, raced' = (raced \/ Overlap'),
           hand[a].at \in {"forget", "wipe"},
           Done(a) \/ At(a, "wipe"),
           config' \in {config, NoRedis}, volume' \in BOOLEAN,
           UNCHANGED <<box, clicks, upsets>>
    PROVE  RedisInv'
<1>1. hand[a].at # "idle" /\ Removing(a)
  BY DEF Removing
<1>2. PICK r \in HandState :
         /\ hand' = [hand EXCEPT ![a] = r]
         /\ r.at \in {"idle", "wipe"} /\ (r.at = "idle" => r = Free)
         /\ r.at # "idle" => r.row \in RedisConfig
  <2>1. CASE Done(a)
    <3>1. Free.at = "idle"
      BY DEF Free
    <3> QED BY <2>1, <3>1, FreeType DEF Done
  <2>2. CASE At(a, "wipe")
    <3> DEFINE r == [hand[a] EXCEPT !.at = "wipe"]
    <3>1. /\ r \in HandState /\ r.at = "wipe" /\ r.row \in RedisConfig
          /\ hand' = [hand EXCEPT ![a] = r]
      BY <1>1, <2>2, AtIs
    <3> HIDE DEF r
    <3> QED BY <3>1
  <2> QED BY <2>1, <2>2
<1>3. /\ config' \in RedisConfig \cup {NoRedis} /\ box' \in Box \cup {NoRedis}
      /\ volume' \in BOOLEAN /\ clicks' \in 0..MaxClicks /\ upsets' \in 0..MaxUpsets
  BY DEF RedisInv, RedisTypeOK
<1>4. ~raced /\ ~raced' =>
         /\ \A x \in Actor : x # a /\ hand[x].at # "idle" /\ ~Removing(x) =>
               config' # NoRedis /\ hand[x].row.secret = config'.secret
         /\ \A x \in Actor : x # a /\ hand[x].at \in {"forget", "wipe"} => box' = NoRedis
         /\ r.at \notin {"idle", "remove", "forget", "wipe"} =>
               config' # NoRedis /\ r.row.secret = config'.secret
         /\ r.at \in {"forget", "wipe"} => box' = NoRedis
         /\ box' # NoRedis => config' # NoRedis /\ box'.secret = config'.secret
  <2> SUFFICES ASSUME ~raced
               PROVE  /\ \A x \in Actor : x # a => hand[x].at = "idle"
                      /\ box' = NoRedis
    BY <1>2
  <2>1. OnePassword
    BY DEF RedisInv
  <2>2. \A x \in Actor : x # a => hand[x].at = "idle"
    BY <1>1, <2>1, RemovingIsAlone
  <2> QED BY <2>1, <2>2 DEF OnePassword
<1> QED BY <1>2, <1>3, <1>4, HandMoves

LEMMA RemovalSteps ==
    ASSUME RedisInv, NEW a \in Actor, raced' = (raced \/ Overlap'),
           Removes(a) \/ Forgets(a) \/ Wipes(a)
    PROVE  RedisInv'
<1>1. CASE Forgets(a)
  <2>1. /\ hand[a].at \in {"forget", "wipe"} /\ (Done(a) \/ At(a, "wipe"))
        /\ config' \in {config, NoRedis} /\ UNCHANGED <<box, volume, clicks, upsets>>
    BY <1>1 DEF Forgets
  <2>2. volume' \in BOOLEAN
    BY <2>1 DEF RedisInv, RedisTypeOK
  <2> QED BY <2>1, <2>2, RemovalGoesOn
<1>2. CASE Wipes(a)
  <2>1. /\ hand[a].at \in {"forget", "wipe"} /\ Done(a)
        /\ config' \in {config, NoRedis} /\ UNCHANGED <<box, clicks, upsets>>
        /\ volume' = (volume /\ box # NoRedis)
    BY <1>2 DEF Wipes
  <2>2. volume' \in BOOLEAN
    BY <2>1
  <2> QED BY <2>1, <2>2, RemovalGoesOn
<1> QED BY <1>1, <1>2, RemovesStep

LEMMA BreaksOffStep ==
    ASSUME RedisInv, NEW a \in Actor, raced' = (raced \/ Overlap'), BreaksOff(a)
    PROVE  RedisInv'
<1>1. /\ hand' = [hand EXCEPT ![a] = Free] /\ UNCHANGED <<config, box, volume, clicks>>
      /\ upsets < MaxUpsets /\ upsets' = upsets + 1
  BY DEF BreaksOff, Done, Upset
<1>2. upsets' \in 0..MaxUpsets
  BY <1>1, RedisAssumption DEF RedisInv, RedisTypeOK
<1>3. Free.at = "idle" /\ Free \in HandState
  BY FreeType DEF Free
<1>4. /\ config' \in RedisConfig \cup {NoRedis} /\ box' \in Box \cup {NoRedis}
      /\ volume' \in BOOLEAN /\ clicks' \in 0..MaxClicks
  BY <1>1 DEF RedisInv, RedisTypeOK
<1>5. ~raced /\ ~raced' =>
         /\ \A x \in Actor : x # a /\ hand[x].at # "idle" /\ ~Removing(x) =>
               config' # NoRedis /\ hand[x].row.secret = config'.secret
         /\ \A x \in Actor : x # a /\ hand[x].at \in {"forget", "wipe"} => box' = NoRedis
         /\ Free.at \notin {"idle", "remove", "forget", "wipe"} =>
               config' # NoRedis /\ Free.row.secret = config'.secret
         /\ Free.at \in {"forget", "wipe"} => box' = NoRedis
         /\ box' # NoRedis => config' # NoRedis /\ box'.secret = config'.secret
  BY <1>1, <1>3 DEF RedisInv, OnePassword
<1> QED BY <1>1, <1>2, <1>3, <1>4, <1>5, HandMoves

LEMMA StoppedStep ==
    ASSUME RedisInv, raced' = (raced \/ Overlap'), StoppedByHand
    PROVE  RedisInv'
<1> DEFINE down == [box EXCEPT !.up = FALSE]
<1>1. /\ box # NoRedis /\ box' = down /\ UNCHANGED <<config, volume, hand, clicks>>
      /\ upsets < MaxUpsets /\ upsets' = upsets + 1
  BY DEF StoppedByHand, Upset
<1>2. box \in Box /\ NoRedis \notin Box
  BY <1>1, NoRedisAssumption DEF RedisInv, RedisTypeOK
<1>3. down \in Box /\ down.secret = box.secret
  BY <1>2 DEF Box
<1> HIDE DEF down
<1>4. Overlap' = Overlap /\ raced' \in BOOLEAN
  BY <1>1 DEF Overlap, Removing, RedisInv, RedisTypeOK
<1>5. upsets' \in 0..MaxUpsets
  BY <1>1, RedisAssumption DEF RedisInv, RedisTypeOK
<1>6. RedisTypeOK'
  BY <1>1, <1>3, <1>4, <1>5 DEF RedisInv, RedisTypeOK
<1>7. RedisShape'
  BY <1>1 DEF RedisInv, RedisShape
<1>8. ~raced' => OnePassword'
  BY <1>1, <1>2, <1>3, <1>4 DEF RedisInv, OnePassword, Removing
<1> QED BY <1>6, <1>7, <1>8 DEF RedisInv

LEMMA RedisStepKeeps ==
    ASSUME RedisInv, RedisNext
    PROVE  RedisInv'
<1>1. RedisSteps /\ raced' = (raced \/ Overlap')
  BY DEF RedisNext, Recorded
<1> QED BY <1>1, RequestSteps, PassStep, WorkingSteps, RemovalSteps, BreaksOffStep, StoppedStep
        DEF RedisSteps, RedisStep

LEMMA RedisStart ==
    ASSUME RedisInit
    PROVE  RedisInv
<1>1. Free.at = "idle" /\ Free \in HandState
  BY FreeType DEF Free
<1>2. \A a \in Actor : hand[a] = Free
  BY DEF RedisInit
<1>3. RedisTypeOK
  <2>1. hand \in [Actor -> HandState]
    BY <1>1 DEF RedisInit
  <2>2. clicks \in 0..MaxClicks /\ upsets \in 0..MaxUpsets
    BY RedisAssumption DEF RedisInit
  <2> QED BY <2>1, <2>2 DEF RedisInit, RedisTypeOK
<1>4. RedisShape /\ OnePassword
  BY <1>1, <1>2 DEF RedisShape, OnePassword, Overlap, Removing, RedisInit
<1> QED BY <1>3, <1>4 DEF RedisInv

LEMMA PasswordIsKept ==
    ASSUME RedisInv
    PROVE  PasswordKept
BY DEF RedisInv, OnePassword, PasswordKept

-----------------------------------------------------------------------------
(* The pictures *)

\* A worker with a capture is at a site, takes the picture of something that
\* has been live there, and holds a file while it records and sweeps; each
\* change of production was asked for.
PreviewShape ==
    /\ \A p \in Site : live[p] <= asked
    /\ \A k \in Camera :
          /\ camera[k].at # "idle" =>
                camera[k].site \in Site /\ camera[k].of <= live[camera[k].site]
          /\ camera[k].at \in {"record", "sweep"} => camera[k].file \in File

PreviewInv == PreviewTypeOK /\ PreviewShape

Shot == [status : PreviewStatus, of : 0..MaxAsks, at : 0..MaxAsks,
         late : BOOLEAN, file : File \cup {NoFile}, shows : 0..MaxAsks]

Capture == [at : {"idle", "shoot", "record", "sweep"}, site : Site \cup {NoFile.site},
            of : 0..MaxAsks, file : File \cup {NoFile}]

LEMMA PreviewFacts ==
    ASSUME PreviewInv
    PROVE  /\ live \in [Site -> 0..MaxAsks] /\ preview \in [Site -> Shot]
           /\ camera \in [Camera -> Capture] /\ disk \subseteq File
           /\ taken \in 0..MaxFiles /\ asked \in 0..MaxAsks /\ deaths \in 0..MaxDeaths
           /\ MaxAsks \in Nat /\ MaxFiles \in Nat /\ MaxDeaths \in Nat
           /\ \A p \in Site : /\ preview[p].of <= live[p] /\ preview[p].shows <= live[p]
                              /\ live[p] <= asked
BY PreviewsAssumption DEF PreviewInv, PreviewTypeOK, PreviewShape, Shot, Capture

\* A site's row becomes s, and the site has been live up to n.
LEMMA PreviewMoves ==
    ASSUME PreviewInv, NEW p \in Site, NEW s \in Shot, NEW n \in 0..MaxAsks,
           preview' = [preview EXCEPT ![p] = s],
           live' = [live EXCEPT ![p] = n], live[p] <= n, n <= asked',
           asked' \in 0..MaxAsks, asked <= asked',
           s.of <= n, s.shows <= n,
           UNCHANGED <<camera, disk, taken, deaths>>
    PROVE  PreviewInv'
<1>f. live \in [Site -> 0..MaxAsks] /\ preview \in [Site -> Shot] /\ asked \in 0..MaxAsks
  BY PreviewFacts
<1>1. live' \in [Site -> 0..MaxAsks] /\ preview' \in [Site -> Shot]
  BY <1>f
<1>2. \A q \in Site : live'[q] = (IF q = p THEN n ELSE live[q])
                      /\ preview'[q] = (IF q = p THEN s ELSE preview[q])
  BY <1>f
<1>3. \A q \in Site : live[q] <= live'[q] /\ live'[q] <= asked'
  BY <1>f, <1>2, PreviewFacts
<1>4. \A q \in Site : preview'[q].of <= live'[q] /\ preview'[q].shows <= live'[q]
  BY <1>2, PreviewFacts
<1>5. PreviewTypeOK'
  BY <1>1, <1>4 DEF PreviewInv, PreviewTypeOK, Shot
<1>6. ASSUME NEW k \in Camera, camera[k].at # "idle"
      PROVE  camera[k].site \in Site /\ camera[k].of <= live'[camera[k].site]
  <2>1. camera[k].site \in Site /\ camera[k].of <= live[camera[k].site] /\ camera[k].of \in 0..MaxAsks
    BY <1>6 DEF PreviewInv, PreviewShape, PreviewTypeOK
  <2>2. live[camera[k].site] \in Nat /\ live'[camera[k].site] \in Nat
    BY <1>1, <1>f, <2>1
  <2> QED BY <1>3, <2>1, <2>2
<1>7. PreviewShape'
  BY <1>3, <1>6 DEF PreviewInv, PreviewShape
<1> QED BY <1>5, <1>7 DEF PreviewInv

LEMMA Asking ==
    ASSUME PreviewInv, NEW p \in Site,
           GoesLive(p) \/ Refresh(p) \/ GrowsLate(p)
    PROVE  PreviewInv'
<1>f. /\ live \in [Site -> 0..MaxAsks] /\ preview[p] \in Shot /\ asked \in 0..MaxAsks
      /\ live[p] \in 0..MaxAsks /\ live[p] <= asked /\ MaxAsks \in Nat
      /\ preview[p].of <= live[p] /\ preview[p].shows <= live[p]
  BY PreviewFacts
<1>1. CASE GoesLive(p) \/ Refresh(p)
  <2>1. PICK n \in {live[p], live[p] + 1} :
           /\ live' = [live EXCEPT ![p] = n]
           /\ preview' = Requested(p, n)
           /\ asked < MaxAsks /\ asked' = asked + 1 /\ UNCHANGED <<camera, disk, taken, deaths>>
    <3>1. live = [live EXCEPT ![p] = live[p]]
      BY <1>f
    <3>2. CASE GoesLive(p)
      BY <3>2 DEF GoesLive
    <3>3. CASE Refresh(p)
      BY <3>1, <3>3 DEF Refresh
    <3> QED BY <1>1, <3>2, <3>3
  <2> DEFINE s == [preview[p] EXCEPT !.status = "requested", !.of = n, !.late = FALSE,
                                     !.at = asked + 1]
  <2>2. n \in 0..MaxAsks /\ asked + 1 \in 0..MaxAsks /\ live[p] <= n /\ n <= asked + 1
    BY <1>f, <2>1
  <2>3. preview' = [preview EXCEPT ![p] = s]
    BY <2>1 DEF Requested
  <2>4. s \in Shot /\ s.of = n /\ s.shows = preview[p].shows
    BY <1>f, <2>2 DEF Shot, PreviewStatus
  <2> HIDE DEF s
  <2>5. s.of <= n /\ s.shows <= n
    <3>1. preview[p].shows \in Nat /\ live[p] \in Nat /\ n \in Nat
      BY <1>f, <2>2 DEF Shot
    <3> QED BY <1>f, <2>2, <2>4, <3>1
  <2>6. n <= asked' /\ asked' \in 0..MaxAsks /\ asked <= asked'
    BY <1>f, <2>1, <2>2
  <2> QED BY <2>1, <2>2, <2>3, <2>4, <2>5, <2>6, PreviewMoves
<1>2. CASE GrowsLate(p)
  <2> DEFINE s == [preview[p] EXCEPT !.late = TRUE]
  <2>1. preview' = [preview EXCEPT ![p] = s] /\ UNCHANGED <<live, camera, disk, taken, asked, deaths>>
    BY <1>2 DEF GrowsLate
  <2>2. s \in Shot /\ s.of = preview[p].of /\ s.shows = preview[p].shows
    BY <1>f DEF Shot
  <2>3. live' = [live EXCEPT ![p] = live[p]]
    BY <1>f, <2>1
  <2> HIDE DEF s
  <2>4. live[p] <= asked' /\ asked' \in 0..MaxAsks /\ asked <= asked' /\ live[p] <= live[p]
    BY <1>f, <2>1
  <2>5. s.of <= live[p] /\ s.shows <= live[p]
    BY <1>f, <2>2
  <2> QED BY <1>f, <2>1, <2>2, <2>3, <2>4, <2>5, PreviewMoves
<1> QED BY <1>1, <1>2

\* A capture goes on to state c, and the row of site p becomes s.
LEMMA CameraMoves ==
    ASSUME PreviewInv, NEW k \in Camera, NEW c \in Capture, NEW rows,
           camera' = [camera EXCEPT ![k] = c],
           preview' = rows, rows \in [Site -> Shot],
           \A q \in Site : rows[q].of <= live[q] /\ rows[q].shows <= live[q],
           c.at # "idle" => c.site \in Site /\ c.of <= live[c.site],
           c.at \in {"record", "sweep"} => c.file \in File,
           disk' \subseteq File, taken' \in 0..MaxFiles, deaths' \in 0..MaxDeaths,
           UNCHANGED <<live, asked>>
    PROVE  PreviewInv'
<1>1. /\ camera' \in [Camera -> Capture]
      /\ \A x \in Camera : camera'[x] = IF x = k THEN c ELSE camera[x]
  BY PreviewFacts
<1>2. PreviewTypeOK'
  BY <1>1 DEF PreviewInv, PreviewTypeOK, Shot, Capture
<1>3. PreviewShape'
  BY <1>1 DEF PreviewInv, PreviewShape
<1> QED BY <1>2, <1>3 DEF PreviewInv

LEMMA RestingIs == Resting \in Capture /\ Resting.at = "idle"
BY PreviewsAssumption DEF Resting, Capture, NoFile

\* The row of the site a capture is at changes, of and shows as they may.
LEMMA RowMoves ==
    ASSUME PreviewInv, NEW p \in Site, NEW s \in Shot, s.of <= live[p], s.shows <= live[p]
    PROVE  /\ [preview EXCEPT ![p] = s] \in [Site -> Shot]
           /\ \A q \in Site : /\ [preview EXCEPT ![p] = s][q].of <= live[q]
                              /\ [preview EXCEPT ![p] = s][q].shows <= live[q]
<1>1. preview \in [Site -> Shot] /\ \A q \in Site : preview[q].of <= live[q]
                                                  /\ preview[q].shows <= live[q]
  BY PreviewFacts
<1>2. \A q \in Site : [preview EXCEPT ![p] = s][q] = IF q = p THEN s ELSE preview[q]
  BY <1>1
<1> QED BY <1>1, <1>2

LEMMA CaptureFacts ==
    ASSUME PreviewInv, NEW k \in Camera
    PROVE  /\ camera[k] \in Capture
           /\ (camera[k].at # "idle" => /\ camera[k].site \in Site
                                        /\ camera[k].of <= live[camera[k].site]
                                        /\ preview[camera[k].site] \in Shot)
           /\ (camera[k].at \in {"record", "sweep"} => camera[k].file \in File)
BY PreviewFacts DEF PreviewInv, PreviewShape

LEMMA ClaimStep ==
    ASSUME PreviewInv, NEW k \in Camera, NEW p \in Site, Claim(k, p)
    PROVE  PreviewInv'
<1>f. preview[p] \in Shot /\ preview[p].of <= live[p] /\ preview[p].shows <= live[p]
  BY PreviewFacts
<1> DEFINE s == [preview[p] EXCEPT !.status = "capturing", !.late = FALSE]
           c == [Resting EXCEPT !.at = "shoot", !.site = p, !.of = preview[p].of]
           rows == [preview EXCEPT ![p] = s]
<1>1. /\ preview' = rows /\ camera' = [camera EXCEPT ![k] = c]
      /\ UNCHANGED <<live, disk, taken, asked, deaths>>
  BY DEF Claim, CameraIs
<1>2. s \in Shot /\ s.of = preview[p].of /\ s.shows = preview[p].shows
  BY <1>f DEF Shot, PreviewStatus
<1>3. c \in Capture /\ c.at = "shoot" /\ c.site = p /\ c.of = preview[p].of
  BY <1>f, RestingIs DEF Shot, Capture
<1> HIDE DEF s, c
<1>4. /\ rows \in [Site -> Shot]
      /\ \A q \in Site : rows[q].of <= live[q] /\ rows[q].shows <= live[q]
  BY <1>f, <1>2, RowMoves
<1> HIDE DEF rows
<1>5. disk' \subseteq File /\ taken' \in 0..MaxFiles /\ deaths' \in 0..MaxDeaths
  BY <1>1, PreviewFacts
<1> QED BY <1>f, <1>1, <1>3, <1>4, <1>5, CameraMoves

LEMMA MissesStep ==
    ASSUME PreviewInv, NEW k \in Camera, Misses(k)
    PROVE  PreviewInv'
<1> DEFINE p == camera[k].site
           s == [preview[p] EXCEPT !.status = "failed"]
           rows == [preview EXCEPT ![p] = s]
<1>1. /\ camera[k].at = "shoot" /\ preview' = rows /\ camera' = [camera EXCEPT ![k] = Resting]
      /\ UNCHANGED <<live, disk, taken, asked, deaths>>
  BY DEF Misses, CameraIs
<1>2. p \in Site /\ preview[p] \in Shot /\ preview[p].of <= live[p] /\ preview[p].shows <= live[p]
  BY <1>1, CaptureFacts, PreviewFacts
<1>3. s \in Shot /\ s.of = preview[p].of /\ s.shows = preview[p].shows
  BY <1>2 DEF Shot, PreviewStatus
<1> HIDE DEF p, s
<1>4. /\ rows \in [Site -> Shot]
      /\ \A q \in Site : rows[q].of <= live[q] /\ rows[q].shows <= live[q]
  BY <1>2, <1>3, RowMoves
<1> HIDE DEF rows
<1>5. disk' \subseteq File /\ taken' \in 0..MaxFiles /\ deaths' \in 0..MaxDeaths
  BY <1>1, PreviewFacts
<1> QED BY <1>1, <1>4, <1>5, RestingIs, CameraMoves

\* A step of a capture that leaves the rows alone.
LEMMA CaptureMoves ==
    ASSUME PreviewInv, NEW k \in Camera, NEW c \in Capture,
           camera' = [camera EXCEPT ![k] = c],
           c.at # "idle" => c.site \in Site /\ c.of <= live[c.site],
           c.at \in {"record", "sweep"} => c.file \in File,
           disk' \subseteq File, taken' \in 0..MaxFiles, deaths' \in 0..MaxDeaths,
           UNCHANGED <<live, preview, asked>>
    PROVE  PreviewInv'
BY PreviewFacts, CameraMoves

LEMMA ShootsStep ==
    ASSUME PreviewInv, NEW k \in Camera, Shoots(k)
    PROVE  PreviewInv'
<1> DEFINE file == [site |-> camera[k].site, no |-> taken + 1]
           c == [camera[k] EXCEPT !.at = "record", !.file = file]
<1>1. /\ camera[k].at = "shoot" /\ taken < MaxFiles /\ taken' = taken + 1
      /\ disk' = disk \cup {file} /\ camera' = [camera EXCEPT ![k] = c]
      /\ UNCHANGED <<live, preview, asked, deaths>>
  BY DEF Shoots, CameraIs
<1>2. /\ camera[k].site \in Site /\ camera[k] \in Capture
      /\ camera[k].of <= live[camera[k].site]
  BY <1>1, CaptureFacts
<1>3. taken + 1 \in 1..MaxFiles /\ disk \subseteq File /\ deaths \in 0..MaxDeaths
  BY <1>1, PreviewFacts
<1>4. file \in File
  BY <1>2, <1>3 DEF File
<1> HIDE DEF file
<1>5. /\ c \in Capture /\ c.at = "record" /\ c.site = camera[k].site /\ c.of = camera[k].of
      /\ c.file = file
  BY <1>2, <1>4 DEF Capture
<1> HIDE DEF c
<1>6. disk' \subseteq File /\ taken' \in 0..MaxFiles /\ deaths' \in 0..MaxDeaths
  BY <1>1, <1>3, <1>4
<1> QED BY <1>1, <1>2, <1>4, <1>5, <1>6, CaptureMoves

LEMMA RecordsStep ==
    ASSUME PreviewInv, NEW k \in Camera, Records(k)
    PROVE  PreviewInv'
<1> DEFINE p == camera[k].site
           s == [preview[p] EXCEPT !.status = "captured", !.file = camera[k].file,
                                   !.shows = camera[k].of]
           rows == [preview EXCEPT ![p] = s]
           c == [camera[k] EXCEPT !.at = "sweep"]
<1>1. /\ camera[k].at = "record" /\ preview' = rows /\ camera' = [camera EXCEPT ![k] = c]
      /\ UNCHANGED <<live, disk, taken, asked, deaths>>
  BY DEF Records, CameraIs
<1>2. /\ p \in Site /\ preview[p] \in Shot /\ camera[k] \in Capture
      /\ preview[p].of <= live[p] /\ camera[k].of <= live[p] /\ camera[k].file \in File
  BY <1>1, CaptureFacts, PreviewFacts
<1>3. c \in Capture /\ c.at = "sweep" /\ c.site = p /\ c.of = camera[k].of /\ c.file \in File
  BY <1>2 DEF Capture
<1>4. s \in Shot /\ s.of = preview[p].of /\ s.shows = camera[k].of
  BY <1>2 DEF Shot, PreviewStatus, Capture
<1> HIDE DEF p, s, c
<1>5. /\ rows \in [Site -> Shot]
      /\ \A q \in Site : rows[q].of <= live[q] /\ rows[q].shows <= live[q]
  BY <1>2, <1>4, RowMoves
<1> HIDE DEF rows
<1>6. disk' \subseteq File /\ taken' \in 0..MaxFiles /\ deaths' \in 0..MaxDeaths
  BY <1>1, PreviewFacts
<1> QED BY <1>1, <1>2, <1>3, <1>5, <1>6, CameraMoves

LEMMA PreviewStepKeeps ==
    ASSUME PreviewInv, PreviewNext
    PROVE  PreviewInv'
<1>1. ASSUME NEW k \in Camera, Sweeps(k) \/ Stops(k)
      PROVE  PreviewInv'
  <2>1. camera' = [camera EXCEPT ![k] = Resting] /\ UNCHANGED <<live, preview, taken, asked>>
    BY <1>1 DEF Sweeps, Stops, CameraIs
  <2>2. disk' \subseteq disk
    BY <1>1 DEF Sweeps, Stops
  <2>3. deaths' = deaths \/ (deaths < MaxDeaths /\ deaths' = deaths + 1)
    BY <1>1 DEF Sweeps, Stops
  <2>4. disk' \subseteq File /\ taken' \in 0..MaxFiles /\ deaths' \in 0..MaxDeaths
    BY <2>1, <2>2, <2>3, PreviewFacts
  <2> QED BY <2>1, <2>4, RestingIs, CaptureMoves
<1> QED BY <1>1, Asking, ClaimStep, MissesStep, ShootsStep, RecordsStep
        DEF PreviewNext, CameraStep

LEMMA PreviewStart ==
    ASSUME PreviewInit
    PROVE  PreviewInv
<1>1. NoPreview \in Shot /\ NoPreview.of = 0 /\ NoPreview.shows = 0
  BY PreviewsAssumption DEF NoPreview, Shot, PreviewStatus
<1>2. live \in [Site -> 0..MaxAsks] /\ \A p \in Site : live[p] = 0 /\ preview[p] = NoPreview
  BY PreviewsAssumption DEF PreviewInit
<1>3. preview \in [Site -> Shot] /\ camera \in [Camera -> Capture]
  BY <1>1, RestingIs DEF PreviewInit
<1>4. \A k \in Camera : camera[k].at = "idle"
  BY RestingIs DEF PreviewInit
<1>5. /\ disk = {} /\ taken \in 0..MaxFiles /\ asked \in 0..MaxAsks /\ asked = 0
      /\ deaths \in 0..MaxDeaths
  BY PreviewsAssumption DEF PreviewInit
<1>6. PreviewTypeOK
  BY <1>1, <1>2, <1>3, <1>5 DEF PreviewTypeOK, Shot, Capture
<1> QED BY <1>2, <1>4, <1>5, <1>6 DEF PreviewInv, PreviewShape

-----------------------------------------------------------------------------
(* The monitor *)

\* A thing has as many strikes as failed checks in a row: nothing forgets the
\* one and keeps the other.
MonitorInv == MonitorTypeOK /\ strikes = row

LEMMA MonitorFacts ==
    ASSUME MonitorInv
    PROVE  /\ strikes \in [Thing -> 0..Strikes] /\ row \in [Thing -> 0..Strikes] /\ strikes = row
           /\ firing \subseteq Thing /\ trouble \in 0..MaxTrouble /\ pass \subseteq Watchable
           /\ chat \in [Thing -> {"none", "critical", "resolved", "lost"}]
           /\ health \in [Thing -> {"up", "down", "absent", "between"}]
           /\ Strikes \in Nat \ {0} /\ MaxTrouble \in Nat
           /\ Watchable \subseteq Thing /\ Job \subseteq Thing
BY MonitorAssumption DEF MonitorInv, MonitorTypeOK, Watchable, Thing

\* What is said of a thing keeps the shapes.
LEMMA FireOrResolve ==
    ASSUME MonitorInv, NEW t \in Thing,
           Fire(t) \/ Resolve(t) \/ UNCHANGED <<firing, chat, trouble>>
    PROVE  /\ firing' \subseteq Thing /\ trouble' \in 0..MaxTrouble
           /\ chat' \in [Thing -> {"none", "critical", "resolved", "lost"}]
           /\ firing' \subseteq firing \cup {t}
<1>f. /\ firing \subseteq Thing /\ trouble \in 0..MaxTrouble /\ MaxTrouble \in Nat
      /\ chat \in [Thing -> {"none", "critical", "resolved", "lost"}]
  BY MonitorFacts
<1>1. ASSUME NEW word \in {"critical", "resolved"}, Says(t, word)
      PROVE  /\ trouble' \in 0..MaxTrouble
             /\ chat' \in [Thing -> {"none", "critical", "resolved", "lost"}]
  <2>1. trouble' \in 0..MaxTrouble
    BY <1>f, <1>1 DEF Says, Troubled
  <2>2. chat' \in [Thing -> {"none", "critical", "resolved", "lost"}]
    BY <1>f, <1>1 DEF Says
  <2> QED BY <2>1, <2>2
<1>2. CASE UNCHANGED <<firing, chat, trouble>>
  BY <1>f, <1>2
<1>3. CASE Says(t, "critical") /\ firing' = firing \cup {t}
  BY <1>f, <1>1, <1>3
<1>4. CASE Says(t, "resolved") /\ firing' = firing \ {t}
  BY <1>f, <1>1, <1>4
<1> QED BY <1>2, <1>3, <1>4 DEF Fire, Resolve

\* A check of a thing with strikes ends with as many strikes as failed checks
\* in a row, and fires only when they are enough.
LEMMA RecordIs ==
    ASSUME MonitorInv, NEW t \in Thing, RecordGood(t) \/ RecordBad(t)
    PROVE  /\ strikes' \in [Thing -> 0..Strikes] /\ row' = strikes'
           /\ Fire(t) \/ Resolve(t) \/ UNCHANGED <<firing, chat, trouble>>
           /\ t \notin firing /\ t \in firing' => row'[t] >= Strikes
<1>f. strikes \in [Thing -> 0..Strikes] /\ row = strikes /\ Strikes \in Nat \ {0}
  BY MonitorFacts
<1>1. CASE RecordGood(t)
  <2>1. strikes' = [strikes EXCEPT ![t] = 0] /\ row' = [row EXCEPT ![t] = 0] /\ Resolve(t)
    BY <1>1 DEF RecordGood, StrikesCleared
  <2>2. strikes' \in [Thing -> 0..Strikes] /\ row' = strikes'
    BY <1>f, <2>1
  <2>3. ~(t \notin firing /\ t \in firing')
    BY <2>1 DEF Resolve
  <2> QED BY <2>1, <2>2, <2>3
<1>2. CASE RecordBad(t)
  <2> DEFINE n == IF strikes[t] < Strikes THEN strikes[t] + 1 ELSE strikes[t]
  <2>1. /\ strikes' = [strikes EXCEPT ![t] = n] /\ row' = [row EXCEPT ![t] = n]
        /\ IF strikes'[t] >= Strikes THEN Fire(t) ELSE UNCHANGED <<firing, chat, trouble>>
    BY <1>2, <1>f DEF RecordBad, Struck
  <2>2. n \in 0..Strikes
    BY <1>f
  <2> HIDE DEF n
  <2>3. strikes' \in [Thing -> 0..Strikes] /\ row' = strikes'
    BY <1>f, <2>1, <2>2
  <2> QED BY <2>1, <2>3
<1> QED BY <1>1, <1>2

\* A step of the monitor keeps its invariant, and no alarm goes for one of
\* what must fail several times before it has.
LEMMA ChecksStep ==
    ASSUME MonitorInv, NEW t \in Watchable, Checks(t)
    PROVE  /\ MonitorInv'
           /\ \A x \in Probed \cup Started :
                 x \notin firing /\ x \in firing' => row'[x] >= Strikes
<1>f. t \in Thing /\ pass \subseteq Watchable /\ strikes \in [Thing -> 0..Strikes] /\ strikes = row
  BY MonitorFacts
<1>1. pass' = pass \ {t} /\ UNCHANGED <<here, health, watched>>
  BY DEF Checks
<1>2. \/ UNCHANGED <<strikes, row>> /\ (Fire(t) \/ Resolve(t) \/ UNCHANGED <<firing, chat, trouble>>)
         /\ (t \in Gauge \/ UNCHANGED <<firing, chat, trouble>>)
      \/ RecordGood(t) \/ RecordBad(t)
  BY DEF Checks
<1>3. /\ strikes' \in [Thing -> 0..Strikes] /\ row' = strikes'
      /\ Fire(t) \/ Resolve(t) \/ UNCHANGED <<firing, chat, trouble>>
  BY <1>f, <1>2, RecordIs
<1>4. /\ firing' \subseteq Thing /\ trouble' \in 0..MaxTrouble
      /\ chat' \in [Thing -> {"none", "critical", "resolved", "lost"}]
      /\ firing' \subseteq firing \cup {t}
  BY <1>f, <1>3, FireOrResolve
<1>5. MonitorInv'
  <2>1. pass' \subseteq Watchable
    BY <1>f, <1>1
  <2>2. here' = here /\ health' = health /\ watched' = watched
    BY <1>1
  <2> QED BY <1>3, <1>4, <2>1, <2>2 DEF MonitorInv, MonitorTypeOK
<1>6. ASSUME NEW x \in Probed \cup Started, x \notin firing, x \in firing'
      PROVE  row'[x] >= Strikes
  <2>1. x = t /\ x \notin Gauge
    BY <1>4, <1>6, MonitorAssumption
  <2> QED BY <1>f, <1>2, <1>6, <2>1, RecordIs
<1> QED BY <1>5, <1>6

LEMMA MonitorStepKeeps ==
    ASSUME MonitorInv, MonitorNext
    PROVE  /\ MonitorInv'
           /\ \A x \in Probed \cup Started :
                 x \notin firing /\ x \in firing' => row'[x] >= Strikes
<1> DEFINE Quiet == \A x \in Probed \cup Started :
                       x \notin firing /\ x \in firing' => row'[x] >= Strikes
<1>f. strikes = row /\ MonitorTypeOK
  BY DEF MonitorInv
<1>1. CASE Begins
  BY <1>1 DEF Begins, MonitorInv, MonitorTypeOK
<1>2. CASE \E t \in Watchable : Checks(t)
  BY <1>2, ChecksStep
<1>3. ASSUME NEW t \in Watchable, Rewatched(t)
      PROVE  MonitorInv' /\ Quiet
  <2>1. /\ t \in here /\ trouble < MaxTrouble /\ trouble' = trouble + 1
        /\ watched' \subseteq watched \cup {t}
        /\ UNCHANGED <<here, health, pass, strikes, firing, chat, row>>
    BY <1>3 DEF Rewatched, Troubled
  <2>2. trouble' \in 0..MaxTrouble
    BY <2>1, MonitorFacts
  <2> QED BY <2>1, <2>2 DEF MonitorInv, MonitorTypeOK
<1>4. CASE Breaks
  <2>1. /\ trouble < MaxTrouble /\ trouble' = trouble + 1 /\ pass' = {}
        /\ UNCHANGED <<here, health, watched, strikes, firing, chat, row>>
    BY <1>4 DEF Breaks, Troubled
  <2>2. trouble' \in 0..MaxTrouble
    BY <2>1, MonitorFacts
  <2> QED BY <2>1, <2>2 DEF MonitorInv, MonitorTypeOK
<1>5. ASSUME NEW j \in Job, JobRuns(j)
      PROVE  MonitorInv' /\ Quiet
  <2>1. /\ Fire(j) \/ Resolve(j)
        /\ UNCHANGED <<here, health, watched, pass, strikes, row>>
    BY <1>5 DEF JobRuns
  <2>2. j \in Thing /\ j \notin Probed \cup Started
    BY MonitorFacts, MonitorAssumption
  <2>3. /\ firing' \subseteq Thing /\ trouble' \in 0..MaxTrouble
        /\ chat' \in [Thing -> {"none", "critical", "resolved", "lost"}]
        /\ firing' \subseteq firing \cup {j}
    BY <2>1, <2>2, FireOrResolve
  <2>4. Quiet
    BY <2>2, <2>3
  <2> QED BY <2>1, <2>3, <2>4 DEF MonitorInv, MonitorTypeOK
<1>6. CASE Restarts
  <2>1. /\ trouble < MaxTrouble /\ trouble' = trouble + 1 /\ pass' = {} /\ firing' = {}
        /\ strikes' = [t \in Thing |-> 0] /\ row' = strikes'
        /\ UNCHANGED <<here, health, watched, chat>>
    BY <1>6 DEF Restarts, Troubled
  <2>2. trouble' \in 0..MaxTrouble /\ 0 \in 0..Strikes
    BY <2>1, MonitorFacts
  <2>3. strikes' \in [Thing -> 0..Strikes]
    BY <2>1, <2>2
  <2> QED BY <2>1, <2>2, <2>3 DEF MonitorInv, MonitorTypeOK
<1>7. ASSUME NEW t \in Thing, NEW h \in Healths(t), Becomes(t, h)
      PROVE  MonitorInv' /\ Quiet
  <2>1. /\ health' = [health EXCEPT ![t] = h]
        /\ UNCHANGED <<here, watched, pass, strikes, firing, chat, row, trouble>>
    BY <1>7 DEF Becomes
  <2>2. h \in {"up", "down", "absent", "between"}
    BY DEF Healths
  <2>3. /\ health' \in [Thing -> {"up", "down", "absent", "between"}]
        /\ \A x \in Thing : health'[x] \in Healths(x)
    BY <1>f, <2>1, <2>2 DEF MonitorTypeOK
  <2> QED BY <2>1, <2>3 DEF MonitorInv, MonitorTypeOK
<1> HIDE DEF Quiet
<1>8. MonitorInv' /\ Quiet
  BY <1>1, <1>2, <1>3, <1>4, <1>5, <1>6, <1>7 DEF MonitorNext, Quiet
<1> QED BY <1>8 DEF Quiet

LEMMA MonitorStart ==
    ASSUME MonitorInit
    PROVE  MonitorInv
<1>1. 0 \in 0..Strikes /\ 0 \in 0..MaxTrouble
  BY MonitorAssumption
<1>2. \A t \in Thing : "up" \in Healths(t)
  BY DEF Healths
<1>3. strikes \in [Thing -> 0..Strikes] /\ strikes = row
  BY <1>1 DEF MonitorInit
<1>4. /\ health \in [Thing -> {"up", "down", "absent", "between"}]
      /\ \A t \in Thing : health[t] \in Healths(t)
  BY <1>2 DEF MonitorInit
<1> QED BY <1>1, <1>3, <1>4 DEF MonitorInit, MonitorInv, MonitorTypeOK

-----------------------------------------------------------------------------
(* The four together *)

WatchInv == LogInv /\ PreviewInv /\ MonitorInv /\ RedisInv

\* What a part at rest has stays as it is.
LEMMA LogRests == ASSUME LogInv, UNCHANGED logVars PROVE LogInv'
<1>1. LogTypeOK' /\ LogShape' /\ SoundIsAlone'
  BY DEF logVars, LogInv, LogTypeOK, LogShape, SoundIsAlone, Open
<1>2. LogSafe'
  <2>1. LogSafe /\ UNCHANGED <<logged, writer, reader, expired>>
    BY DEF LogInv, logVars
  <2> QED BY <2>1 DEF LogSafe, CursorOK
<1> QED BY <1>1, <1>2 DEF LogInv

LEMMA PreviewRests == ASSUME PreviewInv, UNCHANGED previewVars PROVE PreviewInv'
BY DEF previewVars, PreviewInv, PreviewTypeOK, PreviewShape

LEMMA MonitorRests == ASSUME MonitorInv, UNCHANGED monitorVars PROVE MonitorInv'
BY DEF monitorVars, MonitorInv, MonitorTypeOK

LEMMA RedisRests == ASSUME RedisInv, UNCHANGED redisVars PROVE RedisInv'
BY DEF redisVars, RedisInv, RedisTypeOK, RedisShape, OnePassword, Overlap, Removing

LEMMA WatchStart == Init => WatchInv
BY LogStart, PreviewStart, MonitorStart, RedisStart DEF Init, WatchInv

LEMMA WatchStep == WatchInv /\ [Next]_vars => WatchInv'
<1> SUFFICES ASSUME WatchInv, [Next]_vars
             PROVE  WatchInv'
  OBVIOUS
<1>i. LogInv /\ PreviewInv /\ MonitorInv /\ RedisInv
  BY DEF WatchInv
<1>1. CASE LogStep
  BY <1>i, <1>1, LogStepKeeps, PreviewRests, MonitorRests, RedisRests DEF LogStep, WatchInv
<1>2. CASE PreviewStep
  BY <1>i, <1>2, LogRests, PreviewStepKeeps, MonitorRests, RedisRests DEF PreviewStep, WatchInv
<1>3. CASE MonitorStep
  BY <1>i, <1>3, LogRests, PreviewRests, MonitorStepKeeps, RedisRests DEF MonitorStep, WatchInv
<1>4. CASE RedisPart
  BY <1>i, <1>4, LogRests, PreviewRests, MonitorRests, RedisStepKeeps DEF RedisPart, WatchInv
<1>5. CASE UNCHANGED vars
  BY <1>i, <1>5, LogRests, PreviewRests, MonitorRests, RedisRests DEF vars, WatchInv
<1> QED BY <1>1, <1>2, <1>3, <1>4, <1>5 DEF Next

LEMMA WatchHolds == Spec => []WatchInv
BY WatchStart, WatchStep, PTL DEF Spec

\* The tables, the workers' memory and the containers keep their shapes: a log's
\* lines have one place each, a picture is of what has been live, an alert is
\* about something the installation can have.
THEOREM WatchTypes == Spec => []TypeOK
<1>1. WatchInv => TypeOK
  BY DEF WatchInv, LogInv, PreviewInv, MonitorInv, RedisInv, TypeOK
<1> QED BY <1>1, WatchHolds, PTL

\* No line is lost to another operation: the lines of a writer that overlapped
\* with no other are all in the table when it ends, and no follower whose
\* cursor has passed one missed it, whatever the writers before it overlapped
\* with, lost or left unfinished, for every number of writers, lines and
\* batches.
THEOREM WatchLogKept == Spec => []LogKept
<1>1. WatchInv => LogKept
  BY LogIsKept DEF WatchInv
<1> QED BY <1>1, WatchHolds, PTL

\* The Redis container at rest has the password the app connects with, as long
\* as no removal overlapped with the pass or another request, whatever number
\* of requests, passes, stops by hand and processes that die interleave.
THEOREM WatchPasswordKept == Spec => []PasswordKept
<1>1. WatchInv => PasswordKept
  BY PasswordIsKept DEF WatchInv
<1> QED BY <1>1, WatchHolds, PTL

\* One failed check raises no alarm about a site, a Redis or a worker: strikes
\* and failed checks in a row never part, through restarts, passes that break
\* off and things taken off the list and put back.
THEOREM WatchNoFalseAlarm == Spec => NoFalseAlarm
<1>1. ASSUME WatchInv, [Next]_vars
      PROVE  [\A t \in Probed \cup Started :
                 t \notin firing /\ t \in firing' => row'[t] >= Strikes]_monitorVars
  <2>1. CASE MonitorStep
    BY <1>1, <2>1, MonitorStepKeeps DEF MonitorStep, WatchInv
  <2>2. CASE ~MonitorStep
    BY <1>1, <2>2 DEF Next, LogStep, PreviewStep, RedisPart, vars, monitorVars
  <2> QED BY <2>1, <2>2
<1> QED BY <1>1, WatchHolds, PTL DEF Spec, NoFalseAlarm
=============================================================================
