--------------------------- MODULE ModelTextProofs ---------------------------
(***************************************************************************)
(* What is read of a model's answer: its stream (ModelStream), for any     *)
(* alphabet, marker, lines and tool calls, and the website in it           *)
(* (SiteFiles), for any answers, repairs and imports.                      *)
(*                                                                         *)
(* StreamInv is inductive.  The text sent is the buffer and what the queue *)
(* has of the line being worked on (TextInv); what was shown is the part   *)
(* of the buffer that no marker can reach any more (ShownInv).  That part  *)
(* never shrinks because a marker that ends in later text begins at most   *)
(* its own length before it.                                               *)
(*                                                                         *)
(* SiteInv is inductive.  The files stand in the order of the answer, and  *)
(* the last file of a path has what the model wrote last under it, which   *)
(* repairs keep because a replacement goes to the last file of its path.   *)
(* That a checked file is well formed is a theorem about the scanner: the  *)
(* intervals in which the stack comes back to where it was, and never goes *)
(* below, are the intervals of the grammar (BalancedIffWellFormed).        *)
(*                                                                         *)
(* Induction over data is here a least counterexample: a set of numbers    *)
(* has a smallest one (SmallestExists), because a finite set's subsets     *)
(* are well founded.                                                       *)
(***************************************************************************)
EXTENDS ModelStream, SiteFiles, FiniteSetTheorems, SequenceTheorems, TLAPS

Chunk == [content : Seq(Letters),
          call : SUBSET [index : Indexes, args : Seq(Nat)], done : BOOLEAN]
Args == [Indexes -> Seq(Nat)]

StreamTypeOK ==
  /\ client \in Clients /\ mode \in Modes
  /\ sent \in Seq(Letters) /\ buffer \in Seq(Letters)
  /\ shown \in Seq(Letters)
  /\ fragments \in Args /\ acc = fragments
  /\ body \in {"open", "over", "cut"}
  /\ queue \in Seq(Chunk)
  /\ reader \in {"ask", "again", "scan", "closed"}
  /\ cancelled \in BOOLEAN /\ blocked \in BOOLEAN /\ streamedUp \in Nat
  /\ stage \in {"read", "flush", "end", "gone"}

(* The rest of a line, which is in the first chunk only. *)
Pending == IF queue = <<>> THEN <<>> ELSE queue[1].content
GaveUp == cancelled /\ reader = "closed"

(* A chunk that says it is the last one is. *)
QueueInv ==
  /\ \A i \in DOMAIN queue : i > 1 => queue[i].content = <<>>
  /\ \A i \in DOMAIN queue : queue[i].done => i = Len(queue) /\ body # "open"
  /\ reader = "closed" =>
       queue = <<>> /\ (body # "open" \/ cancelled \/ stage = "gone")
  /\ reader \in {"ask", "again"} =>
       queue = <<>> /\ body = "open" /\ stage = "read" /\ sent = <<>>
  /\ stage \in {"flush", "end"} =>
       queue = <<>> /\ (body # "open" \/ reader = "closed")

(* No text is lost or comes twice, and none of it is half a character. *)
TextInv ==
  /\ WholeCharacters(sent) /\ WholeCharacters(buffer)
  /\ WholeCharacters(Pending)
  /\ IsPrefixOf(buffer, sent)
  /\ ~ blocked /\ ~ GaveUp => buffer \o Pending = sent

(* What is shown of the buffer before the end, by the way it is read. *)
Shown ==
  IF MarkedAt(buffer) # {} THEN Len(Before(buffer)) ELSE SafeLen(buffer)
ShownInv ==
  /\ blocked <=> mode = "flow" /\ MarkedAt(buffer) # {}
  /\ mode = "flow" => streamedUp = Shown
  /\ mode # "flow" => streamedUp = 0
  /\ stage # "end" =>
       shown = IF mode = "plain" THEN buffer ELSE SubSeq(buffer, 1, streamedUp)
  /\ stage = "end" => shown = VisibleContent /\ visible = shown

ReceivedInv ==
  \/ received = shown
  \/ mode = "flow" /\ \E i \in DOMAIN shown : shown[i] = Lead

(* A call has all of its arguments, and each is in the queue or was read. *)
Whole(calls) ==
  \A call \in calls : body = "over" /\ call.args = fragments[call.index]
Calls == toolCalls \union UNION {queue[i].call : i \in DOMAIN queue}
CallsInv ==
  /\ Whole(Calls)
  /\ client # "openai" => fragments = [i \in Indexes |-> <<>>]
  /\ body = "over" /\ ~ GaveUp =>
       {call.index : call \in Calls} = {i \in Indexes : fragments[i] # <<>>}

StreamInv ==
  StreamTypeOK /\ QueueInv /\ TextInv /\ ShownInv /\ ReceivedInv /\ CallsInv

-----------------------------------------------------------------------------
(* Texts. *)

(* A finite set of numbers has a smallest one. *)
LEMMA SmallestExists ==
  ASSUME NEW n \in Nat, NEW T \in SUBSET (1..n), T # {}
  PROVE  \E m \in T : \A k \in T : m <= k
<1> DEFINE Smallest(U) == \E m \in U : \A k \in U : m <= k
           Without == {U \in SUBSET T : U # {} /\ ~ Smallest(U)}
<1> SUFFICES ASSUME ~ Smallest(T) PROVE FALSE
  OBVIOUS
<1>1. T \in Without
  OBVIOUS
<1>2. IsFiniteSet(T)
  <2>1. 1 \in Int /\ n \in Int
    OBVIOUS
  <2>2. IsFiniteSet(1..n)
    BY <2>1, FS_Interval
  <2> QED
    BY <2>2, FS_Subset
<1>3. Without \subseteq FiniteSubsetsOf(T)
  BY <1>2, FS_FiniteSubsetsOfFinite
<1>4. IsWellFoundedOn(StrictSubsetOrdering(T), FiniteSubsetsOf(T))
  BY FS_StrictSubsetOrderingWellFounded
<1>5. PICK U \in Without :
        \A V \in Without : ~ (<<V, U>> \in StrictSubsetOrdering(T))
  <2> HIDE DEF Without
  <2> QED
    BY <1>1, <1>3, <1>4, WFMin
<1>6. PICK x \in U : TRUE
  OBVIOUS
<1> DEFINE V == U \ {x}
<1>7. V \in SUBSET T /\ V # U /\ V \subseteq U /\ U \in SUBSET T
  BY <1>6
<1>8. V \notin Without
  BY <1>5, <1>7 DEF StrictSubsetOrdering
<1>9. x \in Int /\ \A k \in U : k \in Int
  BY <1>6, <1>7
<1>10. CASE V = {}
  <2>1. \A k \in U : x <= k
    BY <1>9, <1>10
  <2> QED
    BY <1>6, <2>1
<1>11. CASE Smallest(V)
  <2>1. PICK m \in V : \A k \in V : m <= k
    BY <1>11
  <2>2. CASE m <= x
    <3>1. \A k \in U : m <= k
      BY <2>1, <2>2
    <3> QED
      BY <2>1, <3>1
  <2>3. CASE ~ (m <= x)
    <3>1. \A k \in U : x <= k
      BY <1>9, <2>1, <2>3
    <3> QED
      BY <1>6, <3>1
  <2> QED
    BY <2>2, <2>3
<1> QED
  BY <1>7, <1>8, <1>10, <1>11

(* The marker has a letter at least, and none of a character of two bytes. *)
LEMMA MarkerFacts ==
  /\ Len(Marker) \in Nat /\ Len(Marker) >= 1
  /\ Marker \in Seq(Letters)
  /\ Marker[1] # Lead /\ Marker[1] # Cont
<1>1. Marker \in Seq(Letters \ {Lead, Cont}) /\ Marker # <<>>
  BY ModelStreamAssumption
<1>2. Len(Marker) \in Nat /\ Len(Marker) >= 1
  BY <1>1, EmptySeq
<1>3. Marker[1] \in Letters \ {Lead, Cont}
  BY <1>1, <1>2, ElementOfSeq
<1>4. Marker \in Seq(Letters)
  BY <1>1, SeqMonotonic
<1> QED
  BY <1>2, <1>3, <1>4

(* What the lines have is text of whole characters. *)
LEMMA TextFacts ==
  ASSUME NEW text \in Texts
  PROVE  text \in Seq(Letters) /\ WholeCharacters(text)
BY SeqDef DEF Texts

(* The letters of a text. *)
LEMMA Letter ==
  ASSUME NEW s \in Seq(Letters)
  PROVE  /\ Len(s) \in Nat /\ DOMAIN s = 1..Len(s)
         /\ \A i \in 1..Len(s) : s[i] \in Letters
BY LenProperties, ElementOfSeq

(* The first n letters of a text. *)
LEMMA Cutting ==
  ASSUME NEW s \in Seq(Letters), NEW n \in 0..Len(s)
  PROVE  /\ SubSeq(s, 1, n) \in Seq(Letters) /\ Len(SubSeq(s, 1, n)) = n
         /\ \A i \in 1..n : SubSeq(s, 1, n)[i] = s[i]
<1>1. Len(s) \in Nat /\ \A i \in 1..Len(s) : s[i] \in Letters
  BY Letter
<1>2. n \in Int /\ \A i \in 1..n : s[i] \in Letters
  BY <1>1
<1>3. /\ SubSeq(s, 1, n) \in Seq(Letters)
      /\ Len(SubSeq(s, 1, n)) = IF 1 <= n THEN n - 1 + 1 ELSE 0
      /\ \A i \in 1..n - 1 + 1 : SubSeq(s, 1, n)[i] = s[1 + i - 1]
  BY <1>2, SubSeqProperties
<1> QED
  BY <1>1, <1>3

(* The letters after the first n. *)
LEMMA TheRest ==
  ASSUME NEW s \in Seq(Letters), NEW n \in 0..Len(s)
  PROVE  /\ From(s, n) \in Seq(Letters) /\ Len(From(s, n)) = Len(s) - n
         /\ \A i \in 1..Len(s) - n : From(s, n)[i] = s[n + i]
         /\ SubSeq(s, 1, n) \o From(s, n) = s
<1>1. Len(s) \in Nat /\ \A i \in 1..Len(s) : s[i] \in Letters
  BY Letter
<1>2. PICK m \in Nat : m = Len(s)
  BY <1>1
<1>3. n + 1 \in Int /\ m \in Int /\ \A i \in n + 1..m : s[i] \in Letters
  BY <1>1, <1>2
<1>4. /\ SubSeq(s, n + 1, m) \in Seq(Letters)
      /\ Len(SubSeq(s, n + 1, m)) = IF n + 1 <= m THEN m - (n + 1) + 1 ELSE 0
      /\ \A i \in 1..m - (n + 1) + 1 :
           SubSeq(s, n + 1, m)[i] = s[n + 1 + i - 1]
  BY <1>3, SubSeqProperties
<1>5. SubSeq(s, 1, n) \o SubSeq(s, n + 1, m) = SubSeq(s, 1, m)
  <2>1. 1 \in 1..Len(s) + 1 /\ n \in 1 - 1..Len(s) /\ m \in n..Len(s)
    BY <1>2
  <2> QED
    BY <2>1, ConcatAdjacentSubSeq
<1>6. SubSeq(s, 1, m) = s
  BY <1>2, SubSeqFull
<1>7. PICK rest : rest = SubSeq(s, n + 1, m)
  OBVIOUS
<1>8. From(s, n) = rest
  BY <1>2, <1>7 DEF From
<1>9. Len(rest) = m - n
  BY <1>2, <1>4, <1>7
<1>10. ASSUME NEW i \in 1..m - n PROVE rest[i] = s[n + i]
  <2>1. i \in 1..m - (n + 1) + 1 /\ n + 1 + i - 1 = n + i
    BY <1>2
  <2>2. rest[i] = s[n + 1 + i - 1]
    BY <1>4, <1>7, <2>1
  <2> QED
    BY <2>1, <2>2
<1> QED
  BY <1>2, <1>4, <1>5, <1>6, <1>7, <1>8, <1>9, <1>10

(* A prefix has the same letters. *)
LEMMA Prefix ==
  ASSUME NEW s \in Seq(Letters), NEW t \in Seq(Letters)
  PROVE  IsPrefixOf(s, t) <=>
           Len(s) <= Len(t) /\ \A i \in 1..Len(s) : s[i] = t[i]
<1>1. Len(s) \in Nat /\ Len(t) \in Nat
  BY Letter
<1>2. CASE Len(s) <= Len(t)
  <2>1. Len(s) \in 0..Len(t)
    BY <1>1, <1>2
  <2>2. PICK p : p = SubSeq(t, 1, Len(s))
    OBVIOUS
  <2>3. /\ p \in Seq(Letters) /\ Len(p) = Len(s)
        /\ \A i \in 1..Len(s) : p[i] = t[i]
    BY <2>1, <2>2, Cutting
  <2>4. (\A i \in 1..Len(s) : p[i] = s[i]) => p = s
    BY <2>3, SeqEqual
  <2>5. p = s <=> \A i \in 1..Len(s) : s[i] = t[i]
    BY <2>3, <2>4
  <2> QED
    BY <1>2, <2>2, <2>5 DEF IsPrefixOf
<1> QED
  BY <1>1, <1>2 DEF IsPrefixOf

(* Two texts, one after the other. *)
LEMMA JoinedText ==
  ASSUME NEW s \in Seq(Letters), NEW t \in Seq(Letters)
  PROVE  /\ s \o t \in Seq(Letters) /\ Len(s \o t) = Len(s) + Len(t)
         /\ \A i \in 1..Len(s) : (s \o t)[i] = s[i]
         /\ \A i \in 1..Len(t) : (s \o t)[Len(s) + i] = t[i]
         /\ IsPrefixOf(s, s \o t)
<1>1. Len(s) \in Nat /\ Len(t) \in Nat
  BY Letter
<1>2. PICK st : st = s \o t
  OBVIOUS
<1>3. /\ st \in Seq(Letters) /\ Len(st) = Len(s) + Len(t)
      /\ \A i \in 1..Len(s) + Len(t) :
           st[i] = IF i <= Len(s) THEN s[i] ELSE t[i - Len(s)]
  BY <1>2, ConcatProperties
<1>4. \A i \in 1..Len(s) : st[i] = s[i]
  BY <1>1, <1>3
<1>5. ASSUME NEW i \in 1..Len(t) PROVE st[Len(s) + i] = t[i]
  <2>1. PICK k \in Int : k = Len(s) + i
    BY <1>1
  <2>2. k \in 1..Len(s) + Len(t) /\ ~ (k <= Len(s)) /\ k - Len(s) = i
    BY <1>1, <2>1
  <2>3. st[k] = t[k - Len(s)]
    BY <1>3, <2>2
  <2> QED
    BY <2>1, <2>2, <2>3
<1>6. IsPrefixOf(s, st)
  BY <1>1, <1>3, <1>4, Prefix
<1> QED
  BY <1>2, <1>3, <1>4, <1>5, <1>6

(* Whole characters joined to whole characters are whole. *)
LEMMA WholeJoined ==
  ASSUME NEW s \in Seq(Letters), NEW t \in Seq(Letters),
         WholeCharacters(s), WholeCharacters(t)
  PROVE  WholeCharacters(s \o t)
<1>1. /\ Len(s) \in Nat /\ DOMAIN s = 1..Len(s)
      /\ Len(t) \in Nat /\ DOMAIN t = 1..Len(t)
  BY Letter
<1>2. PICK st : st = s \o t
  OBVIOUS
<1>3. /\ st \in Seq(Letters) /\ Len(st) = Len(s) + Len(t)
      /\ \A i \in 1..Len(s) : st[i] = s[i]
      /\ \A i \in 1..Len(t) : st[Len(s) + i] = t[i]
  BY <1>2, JoinedText
<1>4. DOMAIN st = 1..Len(s) + Len(t)
  BY <1>3, Letter
<1>5. ASSUME NEW i \in DOMAIN st
      PROVE  /\ st[i] = Lead => i < Len(st) /\ st[i + 1] = Cont
             /\ st[i] = Cont => i > 1 /\ st[i - 1] = Lead
  <2>1. CASE i <= Len(s)
    <3>1. i \in 1..Len(s) /\ st[i] = s[i]
      BY <1>1, <1>3, <1>4, <2>1
    <3>2. /\ s[i] = Lead => i < Len(s) /\ s[i + 1] = Cont
          /\ s[i] = Cont => i > 1 /\ s[i - 1] = Lead
      BY <1>1, <3>1 DEF WholeCharacters
    <3> QED
      BY <1>1, <1>3, <3>1, <3>2
  <2>2. CASE i > Len(s)
    <3>1. PICK j \in 1..Len(t) : j = i - Len(s)
      BY <1>1, <1>4, <2>2
    <3>2. st[i] = t[j] /\ i = Len(s) + j
      BY <1>1, <1>3, <3>1
    <3>3. /\ t[j] = Lead => j < Len(t) /\ t[j + 1] = Cont
          /\ t[j] = Cont => j > 1 /\ t[j - 1] = Lead
      BY <1>1 DEF WholeCharacters
    <3>4. ASSUME j < Len(t) PROVE st[i + 1] = t[j + 1]
      <4>1. PICK k \in 1..Len(t) : k = j + 1
        BY <1>1, <3>4
      <4>2. PICK q : q = i + 1
        OBVIOUS
      <4>3. Len(s) + k = q
        BY <1>1, <3>2, <4>1, <4>2
      <4>4. st[q] = t[k]
        BY <1>3, <4>1, <4>3
      <4> QED
        BY <4>1, <4>2, <4>4
    <3>5. ASSUME j > 1 PROVE st[i - 1] = t[j - 1]
      <4>1. PICK k \in 1..Len(t) : k = j - 1
        BY <1>1, <3>5
      <4>2. PICK q : q = i - 1
        OBVIOUS
      <4>3. Len(s) + k = q
        BY <1>1, <3>2, <4>1, <4>2
      <4>4. st[q] = t[k]
        BY <1>3, <4>1, <4>3
      <4> QED
        BY <4>1, <4>2, <4>4
    <3> QED
      BY <1>1, <1>3, <3>2, <3>3, <3>4, <3>5
  <2> QED
    BY <1>1, <1>4, <2>1, <2>2
<1> QED
  BY <1>2, <1>5 DEF WholeCharacters

(* And so is what comes before a letter that begins a character. *)
LEMMA WholePart ==
  ASSUME NEW s \in Seq(Letters), WholeCharacters(s), NEW n \in 0..Len(s),
         n = 0 \/ s[n] # Lead
  PROVE  WholeCharacters(SubSeq(s, 1, n))
<1>1. PICK part : part = SubSeq(s, 1, n)
  OBVIOUS
<1>2. /\ Len(s) \in Nat /\ DOMAIN s = 1..Len(s)
      /\ Len(part) = n /\ DOMAIN part = 1..n /\ \A i \in 1..n : part[i] = s[i]
  BY <1>1, Cutting, Letter
<1>3. ASSUME NEW i \in 1..n
      PROVE  /\ part[i] = Lead => i < n /\ part[i + 1] = Cont
             /\ part[i] = Cont => i > 1 /\ part[i - 1] = Lead
  <2>1. /\ s[i] = Lead => i < Len(s) /\ s[i + 1] = Cont
        /\ s[i] = Cont => i > 1 /\ s[i - 1] = Lead
    BY <1>2 DEF WholeCharacters
  <2>2. s[i] = Lead => i < n
    BY <1>2
  <2>3. PICK before, after : before = i - 1 /\ after = i + 1
    OBVIOUS
  <2>4. /\ i > 1 => part[before] = s[before]
        /\ i < n => part[after] = s[after]
    BY <1>2, <2>3
  <2> QED
    BY <1>2, <2>1, <2>2, <2>3, <2>4
<1> QED
  BY <1>1, <1>2, <1>3 DEF WholeCharacters

(* A piece that is taken where no character of two bytes is. *)
LEMMA WholePiece ==
  ASSUME NEW s \in Seq(Letters), WholeCharacters(s), NEW n \in 0..Len(s),
         \A i \in 1..Len(s) : s[i] # Lead
  PROVE  WholeCharacters(From(s, n))
<1>1. PICK rest : rest = From(s, n)
  OBVIOUS
<1>2. /\ rest \in Seq(Letters) /\ Len(rest) = Len(s) - n
      /\ \A i \in 1..Len(s) - n : rest[i] = s[n + i]
  BY <1>1, TheRest
<1>3. Len(s) \in Nat /\ DOMAIN s = 1..Len(s) /\ DOMAIN rest = 1..Len(s) - n
  BY <1>2, Letter
<1>4. ASSUME NEW i \in 1..Len(s) - n
      PROVE  rest[i] # Lead /\ rest[i] # Cont
  <2>1. PICK k \in 1..Len(s) : k = n + i
    BY <1>3
  <2>2. rest[i] = s[k] /\ s[k] # Lead
    BY <1>2, <2>1
  <2>3. s[k] = Cont => k > 1 /\ s[k - 1] = Lead
    BY <1>3 DEF WholeCharacters
  <2>4. k > 1 => k - 1 \in 1..Len(s)
    BY <1>3
  <2> QED
    BY <2>2, <2>3, <2>4
<1> QED
  BY <1>1, <1>3, <1>4 DEF WholeCharacters

-----------------------------------------------------------------------------
(* Marks. *)

(* Where the marker is, letter by letter. *)
LEMMA MarkIs ==
  ASSUME NEW s \in Seq(Letters), NEW i \in Int
  PROVE  i \in MarkedAt(s) <=>
           /\ 1 <= i /\ i <= Len(s) - Len(Marker) + 1
           /\ \A j \in 1..Len(Marker) : s[i + j - 1] = Marker[j]
<1>1. Len(s) \in Nat /\ \A k \in 1..Len(s) : s[k] \in Letters
  BY Letter
<1>2. PICK m \in Nat : m = Len(Marker) /\ m >= 1
  BY MarkerFacts
<1>3. CASE 1 <= i /\ i <= Len(s) - m + 1
  <2>1. PICK to \in Int : to = i + m - 1
    BY <1>2
  <2>2. PICK piece : piece = SubSeq(s, i, to)
    OBVIOUS
  <2>3. \A k \in i..to : s[k] \in Letters
    BY <1>1, <1>2, <1>3, <2>1
  <2>4. /\ piece \in Seq(Letters)
        /\ Len(piece) = IF i <= to THEN to - i + 1 ELSE 0
        /\ \A j \in 1..to - i + 1 : piece[j] = s[i + j - 1]
    BY <2>2, <2>3, SubSeqProperties
  <2>5. Len(piece) = m /\ \A j \in 1..m : piece[j] = s[i + j - 1]
    BY <1>2, <2>1, <2>4
  <2>6. (\A j \in 1..m : piece[j] = Marker[j]) => piece = Marker
    BY <1>2, <2>4, <2>5, MarkerFacts, SeqEqual
  <2>7. piece = Marker <=> \A j \in 1..m : s[i + j - 1] = Marker[j]
    BY <2>5, <2>6
  <2>8. i \in MarkedAt(s) <=> piece = Marker
    BY <1>1, <1>2, <1>3, <2>1, <2>2 DEF MarkedAt
  <2> QED
    BY <1>2, <1>3, <2>7, <2>8
<1>4. CASE ~ (1 <= i /\ i <= Len(s) - m + 1)
  BY <1>1, <1>2, <1>4 DEF MarkedAt
<1> QED
  BY <1>3, <1>4

(* The first mark, if there is one. *)
LEMMA FirstMark ==
  ASSUME NEW s \in Seq(Letters), MarkedAt(s) # {}
  PROVE  \E f \in MarkedAt(s) :
           /\ \A j \in MarkedAt(s) : f <= j
           /\ f - 1 \in 0..Len(s)
           /\ Before(s) = SubSeq(s, 1, f - 1)
<1>1. Len(s) \in Nat /\ Len(Marker) \in Nat /\ Len(Marker) >= 1
  BY Letter, MarkerFacts
<1>2. MarkedAt(s) \in SUBSET (1..Len(s))
  BY <1>1 DEF MarkedAt
<1>3. \E i \in MarkedAt(s) : \A j \in MarkedAt(s) : i <= j
  <2> HIDE DEF MarkedAt
  <2> QED
    BY <1>1, <1>2, SmallestExists
<1>4. PICK f : f = CHOOSE i \in MarkedAt(s) : \A j \in MarkedAt(s) : i <= j
  OBVIOUS
<1>5. f \in MarkedAt(s) /\ \A j \in MarkedAt(s) : f <= j
  <2> HIDE DEF MarkedAt
  <2> QED
    BY <1>3, <1>4
<1>6. Before(s) = SubSeq(s, 1, f - 1)
  BY <1>4 DEF Before
<1>7. f - 1 \in 0..Len(s)
  BY <1>1, <1>2, <1>5
<1> QED
  BY <1>5, <1>6, <1>7

(* What comes before the mark is the beginning of the text. *)
LEMMA BeforeFacts ==
  ASSUME NEW s \in Seq(Letters)
  PROVE  /\ Before(s) \in Seq(Letters)
         /\ Len(Before(s)) \in 0..Len(s)
         /\ Before(s) = SubSeq(s, 1, Len(Before(s)))
         /\ MarkedAt(s) = {} => Before(s) = s
<1>1. Len(s) \in Nat
  BY Letter
<1>2. CASE MarkedAt(s) = {}
  <2>1. Before(s) = s
    BY <1>2 DEF Before
  <2> QED
    BY <1>1, <2>1, SubSeqFull
<1>3. CASE MarkedAt(s) # {}
  <2>1. PICK n \in 0..Len(s) : Before(s) = SubSeq(s, 1, n)
    BY <1>3, FirstMark
  <2>2. SubSeq(s, 1, n) \in Seq(Letters) /\ Len(SubSeq(s, 1, n)) = n
    BY Cutting
  <2> QED
    BY <1>3, <2>1, <2>2
<1> QED
  BY <1>2, <1>3

(* It is made of whole characters. *)
LEMMA BeforeIsWhole ==
  ASSUME NEW s \in Seq(Letters), WholeCharacters(s)
  PROVE  WholeCharacters(Before(s))
<1>1. CASE MarkedAt(s) = {}
  BY <1>1, BeforeFacts
<1>2. CASE MarkedAt(s) # {}
  <2>1. PICK f \in MarkedAt(s) :
          f - 1 \in 0..Len(s) /\ Before(s) = SubSeq(s, 1, f - 1)
    BY <1>2, FirstMark
  <2>2. PICK m \in Nat : m = Len(Marker) /\ m >= 1 /\ Marker[1] # Cont
    BY MarkerFacts
  <2>3. f \in Int /\ Len(s) \in Nat /\ DOMAIN s = 1..Len(s)
    BY Letter DEF MarkedAt
  <2>4. \A j \in 1..m : s[f + j - 1] = Marker[j]
    BY <2>1, <2>2, <2>3, MarkIs
  <2>5. s[f + 1 - 1] = Marker[1] /\ f + 1 - 1 = f
    BY <2>2, <2>3, <2>4
  <2>6. s[f] # Cont
    BY <2>2, <2>5
  <2>7. PICK n \in 0..Len(s) : n = f - 1
    BY <2>1
  <2>8. ASSUME n # 0 PROVE s[n] # Lead
    <3>1. n \in DOMAIN s /\ n + 1 = f
      BY <2>3, <2>7, <2>8
    <3>2. s[n] = Lead => s[n + 1] = Cont
      BY <3>1 DEF WholeCharacters
    <3> QED
      BY <2>6, <3>1, <3>2
  <2> QED
    BY <2>1, <2>7, <2>8, WholePart
<1> QED
  BY <1>1, <1>2

(* More text leaves the marks that are there, and adds none that ends in the
   text there was. *)
LEMMA MarksStay ==
  ASSUME NEW s \in Seq(Letters), NEW t \in Seq(Letters), IsPrefixOf(s, t)
  PROVE  /\ MarkedAt(s) \subseteq MarkedAt(t)
         /\ \A i \in MarkedAt(t) :
              i <= Len(s) - Len(Marker) + 1 => i \in MarkedAt(s)
<1>1. /\ Len(s) \in Nat /\ Len(t) \in Nat /\ Len(s) <= Len(t)
      /\ \A i \in 1..Len(s) : s[i] = t[i]
  BY Letter, Prefix
<1>2. PICK m \in Nat : m = Len(Marker) /\ m >= 1
  BY MarkerFacts
<1>3. MarkedAt(s) \subseteq Int /\ MarkedAt(t) \subseteq Int
  BY DEF MarkedAt
<1>4. ASSUME NEW i \in Int, 1 <= i, i <= Len(s) - m + 1
      PROVE  i \in MarkedAt(s) <=> i \in MarkedAt(t)
  <2>1. ASSUME NEW j \in 1..m PROVE s[i + j - 1] = t[i + j - 1]
    <3>1. i + j - 1 \in 1..Len(s)
      BY <1>1, <1>2, <1>4
    <3> QED
      BY <1>1, <3>1
  <2>2. i <= Len(t) - m + 1
    BY <1>1, <1>2, <1>4
  <2>3. i \in MarkedAt(s) <=> \A j \in 1..m : s[i + j - 1] = Marker[j]
    BY <1>2, <1>4, MarkIs
  <2>4. i \in MarkedAt(t) <=> \A j \in 1..m : t[i + j - 1] = Marker[j]
    BY <1>2, <1>4, <2>2, MarkIs
  <2> QED
    BY <2>1, <2>3, <2>4
<1>5. \A i \in MarkedAt(s) : 1 <= i /\ i <= Len(s) - m + 1
  BY <1>2, <1>3, MarkIs
<1>6. \A i \in MarkedAt(t) : 1 <= i
  BY <1>3, MarkIs
<1> HIDE DEF MarkedAt
<1> QED
  BY <1>2, <1>3, <1>4, <1>5, <1>6

(* So the text before the first mark is final once there is a mark. *)
LEMMA BeforeStays ==
  ASSUME NEW s \in Seq(Letters), NEW t \in Seq(Letters), IsPrefixOf(s, t),
         MarkedAt(s) # {}
  PROVE  MarkedAt(t) # {} /\ Before(t) = Before(s)
<1>1. PICK f \in MarkedAt(s) : /\ \A j \in MarkedAt(s) : f <= j
                              /\ f - 1 \in 0..Len(s)
                              /\ Before(s) = SubSeq(s, 1, f - 1)
  BY FirstMark
<1>2. f \in MarkedAt(t)
  BY MarksStay
<1>3. PICK g \in MarkedAt(t) : /\ \A j \in MarkedAt(t) : g <= j
                              /\ g - 1 \in 0..Len(t)
                              /\ Before(t) = SubSeq(t, 1, g - 1)
  BY <1>2, FirstMark
<1>4. f \in Int /\ g \in Int
  BY DEF MarkedAt
<1>5. Len(s) \in Nat /\ Len(t) \in Nat /\ Len(Marker) \in Nat
  BY Letter, MarkerFacts
<1>6. f = g
  <2>1. g <= f /\ f <= Len(s) - Len(Marker) + 1
    BY <1>2, <1>3, <1>4, MarkIs
  <2>2. g \in MarkedAt(s)
    BY <1>4, <1>5, <2>1, MarksStay
  <2> QED
    BY <1>1, <1>4, <2>1, <2>2
<1>7. PICK n \in 0..Len(s) : n = f - 1 /\ n \in 0..Len(t)
  BY <1>1, <1>3, <1>6
<1>8. /\ SubSeq(s, 1, n) \in Seq(Letters) /\ Len(SubSeq(s, 1, n)) = n
      /\ \A i \in 1..n : SubSeq(s, 1, n)[i] = s[i]
      /\ SubSeq(t, 1, n) \in Seq(Letters) /\ Len(SubSeq(t, 1, n)) = n
      /\ \A i \in 1..n : SubSeq(t, 1, n)[i] = t[i]
  BY <1>7, Cutting
<1>9. \A i \in 1..n : s[i] = t[i]
  BY <1>5, <1>7, Prefix
<1>10. SubSeq(s, 1, n) = SubSeq(t, 1, n)
  <2>1. PICK a, b : a = SubSeq(s, 1, n) /\ b = SubSeq(t, 1, n)
    OBVIOUS
  <2>2. a \in Seq(Letters) /\ b \in Seq(Letters) /\ Len(a) = n /\ Len(b) = n
    BY <1>8, <2>1
  <2>3. \A i \in 1..n : a[i] = b[i]
    BY <1>8, <1>9, <2>1
  <2>4. a = b
    BY <2>2, <2>3, SeqEqual
  <2> QED
    BY <2>1, <2>4
<1> QED
  BY <1>1, <1>2, <1>3, <1>6, <1>7, <1>10

(* Fewer letters are held back than make a marker. *)
LEMMA SafeFacts ==
  ASSUME NEW s \in Seq(Letters)
  PROVE  SafeLen(s) \in 0..Len(s)
<1>1. Len(s) \in Nat /\ Len(Marker) \in Nat /\ Len(Marker) >= 1
  BY Letter, MarkerFacts
<1> QED
  BY <1>1 DEF SafeLen

(* No mark can begin, later, in what is safe. *)
LEMMA SafeStays ==
  ASSUME NEW s \in Seq(Letters), NEW t \in Seq(Letters), IsPrefixOf(s, t),
         MarkedAt(s) = {}
  PROVE  SafeLen(s) <= Len(Before(t)) /\ SafeLen(s) <= SafeLen(t)
<1>1. /\ Len(s) \in Nat /\ Len(t) \in Nat /\ Len(s) <= Len(t)
      /\ Len(Marker) \in Nat /\ Len(Marker) >= 1
  BY Letter, Prefix, MarkerFacts
<1>2. SafeLen(s) <= SafeLen(t) /\ SafeLen(s) <= Len(t)
  BY <1>1 DEF SafeLen
<1>3. CASE MarkedAt(t) = {}
  BY <1>2, <1>3, BeforeFacts
<1>4. CASE MarkedAt(t) # {}
  <2>1. PICK g \in MarkedAt(t) :
          g - 1 \in 0..Len(t) /\ Before(t) = SubSeq(t, 1, g - 1)
    BY <1>4, FirstMark
  <2>2. g \in Int
    BY DEF MarkedAt
  <2>3. ~ (g <= Len(s) - Len(Marker) + 1)
    BY <2>1, MarksStay
  <2>4. SafeLen(s) <= g - 1
    BY <1>1, <2>1, <2>2, <2>3 DEF SafeLen
  <2>5. Len(SubSeq(t, 1, g - 1)) = g - 1
    BY <2>1, Cutting
  <2> QED
    BY <1>2, <2>1, <2>4, <2>5
<1> QED
  BY <1>3, <1>4

(* A set of numbers up to n has a greatest one. *)
LEMMA GreatestExists ==
  ASSUME NEW n \in Nat, NEW T \in SUBSET (1..n), T # {}
  PROVE  \E m \in T : \A k \in T : k <= m
<1> DEFINE U == {k \in 1..n : n + 1 - k \in T}
<1>1. ASSUME NEW k \in T PROVE n + 1 - k \in U
  <2>1. n + 1 - k \in 1..n /\ n + 1 - (n + 1 - k) = k
    OBVIOUS
  <2> QED
    BY <2>1
<1>2. U \in SUBSET (1..n) /\ U # {}
  BY <1>1
<1>3. PICK m \in U : \A k \in U : m <= k
  <2> HIDE DEF U
  <2> QED
    BY <1>2, SmallestExists
<1>4. n + 1 - m \in T /\ m \in 1..n
  BY <1>3
<1>5. ASSUME NEW k \in T PROVE k <= n + 1 - m
  <2>1. m <= n + 1 - k
    BY <1>1, <1>3
  <2> QED
    BY <1>4, <2>1
<1> QED
  BY <1>4, <1>5

(* One question is left at most: the text is cut behind a question mark or a
   full stop, and so between two characters. *)
LEMMA QuestionIsWhole ==
  ASSUME NEW s \in Seq(Letters), WholeCharacters(s)
  PROVE  /\ EnforceSingleQuestion(s) \in Seq(Letters)
         /\ WholeCharacters(EnforceSingleQuestion(s))
<1>1. PICK marks : marks = {i \in DOMAIN s : s[i] = "?"}
  OBVIOUS
<1>2. Len(s) \in Nat /\ DOMAIN s = 1..Len(s)
  BY Letter
<1>3. PICK first, others :
        /\ first = CHOOSE i \in marks : \A j \in marks : i <= j
        /\ others = marks \ {first}
  OBVIOUS
<1>4. PICK second : second = CHOOSE i \in others : \A j \in others : i <= j
  OBVIOUS
<1>5. PICK ends : ends = {i \in first + 1 .. second - 1 : s[i] = "."} \union {first}
  OBVIOUS
<1>6. EnforceSingleQuestion(s) =
        IF Cardinality(marks) <= 1 THEN s
        ELSE SubSeq(s, 1, CHOOSE i \in ends : \A j \in ends : j <= i)
  BY <1>1, <1>3, <1>4, <1>5 DEF EnforceSingleQuestion
<1>7. CASE Cardinality(marks) <= 1
  BY <1>6, <1>7
<1>8. CASE ~ (Cardinality(marks) <= 1)
  <2>1. marks # {} /\ \A x : marks # {x}
    <3>1. Cardinality({}) = 0 /\ \A x : Cardinality({x}) = 1
      BY FS_EmptySet, FS_Singleton
    <3>2. ASSUME marks = {} PROVE FALSE
      <4>1. Cardinality(marks) = 0
        BY <3>1, <3>2
      <4> QED
        BY <1>8, <4>1
    <3>3. ASSUME NEW x, marks = {x} PROVE FALSE
      <4>1. Cardinality(marks) = 1
        BY <3>1, <3>3
      <4> QED
        BY <1>8, <4>1
    <3> QED
      BY <3>2, <3>3
  <2>2. marks \in SUBSET (1..Len(s)) /\ \A i \in marks : s[i] = "?"
    BY <1>1, <1>2
  <2>3. first \in marks
    <3>1. \E i \in marks : \A j \in marks : i <= j
      BY <1>2, <2>1, <2>2, SmallestExists
    <3> QED
      BY <1>3, <3>1
  <2>4. others # {} /\ others \in SUBSET (1..Len(s))
    BY <1>3, <2>1, <2>2
  <2>5. second \in others
    <3>1. \E i \in others : \A j \in others : i <= j
      BY <1>2, <2>4, SmallestExists
    <3> QED
      BY <1>4, <3>1
  <2>6. first \in 1..Len(s) /\ second \in 1..Len(s)
    BY <2>2, <2>3, <2>4, <2>5
  <2>7. ends \in SUBSET (1..Len(s)) /\ ends # {}
    BY <1>2, <1>5, <2>6
  <2>8. \A i \in ends : s[i] \in {"?", "."}
    BY <1>5, <2>2, <2>3
  <2>9. PICK e : e = CHOOSE i \in ends : \A j \in ends : j <= i
    OBVIOUS
  <2>10. e \in ends
    <3>1. \E i \in ends : \A j \in ends : j <= i
      BY <1>2, <2>7, GreatestExists
    <3> QED
      BY <2>9, <3>1
  <2>11. e \in 0..Len(s) /\ s[e] # Lead
    <3>1. "?" # Lead /\ "." # Lead
      BY ModelStreamAssumption
    <3>2. s[e] \in {"?", "."}
      BY <2>8, <2>10
    <3>3. e \in 1..Len(s)
      BY <2>7, <2>10
    <3> QED
      BY <1>2, <3>1, <3>2, <3>3
  <2>12. EnforceSingleQuestion(s) = SubSeq(s, 1, e)
    BY <1>6, <1>8, <2>9
  <2> QED
    BY <2>11, <2>12, Cutting, WholePart
<1> QED
  BY <1>7, <1>8

-----------------------------------------------------------------------------
(* The sanitizer on one buffer *)

(* What a turn is left with of a text. *)
LEMMA VisibleFacts ==
  ASSUME NEW s \in Seq(Letters), WholeCharacters(s)
  PROVE  /\ Before(s) \in Seq(Letters) /\ WholeCharacters(Before(s))
         /\ EnforceSingleQuestion(Before(s)) \in Seq(Letters)
         /\ WholeCharacters(EnforceSingleQuestion(Before(s)))
<1>1. Before(s) \in Seq(Letters) /\ WholeCharacters(Before(s))
  BY BeforeFacts, BeforeIsWhole
<1> QED
  BY <1>1, QuestionIsWhole

(* Passing on the letters from n to m after the first n. *)
LEMMA PassedOn ==
  ASSUME NEW s \in Seq(Letters), WholeCharacters(s),
         NEW m \in 0..Len(s), NEW n \in 0..m
  PROVE  /\ From(SubSeq(s, 1, m), n) \in Seq(Letters)
         /\ SubSeq(s, 1, n) \o From(SubSeq(s, 1, m), n) = SubSeq(s, 1, m)
         /\ (\A i \in 1..m : s[i] # Lead) =>
              WholeCharacters(From(SubSeq(s, 1, m), n))
<1>1. PICK part : part = SubSeq(s, 1, m)
  OBVIOUS
<1>2. /\ part \in Seq(Letters) /\ Len(part) = m
      /\ \A i \in 1..m : part[i] = s[i]
  BY <1>1, Cutting
<1>3. n \in 0..Len(part) /\ n \in 0..Len(s) /\ Len(s) \in Nat
  BY <1>2, Letter
<1>4. /\ From(part, n) \in Seq(Letters)
      /\ SubSeq(part, 1, n) \o From(part, n) = part
  BY <1>2, <1>3, TheRest
<1>5. SubSeq(part, 1, n) = SubSeq(s, 1, n)
  <2>1. PICK a, b : a = SubSeq(part, 1, n) /\ b = SubSeq(s, 1, n)
    OBVIOUS
  <2>2. /\ a \in Seq(Letters) /\ Len(a) = n /\ \A i \in 1..n : a[i] = part[i]
        /\ b \in Seq(Letters) /\ Len(b) = n /\ \A i \in 1..n : b[i] = s[i]
    BY <1>2, <1>3, <2>1, Cutting
  <2>3. \A i \in 1..n : a[i] = b[i]
    BY <1>2, <1>3, <2>2
  <2>4. a = b
    BY <2>2, <2>3, SeqEqual
  <2> QED
    BY <2>1, <2>4
<1>6. ASSUME \A i \in 1..m : s[i] # Lead
      PROVE  WholeCharacters(From(part, n))
  <2>1. m = 0 \/ s[m] # Lead
    BY <1>6
  <2>2. WholeCharacters(part)
    BY <1>1, <2>1, WholePart
  <2>3. \A i \in 1..Len(part) : part[i] # Lead
    BY <1>2, <1>6
  <2> QED
    BY <1>2, <1>3, <2>2, <2>3, WholePiece
<1> QED
  BY <1>1, <1>4, <1>5, <1>6

-----------------------------------------------------------------------------
(* Steps of the loop *)

(* What changes neither the buffer nor what was shown. *)
LEMMA ShownStays ==
  ASSUME ShownInv, ReceivedInv,
         UNCHANGED <<mode, sanitizer, shown, received, visible>>,
         UNCHANGED stage \/ (stage # "end" /\ stage' # "end")
  PROVE  ShownInv' /\ ReceivedInv'
<1>1. UNCHANGED <<mode, buffer, blocked, streamedUp, shown, received, visible>>
  BY DEF sanitizer
<1>2. UNCHANGED <<Shown, VisibleContent>>
  BY <1>1 DEF Shown, VisibleContent
<1>3. ShownInv'
  BY <1>1, <1>2 DEF ShownInv
<1>4. ReceivedInv'
  BY <1>1 DEF ReceivedInv
<1> QED
  BY <1>3, <1>4

(* What is shown of a flow's text is within it. *)
LEMMA ShownFacts ==
  ASSUME StreamTypeOK, ShownInv, mode = "flow"
  PROVE  /\ streamedUp \in 0..Len(buffer)
         /\ MarkedAt(buffer) = {} => streamedUp = SafeLen(buffer)
         /\ MarkedAt(buffer) # {} => streamedUp = Len(Before(buffer))
<1>1. buffer \in Seq(Letters) /\ streamedUp = Shown
  BY DEF StreamTypeOK, ShownInv
<1>2. SafeLen(buffer) \in 0..Len(buffer) /\ Len(Before(buffer)) \in 0..Len(buffer)
  BY <1>1, SafeFacts, BeforeFacts
<1> QED
  BY <1>1, <1>2 DEF Shown

(* An event may be skipped only when it has half a character. *)
LEMMA EventKeeps ==
  ASSUME NEW text \in Seq(Letters), shown \in Seq(Letters), ReceivedInv,
         writeSSEAgentLoop(text), UNCHANGED mode,
         \/ WholeCharacters(text)
         \/ mode = "flow" /\ \E i \in DOMAIN shown' : shown'[i] = Lead
  PROVE  shown' \in Seq(Letters) /\ shown' = shown \o text /\ ReceivedInv'
<1>1. shown' = shown \o text /\ shown' \in Seq(Letters)
  BY JoinedText DEF writeSSEAgentLoop
<1>2. CASE mode = "flow" /\ \E i \in DOMAIN shown' : shown'[i] = Lead
  BY <1>1, <1>2 DEF ReceivedInv
<1>3. CASE WholeCharacters(text)
  <2>1. received' = received \o text
    BY <1>3 DEF writeSSEAgentLoop
  <2>2. CASE received = shown
    BY <1>1, <2>1, <2>2 DEF ReceivedInv
  <2>3. CASE mode = "flow" /\ \E i \in DOMAIN shown : shown[i] = Lead
    <3>1. PICK i \in DOMAIN shown : shown[i] = Lead
      BY <2>3
    <3>2. /\ DOMAIN shown = 1..Len(shown) /\ DOMAIN shown' = 1..Len(shown')
          /\ Len(shown) \in Nat /\ Len(shown') \in Nat
      BY <1>1, Letter
    <3>3. PICK longer \in Seq(Letters) : longer = shown \o text
      BY <1>1
    <3>4. Len(longer) = Len(shown) + Len(text) /\ Len(text) \in Nat
      BY <3>3, JoinedText, Letter
    <3>5. longer[i] = shown[i]
      BY <3>1, <3>2, <3>3, JoinedText
    <3>6. Len(shown) <= Len(shown') /\ shown'[i] = shown[i]
      BY <1>1, <3>2, <3>3, <3>4, <3>5
    <3>7. i \in DOMAIN shown' /\ shown'[i] = Lead
      BY <3>1, <3>2, <3>6
    <3>8. mode' = "flow" /\ \E k \in DOMAIN shown' : shown'[k] = Lead
      BY <2>3, <3>7
    <3> QED
      BY <1>1, <3>8, Zenon DEF ReceivedInv
  <2> QED
    BY <1>1, <2>2, <2>3 DEF ReceivedInv
<1> QED
  BY <1>1, <1>2, <1>3

(* The flow's sanitizer passes on what no marker can reach any more. *)
LEMMA FlowProcess ==
  ASSUME StreamTypeOK, TextInv, ShownInv, ReceivedInv,
         NEW text \in Seq(Letters), WholeCharacters(text),
         mode = "flow", ~ blocked, stage # "end", UNCHANGED mode, stage' # "end",
         Process(text)
  PROVE  /\ buffer' = buffer \o text /\ shown' \in Seq(Letters)
         /\ blocked' \in BOOLEAN /\ streamedUp' \in Nat
         /\ ShownInv' /\ ReceivedInv'
<1>1. PICK full \in Seq(Letters) : full = buffer \o text
  BY JoinedText DEF StreamTypeOK
<1>2. /\ buffer \in Seq(Letters) /\ shown \in Seq(Letters)
      /\ MarkedAt(buffer) = {} /\ streamedUp = SafeLen(buffer)
      /\ shown = SubSeq(buffer, 1, streamedUp)
  BY ShownFacts DEF StreamTypeOK, ShownInv
<1>3. IsPrefixOf(buffer, full) /\ WholeCharacters(full)
  BY <1>1, <1>2, JoinedText, WholeJoined DEF TextInv
<1>4. PICK upTo : upTo = IF MarkedAt(full) # {} THEN Len(Before(full))
                                                ELSE SafeLen(full)
  OBVIOUS
<1>5. /\ buffer' = full
      /\ blocked' = (MarkedAt(full) # {})
      /\ streamedUp' = IF upTo > streamedUp THEN upTo ELSE streamedUp
      /\ writeSSEAgentLoop(From(SubSeq(full, 1, upTo), streamedUp))
  BY <1>1, <1>4 DEF Process
<1>6. upTo \in 0..Len(full) /\ Len(full) \in Nat
  BY <1>4, SafeFacts, BeforeFacts, Letter
<1>7. streamedUp \in 0..Len(buffer) /\ Len(buffer) \in Nat
  BY <1>2, SafeFacts, Letter
<1>8. streamedUp <= upTo
  BY <1>2, <1>3, <1>4, SafeStays
<1>9. streamedUp' = upTo /\ streamedUp \in 0..upTo
  BY <1>5, <1>6, <1>7, <1>8
<1>10. PICK piece \in Seq(Letters) :
         /\ piece = From(SubSeq(full, 1, upTo), streamedUp)
         /\ SubSeq(full, 1, streamedUp) \o piece = SubSeq(full, 1, upTo)
         /\ (\A i \in 1..upTo : full[i] # Lead) => WholeCharacters(piece)
  BY <1>3, <1>6, <1>9, PassedOn
<1>11. shown = SubSeq(full, 1, streamedUp)
  <2>1. /\ Len(buffer) <= Len(full) /\ \A i \in 1..Len(buffer) : buffer[i] = full[i]
    BY <1>2, <1>3, Prefix
  <2>2. streamedUp \in 0..Len(full)
    BY <1>6, <1>7, <2>1
  <2>3. PICK n \in Nat : n = streamedUp
    BY <1>7
  <2>4. PICK a, b : a = SubSeq(buffer, 1, n) /\ b = SubSeq(full, 1, n)
    OBVIOUS
  <2>5. /\ a \in Seq(Letters) /\ Len(a) = n /\ \A i \in 1..n : a[i] = buffer[i]
        /\ b \in Seq(Letters) /\ Len(b) = n /\ \A i \in 1..n : b[i] = full[i]
    BY <1>2, <1>7, <2>2, <2>3, <2>4, Cutting
  <2>6. \A i \in 1..n : a[i] = b[i]
    <3>1. \A i \in 1..n : i \in 1..Len(buffer)
      BY <1>7, <2>3
    <3> QED
      BY <2>1, <2>5, <3>1
  <2>7. a = b
    BY <2>5, <2>6, SeqEqual
  <2> QED
    BY <1>2, <2>3, <2>4, <2>7
<1>12. writeSSEAgentLoop(piece) /\ shown' = SubSeq(full, 1, upTo)
  BY <1>5, <1>10, <1>11 DEF writeSSEAgentLoop
<1>13. \/ WholeCharacters(piece)
       \/ mode = "flow" /\ \E i \in DOMAIN shown' : shown'[i] = Lead
  <2>1. ASSUME NEW i \in 1..upTo, full[i] = Lead
        PROVE  i \in DOMAIN shown' /\ shown'[i] = Lead
    <3>1. PICK part : part = SubSeq(full, 1, upTo)
      OBVIOUS
    <3>2. /\ part \in Seq(Letters) /\ Len(part) = upTo
          /\ \A k \in 1..upTo : part[k] = full[k]
      BY <1>6, <3>1, Cutting
    <3>3. i \in DOMAIN part /\ part[i] = Lead
      BY <2>1, <3>2, Letter
    <3> QED
      BY <1>12, <3>1, <3>3
  <2> QED
    BY <1>10, <2>1
<1>14. shown' \in Seq(Letters) /\ ReceivedInv'
  BY <1>2, <1>12, <1>13, EventKeeps
<1>15. ShownInv'
  <2>1. streamedUp' = Shown'
    BY <1>4, <1>5, <1>9 DEF Shown
  <2>2. mode' = "flow"
    OBVIOUS
  <2> QED
    BY <1>5, <1>9, <1>12, <2>1, <2>2 DEF ShownInv
<1> QED
  BY <1>1, <1>5, <1>6, <1>9, <1>14, <1>15

(* Each way of reading a chunk keeps to its own. *)
LEMMA ProcessKeeps ==
  ASSUME StreamTypeOK, TextInv, ShownInv, ReceivedInv,
         NEW text \in Seq(Letters), WholeCharacters(text),
         stage # "end", UNCHANGED mode, stage' # "end", Process(text)
  PROVE  /\ buffer' = IF blocked THEN buffer ELSE buffer \o text
         /\ shown' \in Seq(Letters)
         /\ blocked' \in BOOLEAN /\ streamedUp' \in Nat /\ (blocked => blocked')
         /\ ShownInv' /\ ReceivedInv'
<1>1. /\ buffer \in Seq(Letters) /\ shown \in Seq(Letters) /\ mode \in Modes
      /\ blocked \in BOOLEAN /\ streamedUp \in Nat
  BY DEF StreamTypeOK
<1>2. CASE mode = "plain"
  <2>1. /\ buffer' = buffer \o text /\ ~ blocked
        /\ UNCHANGED <<blocked, streamedUp>> /\ writeSSEAgentLoop(text)
    BY <1>2 DEF Process, ShownInv
  <2>2. /\ shown' \in Seq(Letters) /\ shown' = shown \o text /\ ReceivedInv'
    BY <1>1, <2>1, EventKeeps
  <2>3. ShownInv'
    BY <1>2, <2>1, <2>2 DEF ShownInv
  <2> QED
    BY <1>1, <2>1, <2>2, <2>3
<1>3. CASE mode = "collecting"
  <2>1. /\ buffer' = buffer \o text /\ ~ blocked
        /\ UNCHANGED <<shown, received, blocked, streamedUp>>
    BY <1>3 DEF Process, ShownInv
  <2>2. shown = SubSeq(buffer, 1, 0) /\ streamedUp = 0
    BY <1>3 DEF ShownInv
  <2>3. SubSeq(buffer, 1, 0) = <<>> /\ SubSeq(buffer', 1, 0) = <<>>
    BY SubSeqEmpty
  <2>4. ShownInv'
    BY <1>3, <2>1, <2>2, <2>3 DEF ShownInv
  <2>5. ReceivedInv'
    BY <2>1 DEF ReceivedInv
  <2> QED
    BY <1>1, <2>1, <2>4, <2>5
<1>4. CASE mode = "flow" /\ ~ blocked
  BY <1>4, FlowProcess
<1>5. CASE mode = "flow" /\ blocked
  <2>1. UNCHANGED <<shown, received, sanitizer>>
    BY <1>5 DEF Process
  <2>2. UNCHANGED <<shown, received, buffer, blocked, streamedUp>>
    BY <2>1 DEF sanitizer
  <2>3. ShownInv' /\ ReceivedInv'
    <3>1. UNCHANGED Shown
      BY <2>2 DEF Shown
    <3>2. ShownInv'
      BY <1>5, <2>2, <3>1 DEF ShownInv
    <3> QED
      BY <2>2, <3>2 DEF ReceivedInv
  <2> QED
    BY <1>1, <1>5, <2>2, <2>3
<1> QED
  BY <1>1, <1>2, <1>3, <1>4, <1>5 DEF Modes

-----------------------------------------------------------------------------
(* Lines *)

(* What a client makes of a line: its text in the first chunk, the calls with
   all of their arguments after the last line, and at most one last chunk. *)
Fresh(q, text, last, args) ==
  /\ q \in Seq(Chunk)
  /\ (IF q = <<>> THEN <<>> ELSE q[1].content) = text
  /\ \A i \in DOMAIN q : i > 1 => q[i].content = <<>>
  /\ \A i \in DOMAIN q : q[i].done => i = Len(q) /\ last
  /\ \A i \in DOMAIN q : \A call \in q[i].call :
       last /\ call.args = args[call.index]
  /\ last => {call.index : call \in UNION {q[i].call : i \in DOMAIN q}}
               = {i \in Indexes : args[i] # <<>>}

(* A prefix of a prefix. *)
LEMMA Longest ==
  ASSUME NEW r \in Seq(Letters), NEW s \in Seq(Letters), NEW t \in Seq(Letters),
         IsPrefixOf(r, s), IsPrefixOf(s, t)
  PROVE  IsPrefixOf(r, t)
<1>1. Len(r) \in Nat /\ Len(s) \in Nat /\ Len(t) \in Nat
  BY Letter
<1>2. Len(r) <= Len(s) /\ \A i \in 1..Len(r) : r[i] = s[i]
  BY Prefix
<1>3. Len(s) <= Len(t) /\ \A i \in 1..Len(s) : s[i] = t[i]
  BY Prefix
<1>4. Len(r) <= Len(t) /\ \A i \in 1..Len(r) : r[i] = t[i]
  BY <1>1, <1>2, <1>3
<1> QED
  BY <1>4, Prefix

(* Nothing joined to a text. *)
LEMMA Unjoined ==
  ASSUME NEW s \in Seq(Letters)
  PROVE  s \o <<>> = s /\ <<>> \in Seq(Letters) /\ WholeCharacters(<<>>)
<1>1. s \o <<>> = s /\ <<>> \in Seq(Letters)
  BY ConcatEmptySeq, EmptySeq
<1>2. WholeCharacters(<<>>)
  BY DEF WholeCharacters
<1> QED
  BY <1>1, <1>2

(* The arguments stay sequences of fragments. *)
LEMMA LongerFacts ==
  ASSUME NEW of \in SUBSET Indexes, fragments \in Args
  PROVE  /\ Longer(fragments, of) \in Args
         /\ of = {} => Longer(fragments, of) = fragments
<1>1. ASSUME NEW i \in Indexes
      PROVE  Append(fragments[i], Len(fragments[i]) + 1) \in Seq(Nat)
  <2>1. fragments[i] \in Seq(Nat)
    BY DEF Args
  <2>2. Len(fragments[i]) + 1 \in Nat
    BY <2>1, LenProperties
  <2> QED
    BY <2>1, <2>2, AppendProperties
<1>2. \A i \in Indexes : fragments[i] \in Seq(Nat)
  BY DEF Args
<1>3. Longer(fragments, of) \in Args
  BY <1>1, <1>2 DEF Longer, Args
<1>4. ASSUME of = {} PROVE Longer(fragments, of) = fragments
  BY <1>4 DEF Longer, Args
<1> QED
  BY <1>3, <1>4

(* A client that has chunks for a line it was waiting for. *)
LEMMA LineKeeps ==
  ASSUME StreamInv, NEW text \in Texts, NEW of \in SUBSET Indexes,
         NEW last \in BOOLEAN, Line(text, of, last), acc' = fragments',
         client = "openai" \/ of = {},
         Fresh(queue', text, last, fragments')
  PROVE  StreamInv'
<1>1. /\ reader = "scan" /\ queue = <<>> /\ body = "open"
      /\ sent' = sent \o text /\ fragments' = Longer(fragments, of)
      /\ body' = IF last THEN "over" ELSE "open"
      /\ UNCHANGED <<client, mode, reader, cancelled, loopVars>>
  BY DEF Line
<1>2. /\ UNCHANGED <<client, mode, reader, cancelled>>
      /\ UNCHANGED <<sanitizer, toolCalls, shown, received, visible, stage>>
      /\ UNCHANGED <<buffer, blocked, streamedUp>>
  BY <1>1 DEF loopVars, sanitizer
<1>3. StreamTypeOK /\ QueueInv /\ TextInv /\ ShownInv /\ ReceivedInv /\ CallsInv
  BY DEF StreamInv
<1>4. text \in Seq(Letters) /\ WholeCharacters(text)
  BY TextFacts
<1>5. sent \in Seq(Letters) /\ buffer \in Seq(Letters) /\ fragments \in Args
  BY <1>3 DEF StreamTypeOK
<1>6. /\ sent' \in Seq(Letters) /\ IsPrefixOf(sent, sent')
  <2>1. PICK all : all = sent \o text
    OBVIOUS
  <2>2. all \in Seq(Letters) /\ IsPrefixOf(sent, all)
    BY <1>4, <1>5, <2>1, JoinedText
  <2> QED
    BY <1>1, <2>1, <2>2
<1>7. queue' \in Seq(Chunk) /\ fragments' \in Args
  <2>1. Longer(fragments, of) \in Args
    BY <1>5, LongerFacts
  <2> QED
    BY <1>1, <2>1 DEF Fresh
<1>8. StreamTypeOK'
  <2>1. /\ client \in Clients /\ mode \in Modes /\ shown \in Seq(Letters)
        /\ reader = "scan" /\ cancelled \in BOOLEAN /\ blocked \in BOOLEAN
        /\ streamedUp \in Nat /\ stage \in {"read", "flush", "end", "gone"}
    BY <1>1, <1>3 DEF StreamTypeOK
  <2>2. body' \in {"open", "over", "cut"}
    BY <1>1
  <2> QED
    BY <1>2, <1>5, <1>6, <1>7, <2>1, <2>2 DEF StreamTypeOK
<1>9. QueueInv'
  <2>1. stage \notin {"flush", "end"}
    BY <1>1, <1>3 DEF QueueInv
  <2>2. last => body' # "open"
    BY <1>1
  <2>3. \A i \in DOMAIN queue' : i > 1 => queue'[i].content = <<>>
    BY DEF Fresh
  <2>4. \A i \in DOMAIN queue' :
          queue'[i].done => i = Len(queue') /\ body' # "open"
    BY <2>2 DEF Fresh
  <2> QED
    BY <1>1, <1>2, <2>1, <2>3, <2>4 DEF QueueInv
<1>10. TextInv'
  <2>1. Pending' = text
    BY DEF Fresh, Pending
  <2>2. WholeCharacters(sent')
    BY <1>1, <1>3, <1>4, <1>5, WholeJoined DEF TextInv
  <2>3. IsPrefixOf(buffer, sent')
    BY <1>3, <1>5, <1>6, Longest DEF TextInv
  <2>4. ASSUME ~ blocked PROVE buffer \o text = sent'
    <3>1. Pending = <<>> /\ ~ GaveUp
      BY <1>1 DEF Pending, GaveUp
    <3>2. buffer \o <<>> = sent
      BY <1>3, <2>4, <3>1 DEF TextInv
    <3>3. buffer = sent
      BY <1>5, <3>2, Unjoined
    <3> QED
      BY <1>1, <3>3
  <2>5. WholeCharacters(buffer)
    BY <1>3 DEF TextInv
  <2>6. WholeCharacters(sent)' /\ WholeCharacters(buffer)'
    BY <1>2, <2>2, <2>5
  <2>7. WholeCharacters(Pending)'
    BY <1>4, <2>1
  <2> QED
    BY <1>2, <2>1, <2>2, <2>3, <2>4, <2>5, <2>6, <2>7, <1>4 DEF TextInv
<1>11. ShownInv' /\ ReceivedInv'
  BY <1>2, <1>3, ShownStays
<1>12. CallsInv'
  <2>1. toolCalls = {}
    BY <1>1, <1>3 DEF CallsInv, Whole, Calls
  <2>2. Calls' = UNION {queue'[i].call : i \in DOMAIN queue'}
    BY <1>2, <2>1 DEF Calls
  <2>3. Whole(Calls)'
    <3>1. \A i \in DOMAIN queue' : \A call \in queue'[i].call :
            last /\ call.args = fragments'[call.index]
      BY DEF Fresh
    <3>2. \A call \in Calls' : body' = "over" /\ call.args = fragments'[call.index]
      BY <1>1, <2>2, <3>1
    <3> QED
      BY <3>2 DEF Whole
  <2>4. client' # "openai" => fragments' = [i \in Indexes |-> <<>>]
    <3>1. client # "openai" => fragments = [i \in Indexes |-> <<>>]
      BY <1>3 DEF CallsInv
    <3>2. of = {} => fragments' = fragments
      BY <1>1, <1>5, LongerFacts
    <3> QED
      BY <1>2, <3>1, <3>2
  <2>5. body' = "over" =>
          {call.index : call \in Calls'} = {i \in Indexes : fragments'[i] # <<>>}
    BY <1>1, <2>2 DEF Fresh
  <2> QED
    BY <2>3, <2>4, <2>5 DEF CallsInv
<1> QED
  BY <1>8, <1>9, <1>10, <1>11, <1>12 DEF StreamInv

(* A line that makes no chunk, or one. *)
LEMMA OneChunk ==
  ASSUME NEW text \in Seq(Letters), NEW last \in BOOLEAN, NEW args
  PROVE  /\ text = <<>> /\ ~ last => Fresh(<<>>, text, last, args)
         /\ \A chunk \in Chunk :
              /\ chunk.content = text /\ chunk.call = {} /\ (chunk.done => last)
              /\ \A i \in Indexes : args[i] = <<>>
              => Fresh(<<chunk>>, text, last, args)
         /\ \A chunk \in Chunk :
              /\ chunk.content = text /\ chunk.call = {} /\ ~ chunk.done
              /\ ~ last
              => Fresh(<<chunk>>, text, last, args)
<1>1. <<>> \in Seq(Chunk) /\ DOMAIN <<>> = {}
  BY EmptySeq
<1>2. ASSUME text = <<>>, ~ last PROVE Fresh(<<>>, text, last, args)
  BY <1>1, <1>2 DEF Fresh
<1>3. ASSUME NEW chunk \in Chunk, chunk.content = text, chunk.call = {},
             chunk.done => last, (\A i \in Indexes : args[i] = <<>>) \/ ~ last
      PROVE  Fresh(<<chunk>>, text, last, args)
  <2>1. PICK q : q = <<chunk>>
    OBVIOUS
  <2>2. q \in Seq(Chunk) /\ Len(q) = 1 /\ q[1] = chunk /\ q # <<>>
    <3> HIDE DEF Chunk
    <3> QED
      BY <2>1
  <2>3. DOMAIN q = {1}
    <3> HIDE DEF Chunk
    <3>1. DOMAIN q = 1..Len(q)
      BY <2>2, LenProperties
    <3> QED
      BY <2>2, <3>1
  <2>4. (IF q = <<>> THEN <<>> ELSE q[1].content) = text
    BY <1>3, <2>2
  <2>5. \A i \in DOMAIN q : i > 1 => q[i].content = <<>>
    BY <2>3
  <2>6. \A i \in DOMAIN q : q[i].done => i = Len(q) /\ last
    BY <1>3, <2>2, <2>3
  <2>7. \A i \in DOMAIN q : q[i].call = {}
    BY <1>3, <2>2, <2>3
  <2>8. UNION {q[i].call : i \in DOMAIN q} = {}
    BY <2>7
  <2>9. last => {i \in Indexes : args[i] # <<>>} = {}
    BY <1>3
  <2>10. Fresh(q, text, last, args)
    <3> HIDE DEF Chunk
    <3> QED
      BY <2>2, <2>4, <2>5, <2>6, <2>7, <2>8, <2>9 DEF Fresh
  <2> QED
    BY <2>1, <2>10
<1> QED
  BY <1>2, <1>3

(* Without calls there are no fragments, and no chunk of a line has a call. *)
LEMMA ChunkFacts ==
  ASSUME NEW text \in Seq(Letters), NEW last \in BOOLEAN
  PROVE  /\ Done \in Chunk /\ Done.content = <<>> /\ Done.call = {} /\ Done.done
         /\ Content(text) \in Chunk /\ Content(text).content = text
         /\ Content(text).call = {} /\ ~ Content(text).done
         /\ \A chunk : chunk = [Content(text) EXCEPT !.done = last] =>
              /\ chunk \in Chunk /\ chunk.content = text
              /\ chunk.call = {} /\ (chunk.done => last)
<1>1. <<>> \in Seq(Letters)
  BY EmptySeq
<1>2. {} \in SUBSET [index : Indexes, args : Seq(Nat)]
  OBVIOUS
<1>3. /\ Done \in Chunk /\ Done.content = <<>> /\ Done.call = {} /\ Done.done
  BY <1>1, <1>2 DEF Done, Chunk
<1>4. /\ Content(text) \in Chunk /\ Content(text).content = text
      /\ Content(text).call = {} /\ ~ Content(text).done
  BY <1>2 DEF Content, Chunk
<1>5. ASSUME NEW chunk, chunk = [Content(text) EXCEPT !.done = last]
      PROVE  /\ chunk \in Chunk /\ chunk.content = text
             /\ chunk.call = {} /\ (chunk.done => last)
  <2>1. chunk = [content |-> text, call |-> {}, done |-> last]
    BY <1>5 DEF Content
  <2> QED
    BY <1>2, <2>1 DEF Chunk
<1> QED
  BY <1>3, <1>4, <1>5

(* The clients without tools. *)
LEMMA KimiKeeps ==
  ASSUME StreamInv, NEW text \in Texts, NEW last \in BOOLEAN, KimiLine(text, last)
  PROVE  StreamInv'
<1>1. /\ client = "kimi" /\ (last => text = <<>>)
      /\ Line(text, {}, last)
      /\ queue' = IF last THEN <<Done>>
                  ELSE IF text = <<>> THEN <<>> ELSE <<Content(text)>>
      /\ UNCHANGED acc
  BY DEF KimiLine
<1>2. text \in Seq(Letters)
  BY TextFacts
<1>3. acc' = fragments' /\ \A i \in Indexes : fragments'[i] = <<>>
  <2>1. fragments \in Args /\ acc = fragments
    BY DEF StreamInv, StreamTypeOK
  <2>2. fragments' = fragments
    BY <1>1, <2>1, LongerFacts DEF Line
  <2>3. fragments = [i \in Indexes |-> <<>>]
    BY <1>1 DEF StreamInv, CallsInv
  <2> QED
    BY <1>1, <2>1, <2>2, <2>3
<1>4. PICK args : args = fragments'
  OBVIOUS
<1>5. Fresh(queue', text, last, args)
  <2>1. \A i \in Indexes : args[i] = <<>>
    BY <1>3, <1>4
  <2>2. CASE last
    <3>1. Done \in Chunk /\ Done.content = text /\ Done.call = {}
      BY <1>1, <1>2, <2>2, ChunkFacts
    <3>2. Fresh(<<Done>>, text, last, args)
      <4> HIDE DEF Chunk, Done, Fresh
      <4> QED
        BY <1>2, <2>1, <2>2, <3>1, OneChunk
    <3> QED
      BY <1>1, <2>2, <3>2
  <2>3. CASE ~ last /\ text = <<>>
    BY <1>1, <1>2, <2>3, OneChunk
  <2>4. CASE ~ last /\ text # <<>>
    <3>1. PICK chunk : chunk = Content(text)
      OBVIOUS
    <3>2. chunk \in Chunk /\ chunk.content = text /\ chunk.call = {} /\ ~ chunk.done
      BY <1>2, <3>1, ChunkFacts
    <3>3. Fresh(<<chunk>>, text, last, args)
      <4> HIDE DEF Chunk, Fresh
      <4> QED
        BY <1>2, <2>4, <3>2, OneChunk
    <3> QED
      BY <1>1, <2>4, <3>1, <3>3
  <2> QED
    BY <2>2, <2>3, <2>4
<1> QED
  BY <1>1, <1>3, <1>4, <1>5, LineKeeps

(* Of Gemini and Ollama each line is a chunk. *)
LEMMA WholeLineKeeps ==
  ASSUME StreamInv, NEW text \in Texts, NEW last \in BOOLEAN,
         client # "openai", WholeLine(text, last)
  PROVE  StreamInv'
<1>1. /\ Line(text, {}, last)
      /\ queue' = <<[Content(text) EXCEPT !.done = last]>>
      /\ UNCHANGED acc
  BY DEF WholeLine
<1>2. text \in Seq(Letters)
  BY TextFacts
<1>3. acc' = fragments' /\ \A i \in Indexes : fragments'[i] = <<>>
  <2>1. fragments \in Args /\ acc = fragments
    BY DEF StreamInv, StreamTypeOK
  <2>2. fragments' = fragments
    BY <1>1, <2>1, LongerFacts DEF Line
  <2>3. fragments = [i \in Indexes |-> <<>>]
    BY DEF StreamInv, CallsInv
  <2> QED
    BY <1>1, <2>1, <2>2, <2>3
<1>4. PICK args : args = fragments'
  OBVIOUS
<1>5. PICK chunk : chunk = [Content(text) EXCEPT !.done = last]
  OBVIOUS
<1>6. /\ chunk \in Chunk /\ chunk.content = text
      /\ chunk.call = {} /\ (chunk.done => last)
  BY <1>2, <1>5, ChunkFacts
<1>7. Fresh(<<chunk>>, text, last, args)
  <2>1. \A i \in Indexes : args[i] = <<>>
    BY <1>3, <1>4
  <2> HIDE DEF Chunk, Fresh
  <2> QED
    BY <1>2, <1>6, <2>1, OneChunk
<1>8. queue' = <<chunk>>
  BY <1>1, <1>5
<1> QED
  BY <1>1, <1>3, <1>4, <1>7, <1>8, LineKeeps

(* The last chunks have every call once, with its arguments, and end in the
   last one: in whatever order a Go map gives them. *)
LEMMA FinalChunks ==
  ASSUME NEW args \in Args, NEW order \in Orders({i \in Indexes : args[i] # <<>>})
  PROVE  Fresh(emitFinal(order, args), <<>>, TRUE, args)
<1> DEFINE S == {i \in Indexes : args[i] # <<>>}
<1>1. PICK n \in Nat : n = Cardinality(S)
  <2>1. IsFiniteSet(Indexes) /\ S \subseteq Indexes
    BY ModelStreamAssumption
  <2>2. IsFiniteSet(S)
    BY <2>1, FS_Subset
  <2> QED
    BY <2>2, FS_CardinalityType
<1>2. order \in [1..n -> S] /\ {order[i] : i \in DOMAIN order} = S
  BY <1>1 DEF Orders
<1>3. order \in Seq(S) /\ Len(order) = n
  <2>1. order \in Seq(S)
    BY <1>2, SeqDef
  <2>2. DOMAIN order = 1..Len(order) /\ Len(order) \in Nat
    BY <2>1, LenProperties
  <2> QED
    BY <1>2, <2>1, <2>2
<1>4. PICK q : q = emitFinal(order, args)
  OBVIOUS
<1>5. q = [k \in 1..n + 1 |->
             IF k <= n THEN Call(order[k], args[order[k]]) ELSE Done]
  BY <1>3, <1>4 DEF emitFinal
<1>6. ASSUME NEW i \in 1..n
      PROVE  /\ Call(order[i], args[order[i]]) \in Chunk
             /\ q[i].content = <<>> /\ ~ q[i].done
             /\ q[i].call = {[index |-> order[i], args |-> args[order[i]]]}
  <2>1. order[i] \in Indexes /\ args[order[i]] \in Seq(Nat)
    BY <1>2 DEF Args
  <2>2. <<>> \in Seq(Letters)
    BY EmptySeq
  <2>3. q[i] = Call(order[i], args[order[i]])
    BY <1>1, <1>5
  <2>4. Call(order[i], args[order[i]]) \in Chunk
    BY <2>1, <2>2 DEF Call, Chunk
  <2> QED
    BY <2>3, <2>4 DEF Call
<1>7. /\ Done \in Chunk /\ Done.content = <<>> /\ Done.call = {} /\ Done.done
      /\ q[n + 1] = Done
  <2>1. <<>> \in Seq(Letters)
    BY EmptySeq
  <2>2. q[n + 1] = Done
    BY <1>1, <1>5
  <2> QED
    BY <2>1, <2>2, ChunkFacts
<1>8. q \in [1..n + 1 -> Chunk] /\ q \in Seq(Chunk) /\ Len(q) = n + 1 /\ q # <<>>
  <2>1. \A i \in 1..n : Call(order[i], args[order[i]]) \in Chunk
    BY <1>6
  <2> HIDE DEF Chunk, Call, Done
  <2>2. q \in [1..n + 1 -> Chunk]
    BY <1>1, <1>5, <1>7, <2>1
  <2>3. q \in Seq(Chunk)
    <3>1. n + 1 \in Nat
      OBVIOUS
    <3>2. q \in UNION {[1..k -> Chunk] : k \in Nat}
      BY <2>2, <3>1
    <3> QED
      BY <3>2, SeqDef
  <2>4. DOMAIN q = 1..Len(q) /\ Len(q) \in Nat /\ DOMAIN q = 1..n + 1
    BY <2>2, <2>3, LenProperties
  <2>5. Len(q) = n + 1
    BY <1>1, <2>4
  <2>6. q # <<>>
    BY <1>1, <2>3, <2>5, EmptySeq
  <2> QED
    BY <2>2, <2>3, <2>5, <2>6
<1>9. DOMAIN q = 1..n + 1
  BY <1>8
<1>10. \A i \in DOMAIN q : i \in 1..n \/ i = n + 1
  BY <1>1, <1>9
<1>11. \A i \in DOMAIN q : q[i].content = <<>>
  BY <1>6, <1>7, <1>10
<1>12. \A i \in DOMAIN q : q[i].done => i = Len(q)
  BY <1>6, <1>8, <1>10
<1>13. \A i \in DOMAIN q : \A call \in q[i].call : call.args = args[call.index]
  BY <1>6, <1>7, <1>10
<1>14. {call.index : call \in UNION {q[i].call : i \in DOMAIN q}} = S
  <2>1. ASSUME NEW i \in DOMAIN q, NEW call \in q[i].call PROVE call.index \in S
    BY <1>2, <1>6, <1>7, <1>10
  <2>2. ASSUME NEW x \in S
        PROVE  \E i \in DOMAIN q : \E call \in q[i].call : call.index = x
    <3>1. PICK i \in 1..n : order[i] = x
      BY <1>2
    <3>2. q[i].call = {[index |-> x, args |-> args[x]]} /\ i \in DOMAIN q
      BY <1>1, <1>6, <1>9, <3>1
    <3>3. PICK call : call = [index |-> x, args |-> args[x]]
      OBVIOUS
    <3>4. call \in q[i].call /\ call.index = x
      BY <3>2, <3>3
    <3> QED
      BY <3>2, <3>4
  <2>3. PICK all : all = UNION {q[i].call : i \in DOMAIN q}
    OBVIOUS
  <2>4. \A call \in all : call.index \in S
    BY <2>1, <2>3
  <2>5. \A x \in S : \E call \in all : call.index = x
    BY <2>2, <2>3
  <2> QED
    BY <2>3, <2>4, <2>5
<1>15. 1 \in DOMAIN q
  BY <1>1, <1>9
<1>16. Fresh(q, <<>>, TRUE, args)
  <2> HIDE DEF Chunk
  <2> QED
    BY <1>8, <1>11, <1>12, <1>13, <1>14, <1>15 DEF Fresh
<1> QED
  BY <1>4, <1>16

(* A chunk of text before the others of its line. *)
LEMMA TextFirst ==
  ASSUME NEW text \in Seq(Letters), NEW args, NEW q,
         Fresh(q, <<>>, TRUE, args)
  PROVE  Fresh(<<Content(text)>> \o q, text, TRUE, args)
<1>1. PICK chunk : chunk = Content(text)
  OBVIOUS
<1>2. chunk \in Chunk /\ chunk.content = text /\ chunk.call = {} /\ ~ chunk.done
  BY <1>1, ChunkFacts
<1> HIDE DEF Chunk
<1>3. q \in Seq(Chunk) /\ Len(q) \in Nat /\ DOMAIN q = 1..Len(q)
  BY LenProperties DEF Fresh
<1>4. PICK all : all = <<chunk>> \o q
  OBVIOUS
<1>5. /\ all \in Seq(Chunk) /\ Len(all) = 1 + Len(q)
      /\ all[1] = chunk /\ \A i \in 1..Len(q) : all[i + 1] = q[i]
  <2>1. <<chunk>> \in Seq(Chunk) /\ Len(<<chunk>>) = 1 /\ <<chunk>>[1] = chunk
    BY <1>2
  <2>2. PICK one : one = <<chunk>>
    OBVIOUS
  <2>3. /\ all \in Seq(Chunk) /\ Len(all) = Len(one) + Len(q)
        /\ \A i \in 1..Len(one) + Len(q) :
             all[i] = IF i <= Len(one) THEN one[i] ELSE q[i - Len(one)]
    BY <1>3, <1>4, <2>1, <2>2, ConcatProperties
  <2>4. all[1] = chunk
    BY <1>3, <2>1, <2>2, <2>3
  <2>5. ASSUME NEW i \in 1..Len(q) PROVE all[i + 1] = q[i]
    <3>1. PICK k \in 1..1 + Len(q) : k = i + 1
      BY <1>3
    <3>2. ~ (k <= 1) /\ k - 1 = i
      BY <3>1
    <3> QED
      BY <2>1, <2>2, <2>3, <3>1, <3>2
  <2> QED
    BY <2>1, <2>2, <2>3, <2>4, <2>5
<1>6. DOMAIN all = 1..Len(all) /\ all # <<>>
  <2>1. DOMAIN all = 1..Len(all)
    BY <1>5, LenProperties
  <2>2. Len(all) # 0
    BY <1>3, <1>5
  <2> QED
    BY <1>5, <2>1, <2>2, EmptySeq
<1>7. ASSUME NEW i \in DOMAIN all
      PROVE  i = 1 \/ \E k \in DOMAIN q : i = k + 1 /\ all[i] = q[k]
  <2>1. i \in 1..1 + Len(q)
    BY <1>5, <1>6
  <2>2. CASE i > 1
    <3>1. PICK k \in 1..Len(q) : k = i - 1
      BY <1>3, <2>1, <2>2
    <3>2. i = k + 1 /\ all[k + 1] = q[k]
      BY <1>5, <2>1, <3>1
    <3> QED
      BY <1>3, <3>1, <3>2
  <2> QED
    BY <2>1, <2>2
<1>8. ASSUME NEW k \in DOMAIN q
      PROVE  k + 1 \in DOMAIN all /\ all[k + 1] = q[k]
  BY <1>3, <1>5, <1>6
<1>9. \A k \in DOMAIN q : q[k].content = <<>>
  <2>1. \A k \in DOMAIN q : k > 1 => q[k].content = <<>>
    BY DEF Fresh
  <2>2. q # <<>> => q[1].content = <<>>
    BY DEF Fresh
  <2>3. \A k \in DOMAIN q : q # <<>>
    BY <1>3, EmptySeq
  <2> QED
    BY <1>3, <2>1, <2>2, <2>3
<1>10. \A i \in DOMAIN all : i > 1 => all[i].content = <<>>
  BY <1>7, <1>9
<1>11. \A i \in DOMAIN all : all[i].done => i = Len(all)
  <2>1. \A k \in DOMAIN q : q[k].done => k = Len(q)
    BY DEF Fresh
  <2> QED
    BY <1>2, <1>3, <1>5, <1>7, <2>1
<1>12. \A i \in DOMAIN all : \A call \in all[i].call : call.args = args[call.index]
  <2>1. \A k \in DOMAIN q : \A call \in q[k].call : call.args = args[call.index]
    BY DEF Fresh
  <2> QED
    BY <1>2, <1>5, <1>7, <2>1
<1>13. UNION {all[i].call : i \in DOMAIN all} = UNION {q[k].call : k \in DOMAIN q}
  <2>1. ASSUME NEW i \in DOMAIN all, NEW call \in all[i].call
        PROVE  \E k \in DOMAIN q : call \in q[k].call
    BY <1>2, <1>5, <1>7
  <2>2. ASSUME NEW k \in DOMAIN q, NEW call \in q[k].call
        PROVE  \E i \in DOMAIN all : call \in all[i].call
    BY <1>8
  <2> QED
    BY <2>1, <2>2
<1>14. {call.index : call \in UNION {q[k].call : k \in DOMAIN q}}
         = {i \in Indexes : args[i] # <<>>}
  BY DEF Fresh
<1>15. Fresh(all, text, TRUE, args)
  BY <1>2, <1>5, <1>6, <1>10, <1>11, <1>12, <1>13, <1>14 DEF Fresh
<1> QED
  BY <1>1, <1>4, <1>15

(* OpenAI's client, which has the tools. *)
LEMMA OpenAIKeeps ==
  ASSUME StreamInv, NEW text \in Texts, NEW of \in SUBSET Indexes,
         NEW last \in BOOLEAN, OpenAILine(text, of, last)
  PROVE  StreamInv'
<1>1. /\ client = "openai"
      /\ Line(text, of, last)
      /\ acc' = Longer(acc, of)
  BY DEF OpenAILine, Accumulate
<1>2. text \in Seq(Letters)
  BY TextFacts
<1>3. acc' = fragments' /\ fragments' \in Args
  <2>1. fragments \in Args /\ acc = fragments
    BY DEF StreamInv, StreamTypeOK
  <2>2. fragments' = Longer(fragments, of)
    BY <1>1 DEF Line
  <2> QED
    BY <1>1, <2>1, <2>2, LongerFacts
<1>4. PICK args \in Args : args = fragments'
  BY <1>3
<1>5. PICK order \in Orders({i \in Indexes : args[i] # <<>>}) :
        queue' = (IF text = <<>> THEN <<>> ELSE <<Content(text)>>)
                   \o IF last THEN emitFinal(order, args) ELSE <<>>
  BY <1>3, <1>4 DEF OpenAILine
<1>6. Fresh(queue', text, last, args)
  <2>1. PICK final : final = emitFinal(order, args)
    OBVIOUS
  <2>2. Fresh(final, <<>>, TRUE, args)
    BY <2>1, FinalChunks
  <2>3. CASE last /\ text = <<>>
    <3>1. final \in Seq(Chunk)
      BY <2>2 DEF Fresh
    <3>2. <<>> \o final = final
      BY <3>1, ConcatEmptySeq
    <3>3. queue' = final
      BY <1>5, <2>1, <2>3, <3>2
    <3>4. last = TRUE
      BY <2>3
    <3> QED
      BY <2>2, <2>3, <3>3, <3>4
  <2>4. CASE last /\ text # <<>>
    <3>1. queue' = <<Content(text)>> \o final
      BY <1>5, <2>1, <2>4
    <3>2. Fresh(<<Content(text)>> \o final, text, TRUE, args)
      BY <1>2, <2>2, TextFirst
    <3>3. last = TRUE
      BY <2>4
    <3> QED
      BY <3>1, <3>2, <3>3
  <2>5. CASE ~ last /\ text = <<>>
    <3>1. <<>> \o <<>> = <<>>
      BY EmptySeq, ConcatEmptySeq
    <3>2. queue' = <<>>
      BY <1>5, <2>5, <3>1
    <3> QED
      BY <1>2, <2>5, <3>2, OneChunk
  <2>6. CASE ~ last /\ text # <<>>
    <3>1. PICK chunk : chunk = Content(text)
      OBVIOUS
    <3>2. chunk \in Chunk /\ chunk.content = text /\ chunk.call = {} /\ ~ chunk.done
      BY <1>2, <3>1, ChunkFacts
    <3> HIDE DEF Chunk, Fresh
    <3>3. <<chunk>> \o <<>> = <<chunk>>
      <4>1. <<chunk>> \in Seq(Chunk)
        BY <3>2
      <4> QED
        BY <4>1, ConcatEmptySeq
    <3>4. queue' = <<chunk>>
      BY <1>5, <2>6, <3>1, <3>3
    <3>5. Fresh(<<chunk>>, text, last, args)
      BY <1>2, <2>6, <3>2, OneChunk
    <3> QED
      BY <3>4, <3>5
  <2> QED
    BY <2>3, <2>4, <2>5, <2>6
<1> QED
  BY <1>1, <1>3, <1>4, <1>6, LineKeeps

-----------------------------------------------------------------------------
(* The other steps *)

(* Text that was given up is not waited for. *)
LEMMA TextStays ==
  ASSUME TextInv, UNCHANGED <<sent, buffer, blocked>>,
         \/ Pending' = Pending /\ (GaveUp => GaveUp')
         \/ Pending' = <<>> /\ GaveUp'
  PROVE  TextInv'
<1>1. /\ WholeCharacters(sent)' /\ WholeCharacters(buffer)'
      /\ IsPrefixOf(buffer, sent)'
  BY DEF TextInv
<1>2. WholeCharacters(Pending)'
  <2>1. WholeCharacters(<<>>) /\ WholeCharacters(Pending)
    BY DEF TextInv, WholeCharacters
  <2>2. Pending' = Pending \/ Pending' = <<>>
    OBVIOUS
  <2> QED
    BY <2>1, <2>2
<1>3. ~ blocked' /\ ~ GaveUp' => buffer' \o Pending' = sent'
  BY DEF TextInv
<1> QED
  BY <1>1, <1>2, <1>3 DEF TextInv

(* Calls and arguments that stay as they are. *)
LEMMA CallsStay ==
  ASSUME CallsInv, UNCHANGED <<client, fragments, body, Calls>>, GaveUp => GaveUp'
  PROVE  CallsInv'
<1>1. Whole(Calls)'
  BY DEF CallsInv, Whole
<1>2. client' # "openai" => fragments' = [i \in Indexes |-> <<>>]
  BY DEF CallsInv
<1>3. body' = "over" /\ ~ GaveUp' =>
        {call.index : call \in Calls'} = {i \in Indexes : fragments'[i] # <<>>}
  BY DEF CallsInv
<1> QED
  BY <1>1, <1>2, <1>3 DEF CallsInv

(* What changes only the reader, the context or the stage. *)
LEMMA QuietStep ==
  ASSUME StreamInv, QueueInv',
         UNCHANGED <<client, mode, lineVars, queue, sanitizer, toolCalls, shown,
                     received, visible>>,
         UNCHANGED stage \/ (stage # "end" /\ stage' # "end"),
         reader' \in {"ask", "again", "scan", "closed"}, cancelled' \in BOOLEAN,
         stage' \in {"read", "flush", "end", "gone"},
         GaveUp => GaveUp'
  PROVE  StreamInv'
<1>1. StreamTypeOK /\ TextInv /\ ShownInv /\ ReceivedInv /\ CallsInv
  BY DEF StreamInv
<1>2. /\ UNCHANGED <<client, mode, sent, fragments, body, acc, queue, toolCalls>>
      /\ UNCHANGED <<buffer, blocked, streamedUp, shown, received, visible>>
      /\ UNCHANGED <<sanitizer>>
  BY DEF lineVars, sanitizer
<1>3. StreamTypeOK'
  BY <1>1, <1>2 DEF StreamTypeOK
<1>4. Pending' = Pending /\ Calls' = Calls
  BY <1>2 DEF Pending, Calls
<1>5. TextInv'
  BY <1>1, <1>2, <1>4, TextStays
<1>6. ShownInv' /\ ReceivedInv'
  BY <1>1, <1>2, ShownStays
<1>7. CallsInv'
  BY <1>1, <1>2, <1>4, CallsStay
<1> QED
  BY <1>3, <1>5, <1>6, <1>7 DEF StreamInv

(* The request is answered, asked once more, or fails. *)
LEMMA StreamKeeps == StreamInv /\ Stream => StreamInv'
<1> SUFFICES ASSUME StreamInv, Stream PROVE StreamInv'
  OBVIOUS
<1>1. /\ reader \in {"ask", "again"}
      /\ \/ reader' = "scan" /\ UNCHANGED stage
         \/ reader' = "closed" /\ stage' = "gone"
         \/ reader' = "again" /\ UNCHANGED stage
      /\ UNCHANGED <<client, mode, lineVars, queue, cancelled, sanitizer,
                     toolCalls, shown, received, visible>>
  BY DEF Stream, OpenAIStream, KimiStream, GeminiStream, OllamaStream, Answered
<1>2. /\ queue = <<>> /\ body = "open" /\ stage = "read" /\ sent = <<>>
      /\ UNCHANGED <<sent, body, queue>> /\ cancelled \in BOOLEAN
  BY <1>1 DEF StreamInv, QueueInv, StreamTypeOK, lineVars
<1>3. QueueInv'
  BY <1>1, <1>2 DEF QueueInv
<1>4. ~ GaveUp
  BY <1>1 DEF GaveUp
<1> QED
  BY <1>1, <1>2, <1>3, <1>4, QuietStep

(* The goroutine returns with an empty queue. *)
LEMMA CloseKeeps == StreamInv /\ Close => StreamInv'
<1> SUFFICES ASSUME StreamInv, Close PROVE StreamInv'
  OBVIOUS
<1>1. /\ reader = "scan" /\ queue = <<>> /\ body # "open" /\ reader' = "closed"
      /\ UNCHANGED <<client, mode, lineVars, queue, cancelled, loopVars>>
  BY DEF Close
<1>2. UNCHANGED <<sanitizer, toolCalls, shown, received, visible, stage, body, sent>>
  BY <1>1 DEF loopVars, lineVars
<1>3. QueueInv'
  BY <1>1, <1>2 DEF StreamInv, QueueInv
<1>4. cancelled \in BOOLEAN /\ stage \in {"read", "flush", "end", "gone"}
  BY DEF StreamInv, StreamTypeOK
<1>5. ~ GaveUp
  BY <1>1 DEF GaveUp
<1> QED
  BY <1>1, <1>2, <1>3, <1>4, <1>5, QuietStep

(* The context is done, which the goroutine finds later. *)
LEMMA CancelKeeps == StreamInv /\ Cancel => StreamInv'
<1> SUFFICES ASSUME StreamInv, Cancel PROVE StreamInv'
  OBVIOUS
<1>1. /\ ~ cancelled /\ cancelled' = TRUE
      /\ UNCHANGED <<client, mode, lineVars, queue, reader, loopVars>>
  BY DEF Cancel
<1>2. UNCHANGED <<sanitizer, toolCalls, shown, received, visible, stage, body, sent>>
  BY <1>1 DEF loopVars, lineVars
<1>3. QueueInv'
  BY <1>1, <1>2 DEF StreamInv, QueueInv
<1>4. /\ stage \in {"read", "flush", "end", "gone"}
      /\ reader \in {"ask", "again", "scan", "closed"}
  BY DEF StreamInv, StreamTypeOK
<1>5. ~ GaveUp
  BY <1>1 DEF GaveUp
<1> QED
  BY <1>1, <1>2, <1>3, <1>4, <1>5, QuietStep

(* The channel is closed. *)
LEMMA ReadClosedKeeps == StreamInv /\ ReadClosed => StreamInv'
<1> SUFFICES ASSUME StreamInv, ReadClosed PROVE StreamInv'
  OBVIOUS
<1>1. /\ stage = "read" /\ queue = <<>> /\ reader = "closed" /\ stage' = "flush"
      /\ UNCHANGED <<client, mode, lineVars, queue, reader, cancelled, sanitizer,
                     toolCalls, shown, received, visible>>
  BY DEF ReadClosed
<1>2. UNCHANGED <<body, sent>> /\ cancelled \in BOOLEAN
  BY <1>1 DEF lineVars, StreamInv, StreamTypeOK
<1>3. QueueInv'
  BY <1>1, <1>2 DEF StreamInv, QueueInv
<1>4. GaveUp => GaveUp'
  BY <1>1 DEF GaveUp
<1> QED
  BY <1>1, <1>2, <1>3, <1>4, QuietStep

(* The loop goes, and leaves the goroutine to find the context done. *)
LEMMA ReturnKeeps == StreamInv /\ Return => StreamInv'
<1> SUFFICES ASSUME StreamInv, Return PROVE StreamInv'
  OBVIOUS
<1>1. /\ reader \in {"scan", "closed"} /\ stage \in {"read", "flush"}
      /\ stage' = "gone"
      /\ UNCHANGED <<client, mode, lineVars, queue, reader, cancelled, sanitizer,
                     toolCalls, shown, received, visible>>
  BY DEF Return
<1>2. UNCHANGED <<body, sent>> /\ cancelled \in BOOLEAN
  BY <1>1 DEF lineVars, StreamInv, StreamTypeOK
<1>3. QueueInv'
  BY <1>1, <1>2 DEF StreamInv, QueueInv
<1>4. GaveUp => GaveUp'
  BY <1>1 DEF GaveUp
<1> QED
  BY <1>1, <1>2, <1>3, <1>4, QuietStep

(* What was not sent is given up with the channel. *)
LEMMA GiveUpKeeps == StreamInv /\ GiveUp => StreamInv'
<1> SUFFICES ASSUME StreamInv, GiveUp PROVE StreamInv'
  OBVIOUS
<1>1. /\ cancelled /\ queue # <<>> /\ queue' = <<>> /\ reader' = "closed"
      /\ UNCHANGED <<client, mode, lineVars, cancelled, loopVars>>
  BY DEF GiveUp
<1>2. /\ UNCHANGED <<sent, fragments, body, acc, toolCalls, stage>>
      /\ UNCHANGED <<buffer, blocked, streamedUp, shown, received, visible>>
      /\ UNCHANGED <<sanitizer>>
  BY <1>1 DEF loopVars, lineVars, sanitizer
<1>3. StreamTypeOK /\ QueueInv /\ TextInv /\ ShownInv /\ ReceivedInv /\ CallsInv
  BY DEF StreamInv
<1>4. <<>> \in Seq(Chunk) /\ DOMAIN <<>> = {}
  BY EmptySeq
<1>5. GaveUp' /\ Pending' = <<>>
  BY <1>1 DEF GaveUp, Pending
<1>6. StreamTypeOK'
  <2> HIDE DEF Chunk
  <2> QED
    BY <1>1, <1>2, <1>3, <1>4 DEF StreamTypeOK
<1>7. QueueInv'
  BY <1>1, <1>2, <1>3, <1>4 DEF QueueInv
<1>8. TextInv'
  BY <1>2, <1>3, <1>5, TextStays
<1>9. ShownInv' /\ ReceivedInv'
  BY <1>1, <1>2, <1>3, ShownStays
<1>10. CallsInv'
  <2>1. Calls' = toolCalls
    BY <1>1, <1>2, <1>4 DEF Calls
  <2>2. Calls' \subseteq Calls
    BY <2>1 DEF Calls
  <2>3. \A call \in Calls : body = "over" /\ call.args = fragments[call.index]
    BY <1>3 DEF CallsInv, Whole
  <2>4. Whole(Calls)'
    BY <1>2, <2>2, <2>3 DEF Whole
  <2> QED
    BY <1>1, <1>2, <1>3, <1>5, <2>4 DEF CallsInv
<1> QED
  BY <1>6, <1>7, <1>8, <1>9, <1>10 DEF StreamInv

(* The connection is lost, before the calls come out. *)
LEMMA CutKeeps == StreamInv /\ Cut => StreamInv'
<1> SUFFICES ASSUME StreamInv, Cut PROVE StreamInv'
  OBVIOUS
<1>1. /\ reader = "scan" /\ queue = <<>> /\ body = "open" /\ body' = "cut"
      /\ queue' = (IF client = "kimi" THEN <<Done>> ELSE queue)
      /\ UNCHANGED <<client, mode, sent, fragments, acc, reader, cancelled,
                     loopVars>>
  BY DEF Cut
<1>2. /\ UNCHANGED <<sent, fragments, acc, toolCalls, stage>>
      /\ UNCHANGED <<buffer, blocked, streamedUp, shown, received, visible>>
      /\ UNCHANGED <<sanitizer>>
  BY <1>1 DEF loopVars, sanitizer
<1>3. StreamTypeOK /\ QueueInv /\ TextInv /\ ShownInv /\ ReceivedInv /\ CallsInv
  BY DEF StreamInv
<1>4. /\ queue' \in Seq(Chunk)
      /\ \A i \in DOMAIN queue' :
           i = Len(queue') /\ queue'[i].content = <<>> /\ queue'[i].call = {}
      /\ queue' # <<>> => queue'[1].content = <<>>
  <2>1. Done \in Chunk /\ Done.content = <<>> /\ Done.call = {}
    BY EmptySeq, ChunkFacts
  <2>2. <<>> \in Seq(Chunk) /\ DOMAIN <<>> = {}
    BY EmptySeq
  <2> HIDE DEF Chunk, Done
  <2>3. PICK q : q = <<Done>>
    OBVIOUS
  <2>4. q \in Seq(Chunk) /\ Len(q) = 1 /\ q[1] = Done
    BY <2>1, <2>3
  <2>5. DOMAIN q = {1}
    <3>1. DOMAIN q = 1..Len(q)
      BY <2>4, LenProperties
    <3> QED
      BY <2>4, <3>1
  <2>6. CASE client = "kimi"
    <3>1. queue' = q
      BY <1>1, <2>3, <2>6
    <3> QED
      BY <2>1, <2>4, <2>5, <3>1
  <2>7. CASE client # "kimi"
    BY <1>1, <2>2, <2>7
  <2> QED
    BY <2>6, <2>7
<1>5. Pending' = Pending /\ Pending = <<>>
  BY <1>1, <1>4 DEF Pending
<1>6. StreamTypeOK'
  <2> HIDE DEF Chunk
  <2> QED
    BY <1>1, <1>2, <1>3, <1>4 DEF StreamTypeOK
<1>7. QueueInv'
  BY <1>1, <1>2, <1>3, <1>4 DEF QueueInv
<1>8. TextInv'
  <2>1. ~ GaveUp
    BY <1>1 DEF GaveUp
  <2> QED
    BY <1>2, <1>3, <1>5, <2>1, TextStays
<1>9. ShownInv' /\ ReceivedInv'
  BY <1>1, <1>2, <1>3, ShownStays
<1>10. CallsInv'
  <2>1. toolCalls = {}
    BY <1>1, <1>3 DEF CallsInv, Whole, Calls
  <2>2. Calls' = {}
    BY <1>2, <1>4, <2>1 DEF Calls
  <2> QED
    BY <1>1, <1>2, <1>3, <2>2 DEF CallsInv, Whole
<1> QED
  BY <1>6, <1>7, <1>8, <1>9, <1>10 DEF StreamInv

(* The rest of a queue. *)
LEMMA RestOfQueue ==
  ASSUME NEW q \in Seq(Chunk), q # <<>>
  PROVE  /\ Head(q) = q[1] /\ 1 \in DOMAIN q /\ DOMAIN q = 1..Len(q)
         /\ q[1] \in Chunk /\ Len(q) \in Nat
         /\ Tail(q) \in Seq(Chunk) /\ Len(Tail(q)) = Len(q) - 1
         /\ DOMAIN Tail(q) = 1..Len(q) - 1
         /\ \A i \in DOMAIN Tail(q) : i + 1 \in DOMAIN q /\ Tail(q)[i] = q[i + 1]
         /\ Tail(q) # <<>> => 1 \in DOMAIN Tail(q)
<1> HIDE DEF Chunk
<1>1. Len(q) \in Nat /\ DOMAIN q = 1..Len(q) /\ Len(q) # 0
  BY LenProperties, EmptySeq
<1>2. 1 \in DOMAIN q /\ q[1] \in Chunk /\ Head(q) = q[1]
  BY <1>1, ElementOfSeq
<1>3. PICK r : r = Tail(q)
  OBVIOUS
<1>4. /\ r \in Seq(Chunk) /\ Len(r) = Len(q) - 1
      /\ \A i \in 1..Len(r) : r[i] = q[i + 1]
  BY <1>3, HeadTailProperties
<1>5. DOMAIN r = 1..Len(r)
  BY <1>4, LenProperties
<1>6. \A i \in DOMAIN r : i + 1 \in DOMAIN q /\ r[i] = q[i + 1]
  BY <1>1, <1>4, <1>5
<1>7. r # <<>> => 1 \in DOMAIN r
  <2>1. r # <<>> => Len(r) # 0
    BY <1>4, EmptySeq
  <2> QED
    BY <1>1, <1>4, <1>5, <2>1
<1> QED
  BY <1>1, <1>2, <1>3, <1>4, <1>5, <1>6, <1>7

(* A chunk is read: its text is passed on and its calls are kept. *)
LEMMA ReadChunkKeeps == StreamInv /\ ReadChunk => StreamInv'
<1> SUFFICES ASSUME StreamInv, ReadChunk PROVE StreamInv'
  OBVIOUS
<1>1. PICK chunk : chunk = Head(queue)
  OBVIOUS
<1>2. /\ stage = "read" /\ queue # <<>> /\ queue' = Tail(queue)
      /\ IF chunk.content = <<>> THEN UNCHANGED <<shown, received, sanitizer>>
                                 ELSE Process(chunk.content)
      /\ toolCalls' = toolCalls \union chunk.call
      /\ stage' = (IF chunk.done THEN "flush" ELSE "read")
      /\ UNCHANGED <<client, mode, lineVars, reader, cancelled, visible>>
  BY <1>1 DEF ReadChunk
<1>3. UNCHANGED <<client, mode, sent, fragments, body, acc, reader, cancelled>>
  BY <1>2 DEF lineVars
<1>4. StreamTypeOK /\ QueueInv /\ TextInv /\ ShownInv /\ ReceivedInv /\ CallsInv
  BY DEF StreamInv
<1>5. /\ queue \in Seq(Chunk) /\ buffer \in Seq(Letters) /\ shown \in Seq(Letters)
      /\ sent \in Seq(Letters) /\ blocked \in BOOLEAN /\ streamedUp \in Nat
  BY <1>4 DEF StreamTypeOK
<1>6. PICK q \in Seq(Chunk) : q = queue
  BY <1>5
<1>7. PICK r \in Seq(Chunk) : r = Tail(q) /\ queue' = r
  BY <1>2, <1>6, RestOfQueue
<1>8. /\ chunk = q[1] /\ 1 \in DOMAIN q /\ DOMAIN q = 1..Len(q) /\ Len(q) \in Nat
      /\ Len(r) = Len(q) - 1 /\ DOMAIN r = 1..Len(q) - 1
      /\ \A i \in DOMAIN r : i + 1 \in DOMAIN q /\ r[i] = q[i + 1]
      /\ r # <<>> => 1 \in DOMAIN r
      /\ chunk \in Chunk
  BY <1>1, <1>2, <1>6, <1>7, RestOfQueue
<1>9. PICK text \in Seq(Letters) : text = chunk.content
  BY <1>8 DEF Chunk
<1>10. Pending = text /\ WholeCharacters(text)
  BY <1>2, <1>4, <1>6, <1>8, <1>9 DEF Pending, TextInv
<1>11. /\ \A i \in DOMAIN q : i > 1 => q[i].content = <<>>
       /\ \A i \in DOMAIN q : q[i].done => i = Len(q) /\ body # "open"
       /\ reader = "scan"
  <2>1. reader \in {"ask", "again", "scan", "closed"}
    BY <1>4 DEF StreamTypeOK
  <2> QED
    BY <1>2, <1>4, <1>6, <2>1 DEF QueueInv
<1>12. ~ GaveUp /\ ~ GaveUp'
  BY <1>3, <1>11 DEF GaveUp
<1>13. stage' \in {"read", "flush"}
  BY <1>2
<1>14. /\ buffer' = (IF blocked THEN buffer ELSE buffer \o text)
       /\ shown' \in Seq(Letters)
       /\ blocked' \in BOOLEAN /\ streamedUp' \in Nat /\ (blocked => blocked')
       /\ ShownInv' /\ ReceivedInv'
  <2>1. CASE text = <<>>
    <3>1. UNCHANGED <<shown, received, sanitizer>>
      BY <1>2, <1>9, <2>1
    <3>2. UNCHANGED <<buffer, blocked, streamedUp, shown>>
      BY <3>1 DEF sanitizer
    <3>3. ShownInv' /\ ReceivedInv'
      BY <1>2, <1>3, <1>4, <1>13, <3>1, ShownStays
    <3>4. buffer \o text = buffer
      BY <1>5, <2>1, Unjoined
    <3> QED
      BY <1>5, <3>2, <3>3, <3>4
  <2>2. CASE text # <<>>
    <3>1. Process(text)
      BY <1>2, <1>9, <2>2
    <3>2. stage # "end" /\ stage' # "end" /\ UNCHANGED mode
      BY <1>2, <1>3, <1>13
    <3> QED
      BY <1>4, <1>10, <3>1, <3>2, ProcessKeeps
  <2> QED
    BY <2>1, <2>2
<1>15. buffer' \in Seq(Letters)
  <2>1. buffer \o text \in Seq(Letters)
    BY <1>5, JoinedText
  <2> QED
    BY <1>5, <1>14, <2>1
<1>16. StreamTypeOK'
  <2> HIDE DEF Chunk
  <2> QED
    BY <1>3, <1>4, <1>7, <1>13, <1>14, <1>15 DEF StreamTypeOK
<1>17. QueueInv'
  <2>1. \A i \in DOMAIN r : r[i].content = <<>>
    BY <1>8, <1>11
  <2>2. \A i \in DOMAIN r : r[i].done => i = Len(r) /\ body # "open"
    BY <1>8, <1>11
  <2>3. chunk.done => r = <<>> /\ body # "open"
    <3>1. chunk.done => Len(r) = 0 /\ body # "open"
      BY <1>8, <1>11
    <3>2. Len(r) = 0 => r = <<>>
      BY EmptySeq
    <3> QED
      BY <3>1, <3>2
  <2>4. /\ \A i \in DOMAIN queue' : i > 1 => queue'[i].content = <<>>
        /\ \A i \in DOMAIN queue' :
             queue'[i].done => i = Len(queue') /\ body' # "open"
    BY <1>3, <1>7, <2>1, <2>2
  <2>5. reader' = "scan" /\ (stage' = "flush" => queue' = <<>> /\ body' # "open")
    BY <1>2, <1>3, <1>7, <1>11, <2>3
  <2> QED
    BY <1>13, <2>4, <2>5 DEF QueueInv
<1>18. TextInv'
  <2>1. Pending' = <<>>
    <3>1. r # <<>> => r[1].content = <<>>
      BY <1>8, <1>11
    <3> QED
      BY <1>7, <3>1 DEF Pending
  <2>2. WholeCharacters(Pending)' /\ WholeCharacters(sent)'
    <3>1. WholeCharacters(<<>>) /\ WholeCharacters(sent)
      BY <1>4 DEF TextInv, WholeCharacters
    <3> QED
      BY <1>3, <2>1, <3>1
  <2>3. CASE blocked
    <3>1. UNCHANGED buffer /\ blocked'
      BY <1>14, <2>3
    <3>2. WholeCharacters(buffer)' /\ IsPrefixOf(buffer, sent)'
      BY <1>3, <1>4, <3>1 DEF TextInv
    <3> QED
      BY <2>2, <3>1, <3>2 DEF TextInv
  <2>4. CASE ~ blocked
    <3>1. buffer' = sent
      BY <1>4, <1>10, <1>12, <1>14, <2>4 DEF TextInv
    <3>2. IsPrefixOf(sent, sent)
      BY <1>5, Letter, Prefix
    <3>3. sent \o <<>> = sent
      BY <1>5, Unjoined
    <3>4. WholeCharacters(buffer)' /\ IsPrefixOf(buffer, sent)'
      BY <1>3, <2>2, <3>1, <3>2
    <3>5. buffer' \o Pending' = sent'
      BY <1>3, <2>1, <3>1, <3>3
    <3> QED
      BY <2>2, <3>4, <3>5 DEF TextInv
  <2> QED
    BY <2>3, <2>4
<1>19. CallsInv'
  <2>1. UNION {q[i].call : i \in DOMAIN q}
          = chunk.call \union UNION {r[i].call : i \in DOMAIN r}
    <3>1. ASSUME NEW i \in DOMAIN q, NEW call \in q[i].call
          PROVE  call \in chunk.call \/ \E k \in DOMAIN r : call \in r[k].call
      <4>1. CASE i = 1
        BY <1>8, <3>1, <4>1
      <4>2. CASE i # 1
        <5>1. PICK k \in DOMAIN r : k = i - 1
          BY <1>8, <4>2
        <5>2. k + 1 = i /\ r[k] = q[k + 1]
          BY <1>8, <5>1
        <5>3. r[k] = q[i]
          BY <5>2
        <5> QED
          BY <3>1, <5>3
      <4> QED
        BY <4>1, <4>2
    <3>2. ASSUME NEW k \in DOMAIN r, NEW call \in r[k].call
          PROVE  \E i \in DOMAIN q : call \in q[i].call
      BY <1>8, <3>2
    <3>3. \A call \in chunk.call : \E i \in DOMAIN q : call \in q[i].call
      BY <1>8
    <3> QED
      BY <3>1, <3>2, <3>3
  <2>2. Calls' = Calls
    <3>1. Calls' = toolCalls' \union UNION {r[i].call : i \in DOMAIN r}
      BY <1>7 DEF Calls
    <3>2. Calls = toolCalls \union UNION {q[i].call : i \in DOMAIN q}
      BY <1>6 DEF Calls
    <3> QED
      BY <1>2, <2>1, <3>1, <3>2
  <2> QED
    BY <1>3, <1>4, <1>12, <2>2, CallsStay
<1> QED
  BY <1>14, <1>16, <1>17, <1>18, <1>19 DEF StreamInv

(* What is left after the last chunk is the rest of the visible text. *)
LEMMA RestIsVisible ==
  ASSUME StreamTypeOK, TextInv, ShownInv, stage # "end"
  PROVE  LET rest == IF mode = "plain" \/ blocked THEN <<>>
                     ELSE From(VisibleContent, streamedUp)
         IN  /\ rest \in Seq(Letters) /\ shown \o rest = VisibleContent
             /\ \/ WholeCharacters(rest)
                \/ mode = "flow" /\ \E i \in DOMAIN VisibleContent :
                                      VisibleContent[i] = Lead
<1>1. /\ buffer \in Seq(Letters) /\ WholeCharacters(buffer) /\ mode \in Modes
      /\ shown \in Seq(Letters)
  BY DEF StreamTypeOK, TextInv
<1>2. /\ shown = IF mode = "plain" THEN buffer ELSE SubSeq(buffer, 1, streamedUp)
      /\ blocked <=> mode = "flow" /\ MarkedAt(buffer) # {}
      /\ mode # "flow" => streamedUp = 0
  BY DEF ShownInv
<1>3. PICK rest : rest = IF mode = "plain" \/ blocked THEN <<>>
                         ELSE From(VisibleContent, streamedUp)
  OBVIOUS
<1>4. /\ <<>> \in Seq(Letters) /\ WholeCharacters(<<>>)
      /\ \A s \in Seq(Letters) : s \o <<>> = s /\ <<>> \o s = s
  BY EmptySeq, ConcatEmptySeq, Unjoined
<1>5. /\ rest \in Seq(Letters) /\ shown \o rest = VisibleContent
      /\ \/ WholeCharacters(rest)
         \/ mode = "flow" /\ \E i \in DOMAIN VisibleContent : VisibleContent[i] = Lead
  <2>1. CASE mode = "plain"
    <3>1. rest = <<>> /\ shown = buffer /\ VisibleContent = buffer
      BY <1>2, <1>3, <2>1 DEF VisibleContent
    <3> QED
      BY <1>1, <1>4, <3>1
  <2>2. CASE mode = "flow" /\ MarkedAt(buffer) # {}
    <3>1. rest = <<>> /\ shown = SubSeq(buffer, 1, streamedUp)
      BY <1>2, <1>3, <2>2
    <3>2. streamedUp = Len(Before(buffer)) /\ VisibleContent = Before(buffer)
      BY <2>2, ShownFacts DEF VisibleContent
    <3>3. shown = VisibleContent
      BY <1>1, <3>1, <3>2, BeforeFacts
    <3> QED
      BY <1>1, <1>4, <3>1, <3>3
  <2>3. CASE mode = "flow" /\ MarkedAt(buffer) = {}
    <3>1. VisibleContent = buffer
      BY <1>1, <2>3, BeforeFacts DEF VisibleContent
    <3>2. PICK n \in 0..Len(buffer) : n = streamedUp
      BY <2>3, ShownFacts
    <3>3. rest = From(buffer, n) /\ shown = SubSeq(buffer, 1, n)
      BY <1>2, <1>3, <2>3, <3>1, <3>2
    <3>4. rest \in Seq(Letters) /\ shown \o rest = buffer
      BY <1>1, <3>3, TheRest
    <3>5. (\A i \in 1..Len(buffer) : buffer[i] # Lead) => WholeCharacters(rest)
      BY <1>1, <3>3, WholePiece
    <3>6. DOMAIN buffer = 1..Len(buffer)
      BY <1>1, Letter
    <3> QED
      BY <2>3, <3>1, <3>4, <3>5, <3>6
  <2>4. CASE mode = "collecting"
    <3>1. PICK v : v = VisibleContent
      OBVIOUS
    <3>2. v \in Seq(Letters) /\ WholeCharacters(v)
      BY <1>1, <2>4, <3>1, VisibleFacts DEF VisibleContent
    <3>3. streamedUp = 0 /\ rest = From(v, 0) /\ shown = SubSeq(buffer, 1, 0)
      BY <1>2, <1>3, <2>4, <3>1
    <3>4. shown = <<>> /\ SubSeq(v, 1, 0) = <<>>
      BY <3>3, SubSeqEmpty
    <3>5. 0 \in 0..Len(v)
      BY <3>2, Letter
    <3>6. From(v, 0) \in Seq(Letters) /\ SubSeq(v, 1, 0) \o From(v, 0) = v
      BY <3>2, <3>5, TheRest
    <3>7. rest = v
      BY <1>4, <3>3, <3>4, <3>6
    <3> QED
      BY <1>4, <3>1, <3>2, <3>4, <3>7
  <2> QED
    BY <1>1, <2>1, <2>2, <2>3, <2>4 DEF Modes
<1> QED
  BY <1>3, <1>5

(* At the end all of the visible text has been shown. *)
LEMMA FlushKeeps == StreamInv /\ Flush => StreamInv'
<1> SUFFICES ASSUME StreamInv, Flush PROVE StreamInv'
  OBVIOUS
<1>1. PICK rest : rest = IF mode = "plain" \/ blocked THEN <<>>
                         ELSE From(VisibleContent, streamedUp)
  OBVIOUS
<1>2. /\ stage = "flush" /\ stage' = "end" /\ visible' = VisibleContent
      /\ writeSSEAgentLoop(rest)
      /\ UNCHANGED <<client, mode, lineVars, queue, reader, cancelled, sanitizer,
                     toolCalls>>
  BY <1>1 DEF Flush
<1>3. /\ UNCHANGED <<client, mode, sent, fragments, body, acc, queue, toolCalls>>
      /\ UNCHANGED <<buffer, blocked, streamedUp, reader, cancelled>>
  BY <1>2 DEF lineVars, sanitizer
<1>4. StreamTypeOK /\ QueueInv /\ TextInv /\ ShownInv /\ ReceivedInv /\ CallsInv
  BY DEF StreamInv
<1>5. /\ rest \in Seq(Letters) /\ shown \o rest = VisibleContent
      /\ \/ WholeCharacters(rest)
         \/ mode = "flow" /\ \E i \in DOMAIN VisibleContent : VisibleContent[i] = Lead
  BY <1>1, <1>2, <1>4, RestIsVisible
<1>6. shown' = VisibleContent
  BY <1>2, <1>5 DEF writeSSEAgentLoop
<1>7. shown' \in Seq(Letters) /\ ReceivedInv'
  <2>1. shown \in Seq(Letters) /\ UNCHANGED mode
    BY <1>3, <1>4 DEF StreamTypeOK
  <2>2. \/ WholeCharacters(rest)
        \/ mode = "flow" /\ \E i \in DOMAIN shown' : shown'[i] = Lead
    BY <1>5, <1>6
  <2> QED
    BY <1>2, <1>4, <1>5, <2>1, <2>2, EventKeeps
<1>8. StreamTypeOK'
  <2> HIDE DEF Chunk
  <2> QED
    BY <1>2, <1>3, <1>4, <1>7 DEF StreamTypeOK
<1>9. QueueInv'
  BY <1>2, <1>3, <1>4 DEF QueueInv
<1>10. Pending' = Pending /\ Calls' = Calls /\ (GaveUp => GaveUp')
  BY <1>3 DEF Pending, Calls, GaveUp
<1>11. TextInv'
  BY <1>3, <1>4, <1>10, TextStays
<1>12. ShownInv'
  <2>1. UNCHANGED <<Shown, VisibleContent>>
    BY <1>3 DEF Shown, VisibleContent
  <2> QED
    BY <1>2, <1>3, <1>4, <1>6, <2>1 DEF ShownInv
<1>13. CallsInv'
  BY <1>3, <1>4, <1>10, CallsStay
<1> QED
  BY <1>7, <1>8, <1>9, <1>11, <1>12, <1>13 DEF StreamInv

-----------------------------------------------------------------------------
(* The theorems *)

(* Nothing was asked for yet. *)
LEMMA InitKeeps == ModelStreamInit => StreamInv
<1> SUFFICES ASSUME ModelStreamInit PROVE StreamInv
  OBVIOUS
<1>0. /\ \A s : SubSeq(s, 1, 0) = <<>>
      /\ \A s \in Seq(Letters) : IsPrefixOf(s, s)
  <2>1. \A s : SubSeq(s, 1, 0) = <<>>
    BY SubSeqEmpty
  <2>2. ASSUME NEW s \in Seq(Letters) PROVE IsPrefixOf(s, s)
    BY Letter, Prefix
  <2> QED
    BY <2>1, <2>2
<1> USE DEF ModelStreamInit
<1>1. /\ <<>> \in Seq(Letters) /\ <<>> \in Seq(Nat) /\ <<>> \in Seq(Chunk)
      /\ DOMAIN <<>> = {} /\ Len(<<>>) = 0
  BY EmptySeq
<1>2. StreamTypeOK
  <2> HIDE DEF Chunk
  <2>1. fragments \in Args /\ acc = fragments
    BY <1>1 DEF Args
  <2> QED
    BY <1>1, <2>1 DEF StreamTypeOK
<1>3. QueueInv
  BY <1>1 DEF QueueInv
<1>4. MarkedAt(<<>>) = {} /\ SafeLen(<<>>) = 0 /\ SubSeq(buffer, 1, 0) = <<>>
  <2>1. Len(Marker) \in Nat /\ Len(Marker) >= 1
    BY MarkerFacts
  <2>2. MarkedAt(<<>>) = {}
    BY <1>1, <2>1 DEF MarkedAt
  <2>3. SafeLen(<<>>) = 0
    <3>1. SafeLen(<<>>) \in 0..Len(<<>>)
      BY <1>1, SafeFacts
    <3>2. SafeLen(<<>>) \in 0..0
      BY <1>1, <3>1, Zenon
    <3> QED
      BY <3>2
  <2>4. SubSeq(buffer, 1, 0) = <<>>
    BY <1>0, Zenon
  <2> QED
    BY <2>2, <2>3, <2>4, Zenon
<1>5. TextInv
  <2>1. /\ WholeCharacters(sent) /\ WholeCharacters(buffer)
        /\ WholeCharacters(Pending) /\ Pending = <<>>
    BY Unjoined, <1>1 DEF Pending
  <2>2. <<>> \o <<>> = <<>>
    BY <1>1, Unjoined
  <2>3. IsPrefixOf(<<>>, <<>>)
    BY <1>0, <1>1
  <2>4. IsPrefixOf(buffer, sent) /\ buffer \o Pending = sent
    BY <2>1, <2>2, <2>3
  <2> QED
    BY <2>1, <2>4 DEF TextInv
<1>6. ShownInv
  BY <1>4 DEF ShownInv, Shown
<1>7. ReceivedInv
  BY DEF ReceivedInv
<1>8. CallsInv
  BY <1>1 DEF CallsInv, Whole, Calls
<1> QED
  BY <1>2, <1>3, <1>5, <1>6, <1>7, <1>8 DEF StreamInv

(* Every step keeps what is known of a stream. *)
LEMMA NextKeeps == StreamInv /\ [ModelStreamNext]_modelStreamVars => StreamInv'
<1> SUFFICES ASSUME StreamInv, [ModelStreamNext]_modelStreamVars PROVE StreamInv'
  OBVIOUS
<1>1. ASSUME NEW text \in Texts, NEW last \in BOOLEAN,
             \/ \E of \in SUBSET Indexes : OpenAILine(text, of, last)
             \/ KimiLine(text, last)
             \/ GeminiLine(text, last)
             \/ OllamaLine(text, last)
      PROVE  StreamInv'
  <2>1. ASSUME NEW of \in SUBSET Indexes, OpenAILine(text, of, last)
        PROVE  StreamInv'
    BY <2>1, OpenAIKeeps
  <2>2. CASE KimiLine(text, last)
    BY <2>2, KimiKeeps
  <2>3. CASE GeminiLine(text, last)
    BY <2>3, WholeLineKeeps DEF GeminiLine
  <2>4. CASE OllamaLine(text, last)
    BY <2>4, WholeLineKeeps DEF OllamaLine
  <2> QED
    BY <1>1, <2>1, <2>2, <2>3, <2>4
<1>2. CASE Stream \/ Cut \/ Close \/ GiveUp
  BY <1>2, StreamKeeps, CutKeeps, CloseKeeps, GiveUpKeeps
<1>3. CASE LoopStep
  BY <1>3, ReadChunkKeeps, ReadClosedKeeps, FlushKeeps, ReturnKeeps DEF LoopStep
<1>4. CASE Cancel
  BY <1>4, CancelKeeps
<1>5. CASE UNCHANGED modelStreamVars
  <2>1. /\ UNCHANGED <<client, mode, lineVars, queue, reader, cancelled>>
        /\ UNCHANGED <<sanitizer, toolCalls, shown, received, visible, stage>>
        /\ UNCHANGED <<sent, body>>
    BY <1>5 DEF modelStreamVars, loopVars, lineVars
  <2>2. QueueInv'
    BY <2>1 DEF StreamInv, QueueInv
  <2>3. /\ reader \in {"ask", "again", "scan", "closed"} /\ cancelled \in BOOLEAN
        /\ stage \in {"read", "flush", "end", "gone"}
    BY DEF StreamInv, StreamTypeOK
  <2>4. GaveUp => GaveUp'
    BY <2>1 DEF GaveUp
  <2> QED
    BY <2>1, <2>2, <2>3, <2>4, QuietStep
<1> QED
  BY <1>1, <1>2, <1>3, <1>4, <1>5 DEF ModelStreamNext, ClientStep

(* What was sent is in the buffer or on its way, what was shown of it can have
   no marker, and the calls have all of their arguments. *)
THEOREM StreamIsSound == ModelStreamSpec => []StreamInv
<1>1. ModelStreamInit => StreamInv
  BY InitKeeps
<1>2. StreamInv /\ [ModelStreamNext]_modelStreamVars => StreamInv'
  BY NextKeeps
<1> QED
  BY <1>1, <1>2, PTL DEF ModelStreamSpec

(* A turn goes on with the text that was sent and shows what comes before the
   flow-state block. *)
LEMMA TextFollows == StreamInv => TextIsWhole
<1> SUFFICES ASSUME StreamInv PROVE TextIsWhole
  OBVIOUS
<1>1. StreamTypeOK /\ QueueInv /\ TextInv /\ ShownInv
  BY DEF StreamInv
<1>2. /\ buffer \in Seq(Letters) /\ sent \in Seq(Letters) /\ mode \in Modes
      /\ IsPrefixOf(buffer, sent) /\ shown \in Seq(Letters)
  BY <1>1 DEF StreamTypeOK, TextInv
<1>3. ~ blocked /\ ~ cancelled /\ stage = "end" => buffer = sent
  <2>1. stage = "end" => Pending = <<>>
    BY <1>1 DEF QueueInv, Pending
  <2>2. buffer \o <<>> = buffer
    BY <1>2, Unjoined
  <2>3. ~ cancelled => ~ GaveUp
    BY DEF GaveUp
  <2> QED
    BY <1>1, <2>1, <2>2, <2>3 DEF TextInv
<1>4. mode = "flow" /\ MarkedAt(buffer) # {} => Before(buffer) = Before(sent)
  BY <1>2, BeforeStays
<1>5. stage = "end" /\ ~ cancelled => shown = Expected
  <2> SUFFICES ASSUME stage = "end", ~ cancelled PROVE shown = Expected
    OBVIOUS
  <2>1. shown = VisibleContent
    BY <1>1 DEF ShownInv
  <2>2. CASE blocked
    <3>1. mode = "flow" /\ MarkedAt(buffer) # {}
      BY <1>1, <2>2 DEF ShownInv
    <3> QED
      BY <1>4, <2>1, <3>1 DEF VisibleContent, Expected
  <2>3. CASE ~ blocked
    BY <1>3, <2>1, <2>3 DEF VisibleContent, Expected
  <2> QED
    BY <2>2, <2>3
<1>6. stage = "end" => visible = shown
  BY <1>1 DEF ShownInv
<1>7. ASSUME mode = "plain", stage # "end" PROVE IsPrefixOf(shown, Expected)
  BY <1>1, <1>2, <1>7 DEF ShownInv, Expected
<1>8. ASSUME mode = "flow", stage # "end" PROVE IsPrefixOf(shown, Expected)
  <2>1. shown = SubSeq(buffer, 1, streamedUp) /\ Expected = Before(sent)
    BY <1>1, <1>8 DEF ShownInv, Expected
  <2>2. PICK n \in 0..Len(buffer) :
          /\ n = streamedUp
          /\ MarkedAt(buffer) = {} => n = SafeLen(buffer)
          /\ MarkedAt(buffer) # {} => n = Len(Before(buffer))
    BY <1>1, <1>8, ShownFacts
  <2>3. PICK whole \in Seq(Letters) :
          /\ whole = Before(sent) /\ Len(whole) \in 0..Len(sent)
          /\ whole = SubSeq(sent, 1, Len(whole))
    BY <1>2, BeforeFacts
  <2>4. n <= Len(whole)
    <3>1. CASE MarkedAt(buffer) = {}
      BY <1>2, <2>2, <2>3, <3>1, SafeStays
    <3>2. CASE MarkedAt(buffer) # {}
      <4>1. n = Len(whole)
        BY <1>4, <1>8, <2>2, <2>3, <3>2
      <4> QED
        BY <2>3, <4>1
    <3> QED
      BY <3>1, <3>2
  <2>5. Len(shown) = n /\ \A i \in 1..n : shown[i] = buffer[i]
    <3>1. PICK part : part = SubSeq(buffer, 1, n)
      OBVIOUS
    <3>2. Len(part) = n /\ \A i \in 1..n : part[i] = buffer[i]
      BY <1>2, <3>1, Cutting
    <3> QED
      BY <2>1, <2>2, <3>1, <3>2
  <2>6. \A i \in 1..Len(buffer) : buffer[i] = sent[i]
    BY <1>2, Prefix
  <2>7. \A i \in 1..Len(whole) : whole[i] = sent[i]
    <3>1. PICK k \in 0..Len(sent) : k = Len(whole)
      BY <2>3
    <3>2. \A i \in 1..k : SubSeq(sent, 1, k)[i] = sent[i]
      BY <1>2, Cutting
    <3> QED
      BY <2>3, <3>1, <3>2
  <2>8. Len(shown) <= Len(whole) /\ \A i \in 1..Len(shown) : shown[i] = whole[i]
    <3>1. Len(buffer) \in Nat /\ Len(whole) \in Nat
      BY <1>2, Letter
    <3>2. \A i \in 1..n : i \in 1..Len(buffer) /\ i \in 1..Len(whole)
      BY <2>4, <3>1
    <3> QED
      BY <2>4, <2>5, <2>6, <2>7, <3>2
  <2>9. IsPrefixOf(shown, whole)
    BY <1>2, <2>8, Prefix
  <2> QED
    BY <2>1, <2>3, <2>9
<1>9. ASSUME stage = "end", ~ cancelled PROVE IsPrefixOf(shown, Expected)
  <2>1. IsPrefixOf(shown, shown)
    BY <1>2, Letter, Prefix
  <2> QED
    BY <1>5, <1>9, <2>1
<1>10. mode # "collecting" /\ (stage = "read" \/ ~ cancelled) =>
         IsPrefixOf(shown, Expected)
  BY <1>2, <1>7, <1>8, <1>9 DEF Modes
<1> QED
  BY <1>5, <1>6, <1>10 DEF TextIsWhole

(* What a provider sent is what the turn goes on with and the user reads
   (agent_loop.go:30-112, 170-220, stream.go:145-150,
   openai_compatible.go:125-236). *)
THEOREM ResponsesAreWhole == ModelStreamSpec => []ResponseIsWhole
<1>1. StreamInv => TextIsReceived
  BY DEF StreamInv, ReceivedInv, TextIsReceived
<1>2. StreamInv => CallsAreWhole
  <2> SUFFICES ASSUME StreamInv PROVE CallsAreWhole
    OBVIOUS
  <2>1. Whole(Calls) /\ toolCalls \subseteq Calls
    BY DEF StreamInv, CallsInv, Calls
  <2>2. \A call \in toolCalls : body = "over" /\ call.args = fragments[call.index]
    BY <2>1 DEF Whole
  <2>3. ASSUME stage = "end", body = "over", ~ cancelled
        PROVE  {call.index : call \in toolCalls}
                 = {i \in Indexes : fragments[i] # <<>>}
    <3>1. queue = <<>> /\ ~ GaveUp
      BY <2>3 DEF StreamInv, QueueInv, GaveUp
    <3>2. DOMAIN queue = {}
      BY <3>1, EmptySeq
    <3>3. Calls = toolCalls
      BY <3>2 DEF Calls
    <3> QED
      BY <2>3, <3>1, <3>3 DEF StreamInv, CallsInv
  <2> QED
    BY <2>2, <2>3 DEF CallsAreWhole
<1>3. StreamInv => ResponseIsWhole
  BY <1>1, <1>2, TextFollows DEF ResponseIsWhole
<1> QED
  BY <1>3, StreamIsSound, PTL

-----------------------------------------------------------------------------
(* Counting, and functions that are defined step by step. *)

(* A set of numbers up to n that has 0, and with a number the next one, has
   them all. *)
LEMMA Counting ==
  ASSUME NEW n \in Nat, NEW T, 0 \in T,
         \A i \in 1..n : i - 1 \in T => i \in T
  PROVE  \A i \in 0..n : i \in T
<1> DEFINE Missing == {i \in 1..n : i \notin T}
<1>1. SUFFICES ASSUME Missing # {} PROVE FALSE
  OBVIOUS
<1>2. PICK m \in Missing : \A k \in Missing : m <= k
  <2> Missing \in SUBSET (1..n)
    OBVIOUS
  <2> HIDE DEF Missing
  <2> QED
    BY <1>1, SmallestExists
<1>3. m \in 1..n /\ m \notin T
  OBVIOUS
<1>4. CASE m = 1
  BY <1>3, <1>4
<1>5. CASE m # 1
  <2>1. m - 1 \in 1..n
    BY <1>3, <1>5
  <2>2. m - 1 \in T
    BY <1>2, <2>1
  <2> QED
    BY <1>3, <2>2
<1> QED
  BY <1>4, <1>5

(* A number is in the set if all the smaller ones are: then they all are. *)
LEMMA StrongCounting ==
  ASSUME NEW n \in Nat, NEW T,
         \A i \in 0..n : (\A j \in 0..n : j < i => j \in T) => i \in T
  PROVE  \A i \in 0..n : i \in T
<1> DEFINE Below == {i \in 0..n : \A j \in 0..n : j < i => j \in T}
<1>1. 0 \in Below
  OBVIOUS
<1>2. ASSUME NEW i \in 1..n, i - 1 \in Below
      PROVE  i \in Below
  <2>1. i - 1 \in T
    BY <1>2
  <2>2. \A j \in 0..n : j < i => j < i - 1 \/ j = i - 1
    OBVIOUS
  <2> QED
    BY <1>2, <2>1, <2>2
<1>3. \A i \in 0..n : i \in Below
  <2> HIDE DEF Below
  <2> QED
    BY <1>1, <1>2, Counting
<1> QED
  BY <1>3

(* What goes from one value to the next by a function. *)
Follows(f, n, S, start, next) ==
  /\ f \in [0..n -> S] /\ f[0] = start
  /\ \A i \in 1..n : f[i] = next[<<f[i - 1], i>>]

LEMMA StepsExist ==
  ASSUME NEW n \in Nat, NEW S, NEW start \in S, NEW next \in [S \X (1..n) -> S]
  PROVE  \E f : Follows(f, n, S, start, next)
<1> DEFINE Goes(k, f) ==
             f[0] = start /\ \A i \in 1..k : f[i] = next[<<f[i - 1], i>>]
           T == {k \in 0..n : \E f \in [0..k -> S] : Goes(k, f)}
<1>1. 0 \in T
  <2>1. [i \in 0..0 |-> start] \in [0..0 -> S] /\ 0 \in 0..n
    OBVIOUS
  <2>2. Goes(0, [i \in 0..0 |-> start])
    OBVIOUS
  <2> QED
    BY <2>1, <2>2
<1>2. ASSUME NEW k \in 1..n, k - 1 \in T
      PROVE  k \in T
  <2>1. PICK f \in [0..(k - 1) -> S] : Goes(k - 1, f)
    BY <1>2
  <2> DEFINE v == next[<<f[k - 1], k>>]
             g == [i \in 0..k |-> IF i = k THEN v ELSE f[i]]
  <2>2. k - 1 \in 0..(k - 1)
    OBVIOUS
  <2>3. v \in S
    BY <2>2
  <2>4. g \in [0..k -> S]
    <3>1. \A i \in 0..k : i = k \/ i \in 0..(k - 1)
      OBVIOUS
    <3> HIDE DEF v
    <3> QED
      BY <2>3, <3>1
  <2>5. g[0] = start
    BY <2>1
  <2>6. ASSUME NEW i \in 1..k PROVE g[i] = next[<<g[i - 1], i>>]
    <3>1. CASE i = k
      <4>1. g[i - 1] = f[k - 1] /\ g[i] = v
        BY <3>1
      <4> QED
        BY <3>1, <4>1
    <3>2. CASE i # k
      <4>1. i \in 1..(k - 1) /\ i - 1 \in 0..(k - 1) /\ i - 1 # k
        BY <3>2
      <4>2. g[i] = f[i] /\ g[i - 1] = f[i - 1]
        BY <3>2, <4>1
      <4> QED
        BY <2>1, <4>1, <4>2
    <3> QED
      BY <3>1, <3>2
  <2>7. Goes(k, g)
    BY <2>5, <2>6
  <2> HIDE DEF g, Goes
  <2> QED
    BY <2>4, <2>7
<1>3. n \in T
  <2> HIDE DEF T
  <2> QED
    BY <1>1, <1>2, Counting
<1>4. PICK f \in [0..n -> S] : Goes(n, f)
  BY <1>3
<1> QED
  BY <1>4 DEF Follows

(* The first letters of a sequence. *)
LEMMA StartOf ==
  ASSUME NEW S, NEW s \in Seq(S), NEW n \in 0..Len(s)
  PROVE  /\ SubSeq(s, 1, n) \in Seq(S) /\ Len(SubSeq(s, 1, n)) = n
         /\ \A i \in 1..n : SubSeq(s, 1, n)[i] = s[i]
<1>1. Len(s) \in Nat /\ \A i \in 1..Len(s) : s[i] \in S
  OBVIOUS
<1>2. n \in Int /\ \A i \in 1..n : s[i] \in S
  BY <1>1
<1>3. /\ SubSeq(s, 1, n) \in Seq(S)
      /\ Len(SubSeq(s, 1, n)) = IF 1 <= n THEN n - 1 + 1 ELSE 0
      /\ \A i \in 1..(n - 1 + 1) : SubSeq(s, 1, n)[i] = s[1 + i - 1]
  BY <1>2, SubSeqProperties
<1>4. n \in Nat
  BY <1>1
<1> QED
  BY <1>3, <1>4

-----------------------------------------------------------------------------
(* firstUnbalancedDelimiter *)

Opening == {"(", "[", "{"}
ScanState == [stack : Seq(Token), quote : Quotes \union {""},
              escaped : BOOLEAN, fits : BOOLEAN]

(* What a token does to the state of a scan that goes on to fit. *)
InQuotes(s, t, new) ==
  /\ s.quote # "" /\ new.stack = s.stack
  /\ \/ s.escaped /\ new.quote = s.quote /\ ~ new.escaped
     \/ ~ s.escaped /\ t = "\\" /\ new.quote = s.quote /\ new.escaped
     \/ /\ ~ s.escaped /\ t # "\\" /\ ~ new.escaped
        /\ IF t = s.quote THEN new.quote = "" ELSE new.quote = s.quote
Outside(s, t, new) ==
  /\ s.quote = "" /\ new.escaped = s.escaped
  /\ \/ t \in Quotes /\ new.quote = t /\ new.stack = s.stack
     \/ t \in Opening /\ new.quote = "" /\ new.stack = Append(s.stack, t)
     \/ /\ t \in DOMAIN PairOf /\ new.quote = ""
        /\ s.stack # <<>> /\ PairOf[t] = s.stack[Len(s.stack)]
        /\ new.stack = SubSeq(s.stack, 1, Len(s.stack) - 1)
     \/ /\ t \notin Quotes \union {"(", "[", "{", ")", "]", "}"}
        /\ new.quote = "" /\ new.stack = s.stack

LEMMA Pairs ==
  /\ DOMAIN PairOf = {")", "]", "}"}
  /\ PairOf[")"] = "(" /\ PairOf["]"] = "[" /\ PairOf["}"] = "{"
  /\ {PairOf[u] : u \in DOMAIN PairOf} = Opening
<1>1. DOMAIN PairOf = {")", "]", "}"}
  BY DEF PairOf
<1>2. PairOf[")"] = "(" /\ PairOf["]"] = "[" /\ PairOf["}"] = "{"
  BY DEF PairOf
<1>3. ASSUME NEW t
      PROVE  t \in {PairOf[u] : u \in DOMAIN PairOf} <=> t \in Opening
  BY <1>1, <1>2 DEF Opening
<1> QED
  BY <1>1, <1>2, <1>3

LEMMA ScanCases ==
  ASSUME NEW s \in ScanState, NEW t \in Token
  PROVE  /\ Scan(s, t) \in ScanState
         /\ Scan(s, t).fits =>
              /\ s.fits
              /\ InQuotes(s, t, Scan(s, t)) \/ Outside(s, t, Scan(s, t))
<1> DEFINE new == Scan(s, t)
<1>1. /\ s.stack \in Seq(Token) /\ s.quote \in Quotes \union {""}
      /\ s.escaped \in BOOLEAN /\ s.fits \in BOOLEAN
  BY DEF ScanState
<1>5. s.stack \in Seq(Token)
  BY <1>1
<1>2. CASE ~ s.fits
  BY <1>2 DEF Scan, ScanString, ScanCode
<1>3. CASE s.fits /\ s.quote # ""
  <2>1. CASE s.escaped
    <3>1. new = [s EXCEPT !.escaped = FALSE]
      BY <1>3, <2>1 DEF Scan, ScanString, ScanCode
    <3>2. /\ new.stack = s.stack /\ new.quote = s.quote
          /\ new.escaped = FALSE /\ new \in ScanState
      BY <3>1 DEF ScanState
    <3> QED
      BY <1>3, <2>1, <3>2 DEF InQuotes
  <2>2. CASE ~ s.escaped /\ t = "\\"
    <3>1. new = [s EXCEPT !.escaped = TRUE]
      BY <1>3, <2>2 DEF Scan, ScanString, ScanCode
    <3>2. /\ new.stack = s.stack /\ new.quote = s.quote
          /\ new.escaped = TRUE /\ new \in ScanState
      BY <3>1 DEF ScanState
    <3> QED
      BY <1>3, <2>2, <3>2 DEF InQuotes
  <2>3. CASE ~ s.escaped /\ t # "\\"
    <3>1. new = [s EXCEPT !.quote = IF t = @ THEN "" ELSE @]
      BY <1>3, <2>3 DEF Scan, ScanString, ScanCode
    <3>2. /\ new.stack = s.stack /\ new.escaped = s.escaped
          /\ new.quote = (IF t = s.quote THEN "" ELSE s.quote)
          /\ new \in ScanState
      BY <3>1 DEF ScanState
    <3> QED
      BY <1>3, <2>3, <3>2 DEF InQuotes
  <2> QED
    BY <2>1, <2>2, <2>3
<1>4. CASE s.fits /\ s.quote = ""
  <2>1. CASE t \in Quotes
    <3>1. new = [s EXCEPT !.quote = t]
      BY <1>4, <2>1, Pairs DEF Scan, ScanString, ScanCode, Quotes, Opening
    <3>2. /\ new.stack = s.stack /\ new.escaped = s.escaped
          /\ new.quote = t /\ new \in ScanState
      BY <2>1, <3>1 DEF ScanState
    <3> QED
      BY <1>4, <2>1, <3>2 DEF Outside
  <2>2. CASE t \notin Quotes /\ t \in Opening
    <3>1. new = [s EXCEPT !.stack = Append(@, t)]
      BY <1>4, <2>2, Pairs DEF Scan, ScanString, ScanCode
    <3>2. Append(s.stack, t) \in Seq(Token)
      BY <1>5
    <3>3. /\ new.stack = Append(s.stack, t) /\ new.escaped = s.escaped
          /\ new.quote = "" /\ new \in ScanState
      BY <1>1, <1>4, <3>1, <3>2 DEF ScanState
    <3> QED
      BY <1>4, <2>2, <3>3 DEF Outside
  <2>3. CASE t \notin Quotes /\ t \notin Opening /\ t \in DOMAIN PairOf
    <3>1. new = IF s.stack # <<>> /\ Last(s.stack) = PairOf[t]
                THEN [s EXCEPT !.stack = Front(@)]
                ELSE [s EXCEPT !.fits = FALSE]
      BY <1>4, <2>3, Pairs DEF Scan, ScanString, ScanCode
    <3>2. CASE s.stack # <<>> /\ Last(s.stack) = PairOf[t]
      <4>1. new = [s EXCEPT !.stack = Front(@)]
        BY <3>1, <3>2
      <4>2. /\ Front(s.stack) = SubSeq(s.stack, 1, Len(s.stack) - 1)
            /\ Last(s.stack) = s.stack[Len(s.stack)]
        BY DEF Front, Last
      <4>3. SubSeq(s.stack, 1, Len(s.stack) - 1) \in Seq(Token)
        <5>1. /\ Len(s.stack) \in Nat
              /\ \A i \in 1..(Len(s.stack) - 1) : s.stack[i] \in Token
          BY <1>5
        <5> QED
          BY <5>1, SubSeqProperties
      <4>4. /\ new.stack = SubSeq(s.stack, 1, Len(s.stack) - 1)
            /\ new.escaped = s.escaped /\ new.quote = ""
            /\ new \in ScanState
        BY <1>1, <1>4, <4>1, <4>2, <4>3 DEF ScanState
      <4> QED
        BY <1>4, <2>3, <3>2, <4>2, <4>4 DEF Outside
    <3>3. CASE ~ (s.stack # <<>> /\ Last(s.stack) = PairOf[t])
      <4>1. new = [s EXCEPT !.fits = FALSE]
        BY <3>1, <3>3
      <4> QED
        BY <4>1 DEF ScanState
    <3> QED
      BY <3>2, <3>3
  <2>4. CASE t \notin Quotes /\ t \notin Opening /\ t \notin DOMAIN PairOf
    <3>1. new = s
      BY <1>4, <2>4, Pairs DEF Scan, ScanString, ScanCode
    <3> QED
      BY <1>4, <2>4, <3>1, Pairs DEF Outside, Opening
  <2> QED
    BY <2>1, <2>2, <2>3, <2>4
<1> QED
  BY <1>2, <1>3, <1>4, <1>1

(* The states of a scan that ends well. *)
Scanned(s, text) ==
  /\ s \in [0..Len(text) -> ScanState]
  /\ \A i \in 0..Len(text) : s[i].escaped => s[i].quote # ""
  /\ \A i \in 1..Len(text) :
       \/ InQuotes(s[i - 1], text[i], s[i])
       \/ Outside(s[i - 1], text[i], s[i])

LEMMA ScanFunction ==
  ASSUME NEW text \in Seq(Token)
  PROVE  \E f \in [0..Len(text) -> ScanState] :
           f = [i \in 0..Len(text) |->
                  IF i = 0 THEN ScanStart ELSE Scan(f[i - 1], text[i])]
<1> DEFINE n == Len(text)
           next == [p \in ScanState \X (1..n) |-> Scan(p[1], text[p[2]])]
<1>1. n \in Nat /\ \A i \in 1..n : text[i] \in Token
  OBVIOUS
<1>2. ScanStart \in ScanState
  BY DEF ScanStart, ScanState
<1>3. next \in [ScanState \X (1..n) -> ScanState]
  BY <1>1, ScanCases
<1>4. \A x \in ScanState, i \in 1..n : next[<<x, i>>] = Scan(x, text[i])
  OBVIOUS
<1> HIDE DEF next
<1>5. PICK f : Follows(f, n, ScanState, ScanStart, next)
  BY <1>1, <1>2, <1>3, StepsExist
<1>6. /\ f \in [0..n -> ScanState] /\ f[0] = ScanStart
      /\ \A i \in 1..n : f[i] = next[<<f[i - 1], i>>]
  BY <1>5 DEF Follows
<1>7. ASSUME NEW i \in 1..n PROVE f[i] = Scan(f[i - 1], text[i])
  <2>1. f[i - 1] \in ScanState
    BY <1>1, <1>6
  <2> QED
    BY <1>4, <1>6, <2>1
<1>8. \A i \in 0..n : i = 0 \/ i \in 1..n
  BY <1>1
<1>9. f = [i \in 0..n |-> IF i = 0 THEN ScanStart ELSE Scan(f[i - 1], text[i])]
  BY <1>6, <1>7, <1>8
<1> QED
  BY <1>6, <1>9

LEMMA ScanStarts ==
  /\ ScanStart.stack = <<>> /\ ScanStart.quote = ""
  /\ ScanStart.escaped = FALSE /\ ScanStart \in ScanState
<1>1. ScanStart \in ScanState
  BY DEF ScanStart, ScanState
<1> QED
  BY <1>1 DEF ScanStart

(* The states of any scan. *)
Scans(s, text) ==
  /\ s \in [0..Len(text) -> ScanState] /\ s[0] = ScanStart
  /\ \A i \in 1..Len(text) : s[i] = Scan(s[i - 1], text[i])

LEMMA BalancedRule ==
  ASSUME NEW text \in Seq(Token)
  PROVE  \E s : /\ Scans(s, text)
                /\ Balanced(text) <=> /\ s[Len(text)].fits
                                      /\ s[Len(text)].quote = ""
                                      /\ s[Len(text)].stack = <<>>
<1> DEFINE n == Len(text)
           state[i \in 0..n] ==
             IF i = 0 THEN ScanStart ELSE Scan(state[i - 1], text[i])
           Is(f) == f = [i \in 0..n |->
                           IF i = 0 THEN ScanStart
                           ELSE Scan(f[i - 1], text[i])]
<1>1. n \in Nat /\ \A i \in 1..n : text[i] \in Token
  OBVIOUS
<1>2. \E f : Is(f)
  BY ScanFunction
<1>3. Is(state)
  BY <1>2
<1> HIDE DEF state
<1>4. Balanced(text) <=> /\ state[n].fits /\ state[n].quote = ""
                         /\ state[n].stack = <<>>
  BY DEF Balanced, state
<1>5. /\ state[0] = ScanStart
      /\ \A i \in 1..n : state[i] = Scan(state[i - 1], text[i])
  BY <1>1, <1>3
<1>6. \A i \in 0..n : state[i] \in ScanState
  <2> DEFINE T == {i \in 0..n : state[i] \in ScanState}
  <2>1. 0 \in T
    <3>1. 0 \in 0..n
      BY <1>1
    <3>2. state[0] \in ScanState
      BY <1>5, ScanStarts
    <3> QED
      BY <3>1, <3>2
  <2>2. ASSUME NEW i \in 1..n, i - 1 \in T PROVE i \in T
    BY <1>1, <1>5, <2>2, ScanCases
  <2>3. \A i \in 0..n : i \in T
    <3> HIDE DEF T, n
    <3> QED
      BY <1>1, <2>1, <2>2, Counting
  <2> QED
    BY <2>3
<1>7. state \in [0..n -> ScanState]
  BY <1>3, <1>6
<1>8. Scans(state, text)
  BY <1>5, <1>7 DEF Scans
<1> QED
  BY <1>4, <1>8

LEMMA BalancedIsScanned ==
  ASSUME NEW text \in Seq(Token), Balanced(text)
  PROVE  \E s : /\ Scanned(s, text)
                /\ s[0].quote = "" /\ s[0].stack = <<>>
                /\ s[Len(text)].quote = "" /\ s[Len(text)].stack = <<>>
<1> DEFINE n == Len(text)
<1>1. n \in Nat /\ \A i \in 1..n : text[i] \in Token
  OBVIOUS
<1>2. PICK s : /\ Scans(s, text)
               /\ s[n].fits /\ s[n].quote = "" /\ s[n].stack = <<>>
  BY BalancedRule
<1>3. /\ s \in [0..n -> ScanState] /\ s[0] = ScanStart
      /\ \A i \in 1..n : s[i] = Scan(s[i - 1], text[i])
  BY <1>2 DEF Scans
<1>4. \A i \in 0..n : s[i] \in ScanState
  BY <1>3
<1>5. ASSUME NEW i \in 1..n
      PROVE  /\ s[i - 1] \in ScanState /\ text[i] \in Token
             /\ s[i] = Scan(s[i - 1], text[i])
  <2>1. i - 1 \in 0..n
    BY <1>1
  <2> QED
    BY <1>1, <1>3, <1>4, <2>1
<1>6. \A k \in 0..n : s[n - k].fits
  <2> DEFINE T == {k \in 0..n : s[n - k].fits}
  <2>1. 0 \in T
    <3>1. n - 0 = n /\ 0 \in 0..n
      BY <1>1
    <3>2. s[n - 0].fits
      BY <1>2, <3>1
    <3> QED
      BY <3>1, <3>2
  <2>2. ASSUME NEW k \in 1..n, k - 1 \in T PROVE k \in T
    <3> DEFINE m == n - k + 1
    <3>1. m \in 1..n /\ m - 1 = n - k /\ n - (k - 1) = m /\ k \in 0..n
      BY <1>1
    <3>2. s[n - (k - 1)].fits
      BY <2>2
    <3> HIDE DEF m
    <3>3. s[m].fits
      BY <3>1, <3>2
    <3>4. /\ s[m - 1] \in ScanState /\ text[m] \in Token
          /\ Scan(s[m - 1], text[m]).fits
      BY <1>5, <3>1, <3>3
    <3>5. s[m - 1].fits
      BY <3>4, ScanCases
    <3> QED
      BY <3>1, <3>5
  <2>3. \A i \in 0..n : i \in T
    <3> HIDE DEF T, n
    <3> QED
      BY <1>1, <2>1, <2>2, Counting
  <2> QED
    BY <2>3
<1>7. \A i \in 0..n : s[i].fits
  <2>1. \A i \in 0..n : n - i \in 0..n /\ n - (n - i) = i
    BY <1>1
  <2> QED
    BY <1>6, <2>1
<1>8. ASSUME NEW i \in 1..n
      PROVE  InQuotes(s[i - 1], text[i], s[i]) \/ Outside(s[i - 1], text[i], s[i])
  <2>1. i \in 0..n
    BY <1>1
  <2>2. s[i].fits
    BY <1>7, <2>1
  <2> QED
    BY <1>5, <2>2, ScanCases
<1>9. \A i \in 0..n : s[i].escaped => s[i].quote # ""
  <2> DEFINE T == {i \in 0..n : s[i].escaped => s[i].quote # ""}
  <2>1. 0 \in T
    <3>1. 0 \in 0..n
      BY <1>1
    <3>2. s[0] = ScanStart
      BY <1>3
    <3>3. ~ s[0].escaped
      BY <3>2, ScanStarts
    <3> QED
      BY <3>1, <3>3
  <2>2. ASSUME NEW i \in 1..n, i - 1 \in T PROVE i \in T
    <3>1. i - 1 \in 0..n /\ i \in 0..n
      BY <1>1
    <3>2. CASE InQuotes(s[i - 1], text[i], s[i])
      BY <3>1, <3>2 DEF InQuotes
    <3>3. CASE Outside(s[i - 1], text[i], s[i])
      BY <2>2, <3>1, <3>3 DEF Outside
    <3> QED
      BY <1>8, <3>2, <3>3
  <2>3. \A i \in 0..n : i \in T
    <3> HIDE DEF T, n
    <3> QED
      BY <1>1, <2>1, <2>2, Counting
  <2> QED
    BY <2>3
<1>10. Scanned(s, text)
  BY <1>3, <1>8, <1>9 DEF Scanned
<1>11. s[0].quote = "" /\ s[0].stack = <<>>
  BY <1>3, ScanStarts
<1> QED
  BY <1>2, <1>10, <1>11

(* An odd number of members of B stands before m, down to i. *)
OddRun(B, i, m) ==
  \E r \in i..(m - 1) : /\ (m - 1 - r) % 2 = 1
                        /\ r \notin B /\ \A q \in (r + 1)..(m - 1) : q \in B

LEMMA OddRuns ==
  ASSUME NEW B, NEW i \in Nat, i \notin B, NEW m \in Nat, i < m
  PROVE  /\ ~ OddRun(B, i, i + 1)
         /\ m \notin B => ~ OddRun(B, i, m + 1)
         /\ m \in B => (OddRun(B, i, m + 1) <=> ~ OddRun(B, i, m))
<1>1. ~ OddRun(B, i, i + 1)
  BY DEF OddRun
<1>2. ASSUME m \notin B PROVE ~ OddRun(B, i, m + 1)
  <2> SUFFICES ASSUME OddRun(B, i, m + 1) PROVE FALSE
    OBVIOUS
  <2>1. PICK r \in i..m : /\ (m - r) % 2 = 1
                          /\ \A q \in (r + 1)..m : q \in B
    BY DEF OddRun
  <2>2. r # m
    BY <2>1
  <2> QED
    BY <1>2, <2>1, <2>2
<1>3. ASSUME m \in B PROVE OddRun(B, i, m + 1) <=> ~ OddRun(B, i, m)
  <2> DEFINE Others == {k \in 1..(m - i) : m - k \notin B}
  <2>1. PICK k \in Others : \A l \in Others : k <= l
    <3>1. m - i \in Others
      OBVIOUS
    <3>2. m - i \in Nat
      OBVIOUS
    <3>3. Others \in SUBSET (1..(m - i))
      OBVIOUS
    <3> HIDE DEF Others
    <3> QED
      BY <3>1, <3>2, <3>3, SmallestExists
  <2> DEFINE last == m - k
  <2>2. k \in 1..(m - i) /\ last \in i..(m - 1) /\ last \notin B
    OBVIOUS
  <2>3. ASSUME NEW q \in (last + 1)..(m - 1) PROVE q \in B
    <3>1. m - q \in 1..(m - i) /\ m - (m - q) = q /\ m - q < k
      BY <2>2
    <3> QED
      BY <2>1, <2>2, <3>1
  <2> HIDE DEF Others, last
  <2>4. ASSUME NEW r \in i..(m - 1), r \notin B,
               \A q \in (r + 1)..(m - 1) : q \in B
        PROVE  r = last
    BY <2>2, <2>3, <2>4
  <2>5. OddRun(B, i, m) <=> (m - 1 - last) % 2 = 1
    BY <2>2, <2>3, <2>4 DEF OddRun
  <2>6. OddRun(B, i, m + 1) <=> (m - last) % 2 = 1
    <3>1. ASSUME OddRun(B, i, m + 1) PROVE (m - last) % 2 = 1
      <4>1. PICK r \in i..m : /\ (m - r) % 2 = 1 /\ r \notin B
                              /\ \A q \in (r + 1)..m : q \in B
        BY <3>1 DEF OddRun
      <4>2. r \in i..(m - 1) /\ \A q \in (r + 1)..(m - 1) : q \in B
        BY <1>3, <4>1
      <4>3. r = last
        BY <2>4, <4>1, <4>2
      <4> QED
        BY <4>1, <4>3
    <3>2. ASSUME (m - last) % 2 = 1 PROVE OddRun(B, i, m + 1)
      <4>1. \A q \in (last + 1)..m : q \in B
        BY <1>3, <2>2, <2>3
      <4> QED
        BY <2>2, <3>2, <4>1 DEF OddRun
    <3> QED
      BY <3>1, <3>2
  <2>7. (m - last) % 2 = 1 <=> ~ ((m - 1 - last) % 2 = 1)
    BY <2>2
  <2> QED
    BY <2>5, <2>6, <2>7
<1> QED
  BY <1>1, <1>2, <1>3

(* Whether a place is escaped changes with every "\\". *)
LEMMA EscapedSteps ==
  ASSUME NEW text \in Seq(Token), NEW i \in 1..Len(text), text[i] # "\\",
         NEW m \in (i + 1)..Len(text)
  PROVE  /\ ~ Escaped(text, i, i + 1)
         /\ text[m] # "\\" => ~ Escaped(text, i, m + 1)
         /\ text[m] = "\\" => (Escaped(text, i, m + 1) <=> ~ Escaped(text, i, m))
<1> DEFINE B == {q \in 1..Len(text) : text[q] = "\\"}
<1>1. i \in Nat /\ m \in Nat /\ i < m /\ 1 <= i
      /\ m \in 1..Len(text) /\ m + 1 <= Len(text) + 1
  <2>1. Len(text) \in Nat
    OBVIOUS
  <2> QED
    BY <2>1
<1>2. i \notin B
  OBVIOUS
<1>3. m \in B <=> text[m] = "\\"
  BY <1>1
<1>4. ASSUME NEW p \in Nat, p <= Len(text) + 1
      PROVE  Escaped(text, i, p) <=> OddRun(B, i, p)
  <2>1. \A q \in i..(p - 1) : q \in 1..Len(text)
    <3>1. Len(text) \in Nat
      OBVIOUS
    <3> QED
      BY <1>1, <1>4, <3>1
  <2>2. \A q \in i..(p - 1) : q \in B <=> text[q] = "\\"
    BY <2>1
  <2>3. \A r \in i..(p - 1) : \A q \in (r + 1)..(p - 1) : q \in i..(p - 1)
    BY <1>1
  <2> HIDE DEF B
  <2> QED
    BY <2>2, <2>3 DEF Escaped, OddRun
<1>5. /\ Escaped(text, i, i + 1) <=> OddRun(B, i, i + 1)
      /\ Escaped(text, i, m) <=> OddRun(B, i, m)
      /\ Escaped(text, i, m + 1) <=> OddRun(B, i, m + 1)
  <2>1. i + 1 \in Nat /\ m + 1 \in Nat /\ i + 1 <= Len(text) + 1
        /\ m <= Len(text) + 1
    <3>1. Len(text) \in Nat
      OBVIOUS
    <3> QED
      BY <1>1, <3>1
  <2> HIDE DEF B
  <2> QED
    BY <1>1, <1>4, <2>1
<1> HIDE DEF B
<1>6. /\ ~ OddRun(B, i, i + 1)
      /\ m \notin B => ~ OddRun(B, i, m + 1)
      /\ m \in B => (OddRun(B, i, m + 1) <=> ~ OddRun(B, i, m))
  BY <1>1, <1>2, OddRuns
<1> QED
  BY <1>3, <1>5, <1>6

(* A scan that enters a string at i, and is outside of one at j, comes to its
   end. *)
StringFrom(s, text, i, j) ==
  s[i - 1].quote = "" /\ text[i] \in Quotes /\ s[j].quote = ""

LEMMA StringIsQuoted ==
  ASSUME NEW text \in Seq(Token), NEW s, Scanned(s, text),
         NEW i \in 1..Len(text), NEW j \in i..Len(text),
         StringFrom(s, text, i, j)
  PROVE  \E k \in (i + 1)..j :
           /\ Quoted(text, i, k)
           /\ s[k].quote = "" /\ s[k].stack = s[i - 1].stack
<1> DEFINE n == Len(text)
           Ends == {k \in 1..(j - i) : s[i + k].quote = ""}
<1>1. n \in Nat /\ i \in Nat /\ j \in Nat /\ i <= j /\ 1 <= i /\ j <= n
  OBVIOUS
<1>2. "\\" \notin Quotes /\ "" \notin Quotes /\ Quotes \cap Opening = {}
      /\ Quotes \cap DOMAIN PairOf = {}
  BY Pairs DEF Quotes, Opening
<1>3. /\ s[i].quote = text[i] /\ s[i].stack = s[i - 1].stack
      /\ s[i].escaped = s[i - 1].escaped
  <2>1. ~ InQuotes(s[i - 1], text[i], s[i])
    BY DEF InQuotes, StringFrom
  <2>2. Outside(s[i - 1], text[i], s[i])
    BY <2>1 DEF Scanned
  <2> QED
    BY <1>2, <2>2 DEF Outside, StringFrom
<1>4. ~ s[i].escaped
  <2>1. i - 1 \in 0..n
    BY <1>1
  <2>2. ~ s[i - 1].escaped
    BY <2>1 DEF Scanned, StringFrom
  <2> QED
    BY <1>3, <2>2
<1>5. PICK d \in Ends : \A l \in Ends : d <= l
  <2>1. i # j
    BY <1>2, <1>3 DEF StringFrom
  <2>2. j - i \in 1..(j - i) /\ i + (j - i) = j
    BY <1>1, <2>1
  <2>3. j - i \in Ends
    BY <2>2 DEF StringFrom
  <2>4. j - i \in Nat
    BY <1>1
  <2>5. Ends \in SUBSET (1..(j - i))
    OBVIOUS
  <2> HIDE DEF Ends
  <2> QED
    BY <2>3, <2>4, <2>5, SmallestExists
<1> DEFINE k == i + d
<1>14. d \in 1..(j - i) /\ s[i + d].quote = ""
  OBVIOUS
<1>15. \A l \in 1..(j - i) : s[i + l].quote = "" => d <= l
  BY <1>5
<1> HIDE DEF Ends
<1>16. d \in 1..(j - i)
  BY <1>14
<1>6. /\ d \in Nat /\ 1 <= d /\ d <= j - i
      /\ i + d \in (i + 1)..j /\ i + d \in 1..n
  BY <1>1, <1>16
<1>7. \A l \in 1..(d - 1) : s[i + l].quote # ""
  <2>1. \A l \in 1..(d - 1) : l \in 1..(j - i) /\ ~ (d <= l)
    BY <1>1, <1>6
  <2> QED
    BY <1>15, <2>1
<1> DEFINE Same(m) ==
             /\ s[m].quote = text[i] /\ s[m].stack = s[i].stack
             /\ s[m].escaped <=> Escaped(text, i, m + 1)
<1>8. ASSUME NEW l \in 1..d, Same(i + (l - 1)), l < d
      PROVE  Same(i + l)
  <2> DEFINE m == i + l
  <2>1. m \in (i + 1)..n /\ m - 1 \in 0..n /\ i + (l - 1) = m - 1
        /\ (m - 1) + 1 = m
    BY <1>1, <1>6
  <2>2. l \in 1..(d - 1)
    BY <1>6, <1>8
  <2>3. s[m].quote # ""
    BY <1>7, <2>2
  <2>4. s[m - 1].quote = text[i] /\ s[m - 1].stack = s[i].stack
        /\ (s[m - 1].escaped <=> Escaped(text, i, m))
    BY <1>8, <2>1
  <2>5. m \in 1..n
    BY <1>1, <2>1
  <2>6. InQuotes(s[m - 1], text[m], s[m])
    <3>1. ~ Outside(s[m - 1], text[m], s[m])
      BY <1>2, <2>4 DEF Outside, StringFrom
    <3> QED
      BY <2>5, <3>1 DEF Scanned
  <2>7. text[i] # "\\"
    BY <1>2 DEF StringFrom
  <2> HIDE DEF m, n
  <2>8. s[m].quote = text[i] /\ s[m].stack = s[i].stack
    BY <2>3, <2>4, <2>6 DEF InQuotes
  <2>9. s[m].escaped <=> (~ s[m - 1].escaped /\ text[m] = "\\")
    BY <2>6 DEF InQuotes
  <2>10. /\ text[m] # "\\" => ~ Escaped(text, i, m + 1)
         /\ text[m] = "\\" => (Escaped(text, i, m + 1) <=> ~ Escaped(text, i, m))
    BY <2>1, <2>7, EscapedSteps DEF n
  <2>11. Same(m)
    BY <2>4, <2>8, <2>9, <2>10
  <2> QED
    BY <2>11 DEF m
<1>9. \A l \in 0..(d - 1) : Same(i + l)
  <2> DEFINE T == {l \in 0..(d - 1) : Same(i + l)}
  <2>1. 0 \in T
    <3>1. 0 \in 0..(d - 1) /\ i + 0 = i /\ i + 1 \in (i + 1)..n
      BY <1>1, <1>6
    <3>2. text[i] # "\\"
      BY <1>2 DEF StringFrom
    <3>3. ~ Escaped(text, i, i + 1)
      BY <3>1, <3>2, EscapedSteps
    <3>4. Same(i)
      BY <1>3, <1>4, <3>3
    <3> HIDE DEF Same
    <3> QED
      BY <3>1, <3>4
  <2>2. ASSUME NEW l \in 1..(d - 1), l - 1 \in T PROVE l \in T
    <3>1. l \in 1..d /\ l < d
      BY <1>6
    <3> HIDE DEF Same
    <3> QED
      BY <1>8, <2>2, <3>1
  <2>3. d - 1 \in Nat
    BY <1>6
  <2>4. \A l \in 0..(d - 1) : l \in T
    <3> HIDE DEF T
    <3> QED
      BY <2>1, <2>2, <2>3, Counting
  <2> QED
    BY <2>4
<1>10. Same(k - 1) /\ k - 1 \in 0..n /\ k \in 1..n /\ (k - 1) + 1 = k
  <2>1. d - 1 \in 0..(d - 1) /\ i + (d - 1) = k - 1
    BY <1>1, <1>6
  <2>2. Same(k - 1)
    <3> HIDE DEF Same, k
    <3> QED
      BY <1>9, <2>1
  <2> HIDE DEF Same
  <2> QED
    BY <1>1, <1>6, <2>2
<1>11. /\ ~ s[k - 1].escaped /\ text[k] = text[i] /\ s[k].stack = s[i].stack
  <2>1. s[k - 1].quote = text[i] /\ s[k - 1].stack = s[i].stack
    BY <1>10
  <2>2. s[k - 1].quote # ""
    BY <1>2, <2>1 DEF StringFrom
  <2>3. InQuotes(s[k - 1], text[k], s[k])
    <3>1. ~ Outside(s[k - 1], text[k], s[k])
      BY <2>2 DEF Outside
    <3> QED
      BY <1>10, <3>1 DEF Scanned
  <2>4. s[k].quote = ""
    BY <1>14
  <2> HIDE DEF k
  <2> QED
    BY <2>1, <2>2, <2>3, <2>4 DEF InQuotes
<1>12. ASSUME NEW m \in (i + 1)..k, text[m] = text[i]
       PROVE  Escaped(text, i, m) <=> m < k
  <2> DEFINE l == m - 1 - i
  <2>1. l \in 0..(d - 1) /\ i + l = m - 1 /\ (m - 1) + 1 = m /\ m \in 1..n
    BY <1>1, <1>6
  <2>2. Same(m - 1)
    <3> HIDE DEF Same, l
    <3> QED
      BY <1>9, <2>1
  <2>3. s[m - 1].quote = text[i] /\ (s[m - 1].escaped <=> Escaped(text, i, m))
    BY <2>1, <2>2
  <2>4. CASE m = k
    BY <1>1, <1>6, <1>11, <2>3, <2>4
  <2>5. CASE m # k
    <3>1. m < k /\ m - i \in 1..(d - 1) /\ i + (m - i) = m
      BY <1>1, <1>6, <2>5
    <3>2. s[m].quote # ""
      BY <1>7, <3>1
    <3>3. InQuotes(s[m - 1], text[m], s[m])
      <4>1. ~ Outside(s[m - 1], text[m], s[m])
        BY <1>2, <2>3 DEF Outside, StringFrom
      <4> QED
        BY <2>1, <4>1 DEF Scanned
    <3>4. s[m - 1].escaped
      BY <1>2, <1>12, <2>3, <3>2, <3>3 DEF InQuotes, StringFrom
    <3> QED
      BY <2>3, <3>1, <3>4
  <2> QED
    BY <2>4, <2>5
<1>13. Quoted(text, i, k)
  BY <1>11, <1>12 DEF Quoted, StringFrom
<1> QED
  BY <1>3, <1>6, <1>11, <1>13, <1>14

(* From i to j a scan comes back to where it was, and never below. *)
Level(s, i, j) ==
  /\ s[i - 1].quote = "" /\ s[j].quote = "" /\ s[j].stack = s[i - 1].stack
  /\ \A m \in i..j : Len(s[m].stack) >= Len(s[i - 1].stack)

LEMMA PushOrPop ==
  ASSUME NEW S, NEW a \in Seq(S), NEW b,
         \/ b = a \/ \E t \in S : b = Append(a, t)
         \/ a # <<>> /\ b = SubSeq(a, 1, Len(a) - 1)
  PROVE  /\ b \in Seq(S) /\ Len(b) >= Len(a) - 1
         /\ \A q \in 1..Len(a) : q <= Len(b) => b[q] = a[q]
         /\ Len(b) < Len(a) => b # a /\ \A t \in S : b # Append(a, t)
<1>1. Len(a) \in Nat /\ \A q \in 1..Len(a) : a[q] \in S
  OBVIOUS
<1>2. \A t \in S : /\ Append(a, t) \in Seq(S) /\ Len(Append(a, t)) = Len(a) + 1
                   /\ \A q \in 1..Len(a) : Append(a, t)[q] = a[q]
  BY AppendProperties
<1>3. CASE b = a
  BY <1>1, <1>2, <1>3
<1>4. CASE \E t \in S : b = Append(a, t)
  BY <1>1, <1>2, <1>4
<1>5. CASE a # <<>> /\ b = SubSeq(a, 1, Len(a) - 1)
  <2>1. Len(a) > 0
    BY <1>1, <1>5, EmptySeq
  <2>2. Len(a) - 1 \in Int /\ 1 \in Int /\ \A q \in 1..(Len(a) - 1) : a[q] \in S
    BY <1>1
  <2>3. /\ b \in Seq(S)
        /\ Len(b) = (IF 1 <= Len(a) - 1 THEN Len(a) - 1 - 1 + 1 ELSE 0)
        /\ \A q \in 1..(Len(a) - 1 - 1 + 1) : b[q] = a[1 + q - 1]
    BY <1>5, <2>2, SubSeqProperties
  <2>4. Len(b) = Len(a) - 1
    <3> DEFINE n == Len(a)
    <3>1. n \in Nat /\ n > 0 /\ Len(b) = (IF 1 <= n - 1 THEN n - 1 - 1 + 1 ELSE 0)
      BY <1>1, <2>1, <2>3
    <3> HIDE DEF n
    <3>2. Len(b) = n - 1
      BY <3>1
    <3> QED
      BY <3>2 DEF n
  <2>5. \A q \in 1..Len(a) : q <= Len(b) => b[q] = a[q]
    BY <1>1, <2>3, <2>4
  <2>6. b # a /\ \A t \in S : b # Append(a, t)
    BY <1>1, <1>2, <2>4
  <2> QED
    BY <1>1, <2>3, <2>4, <2>5, <2>6
<1> QED
  BY <1>3, <1>4, <1>5

StackStep(s, text, m, a, b) ==
  /\ a \in Seq(Token) /\ b \in Seq(Token)
  /\ Len(b) >= Len(a) - 1
  /\ \A q \in 1..Len(a) : q <= Len(b) => b[q] = a[q]
  /\ Len(b) < Len(a) =>
       /\ s[m - 1].quote = "" /\ s[m].quote = ""
       /\ text[m] \in DOMAIN PairOf /\ PairOf[text[m]] = a[Len(a)]

LEMMA StackSteps ==
  ASSUME NEW text \in Seq(Token), NEW s, Scanned(s, text),
         NEW m \in 1..Len(text)
  PROVE  StackStep(s, text, m, s[m - 1].stack, s[m].stack)
<1> DEFINE a == s[m - 1].stack
           b == s[m].stack
           pop == /\ s[m - 1].quote = "" /\ s[m].quote = ""
                  /\ text[m] \in DOMAIN PairOf /\ PairOf[text[m]] = a[Len(a)]
<1>1. m - 1 \in 0..Len(text) /\ m \in 0..Len(text)
  <2>1. Len(text) \in Nat
    OBVIOUS
  <2> QED
    BY <2>1
<1>2. s[m - 1] \in ScanState
  BY <1>1 DEF Scanned
<1>3. a \in Seq(Token)
  BY <1>2 DEF ScanState
<1>4. text[m] \in Token
  OBVIOUS
<1>5. \/ b = a \/ b = Append(a, text[m])
      \/ a # <<>> /\ b = SubSeq(a, 1, Len(a) - 1) /\ pop
  <2>1. InQuotes(s[m - 1], text[m], s[m]) \/ Outside(s[m - 1], text[m], s[m])
    BY DEF Scanned
  <2>2. CASE InQuotes(s[m - 1], text[m], s[m])
    BY <2>2 DEF InQuotes
  <2>3. CASE Outside(s[m - 1], text[m], s[m])
    BY <2>3 DEF Outside
  <2> QED
    BY <2>1, <2>2, <2>3
<1> HIDE DEF a, b, pop
<1>6. \/ b = a \/ \E t \in Token : b = Append(a, t)
      \/ a # <<>> /\ b = SubSeq(a, 1, Len(a) - 1)
  BY <1>4, <1>5
<1>7. /\ b \in Seq(Token) /\ Len(b) >= Len(a) - 1
      /\ \A q \in 1..Len(a) : q <= Len(b) => b[q] = a[q]
      /\ Len(b) < Len(a) => b # a /\ \A t \in Token : b # Append(a, t)
  BY <1>3, <1>6, PushOrPop
<1>8. Len(b) < Len(a) => pop
  BY <1>4, <1>5, <1>7
<1> QED
  BY <1>3, <1>7, <1>8 DEF a, b, pop, StackStep

(* A bracket that is opened on a level is closed by its own kind, with a level
   inside and one after it. *)
BracketFrom(s, text, i, j) == text[i] \in Opening /\ Level(s, i, j)

LEMMA BracketCloses ==
  ASSUME NEW text \in Seq(Token), NEW s, Scanned(s, text),
         NEW i \in 1..Len(text), NEW j \in i..Len(text),
         BracketFrom(s, text, i, j)
  PROVE  \E k \in (i + 1)..j :
           /\ text[k] \in DOMAIN PairOf /\ PairOf[text[k]] = text[i]
           /\ Level(s, i + 1, k - 1) /\ Level(s, k + 1, j)
<1> DEFINE n == Len(text)
           a == s[i - 1].stack
           b == s[i].stack
           deep(m) == Len(s[m].stack)
           Ends == {d \in 1..(j - i) : deep(i + d) = Len(a)}
<1>1. n \in Nat /\ i \in Nat /\ j \in Nat /\ i <= j /\ 1 <= i /\ j <= n
  OBVIOUS
<1>2. text[i] \in Token
  OBVIOUS
<1>24. s[i].quote = "" /\ b = Append(a, text[i])
  <2>1. ~ InQuotes(s[i - 1], text[i], s[i])
    BY DEF InQuotes, BracketFrom, Level
  <2>2. Outside(s[i - 1], text[i], s[i])
    BY <2>1 DEF Scanned
  <2> QED
    BY <2>2, Pairs DEF Outside, BracketFrom, Opening, Quotes
<1>3. b = Append(a, text[i])
  BY <1>24
<1>4. a \in Seq(Token) /\ b \in Seq(Token)
  <2>1. StackStep(s, text, i, a, b)
    BY StackSteps
  <2> QED
    BY <2>1 DEF StackStep
<1>5. Len(a) \in Nat /\ Len(b) = Len(a) + 1 /\ b[Len(a) + 1] = text[i]
      /\ \A q \in 1..Len(a) : b[q] = a[q]
  <2> HIDE DEF a, b
  <2> QED
    BY <1>2, <1>3, <1>4, AppendProperties
<1>6. \A m \in i..j : deep(m) >= Len(a)
  BY DEF BracketFrom, Level
<1>7. \A m \in 0..n : s[m].stack \in Seq(Token) /\ deep(m) \in Nat
  <2> TAKE m \in 0..n
  <2>1. s[m] \in ScanState
    BY DEF Scanned
  <2>2. s[m].stack \in Seq(Token)
    BY <2>1 DEF ScanState
  <2> QED
    BY <2>2
<1>8. PICK d \in Ends : \A l \in Ends : d <= l
  <2>1. deep(j) = Len(a) /\ deep(i) = Len(b)
    BY DEF BracketFrom, Level
  <2> HIDE DEF a, b, deep
  <2>2. i # j
    BY <1>5, <2>1
  <2>3. j - i \in 1..(j - i) /\ i + (j - i) = j /\ j - i \in Nat
    BY <1>1, <2>2
  <2>4. j - i \in Ends
    BY <2>1, <2>3
  <2>5. Ends \in SUBSET (1..(j - i))
    OBVIOUS
  <2> HIDE DEF Ends
  <2> QED
    BY <2>3, <2>4, <2>5, SmallestExists
<1>9. d \in 1..(j - i) /\ deep(i + d) = Len(a)
  OBVIOUS
<1>10. \A l \in 1..(j - i) : deep(i + l) = Len(a) => d <= l
  BY <1>8
<1> HIDE DEF Ends
<1> DEFINE k == i + d
<1>11. /\ d \in Nat /\ 1 <= d /\ d <= j - i
       /\ k \in (i + 1)..j /\ k \in 1..n /\ k - 1 \in 0..n
  <2> HIDE DEF n, deep, a
  <2> QED
    BY <1>1, <1>9
<1>12. \A l \in 0..(d - 1) : deep(i + l) >= Len(b)
  <2> TAKE l \in 0..(d - 1)
  <2>1. deep(i) = Len(b)
    OBVIOUS
  <2> HIDE DEF deep, a, b
  <2>2. i + l \in i..j /\ i + l \in 0..n /\ l \in Nat
    BY <1>1, <1>11
  <2>3. deep(i + l) >= Len(a) /\ deep(i + l) \in Nat
    BY <1>6, <1>7, <2>2
  <2>4. CASE l = 0
    <3>1. i + l = i
      BY <1>1, <2>4
    <3> QED
      BY <1>5, <2>1, <3>1
  <2>5. CASE l # 0
    <3>1. l \in 1..(j - i) /\ ~ (d <= l)
      BY <1>1, <1>11, <2>5
    <3>2. deep(i + l) # Len(a)
      BY <1>10, <3>1
    <3> QED
      BY <1>5, <2>3, <3>2
  <2> QED
    BY <2>4, <2>5
<1> DEFINE Same(m) == \A q \in 1..Len(b) : s[m].stack[q] = b[q]
<1>13. \A l \in 0..(d - 1) : Same(i + l)
  <2> DEFINE T == {l \in 0..(d - 1) : Same(i + l)}
  <2>1. 0 \in T
    <3>1. i + 0 = i /\ 0 \in 0..(d - 1)
      BY <1>1, <1>11
    <3>2. Same(i)
      OBVIOUS
    <3> HIDE DEF Same
    <3> QED
      BY <3>1, <3>2
  <2>2. ASSUME NEW l \in 1..(d - 1), l - 1 \in T PROVE l \in T
    <3> DEFINE m == i + l
               x == s[m - 1].stack
               y == s[m].stack
    <3>1. /\ m \in 1..n /\ i + (l - 1) = m - 1 /\ l - 1 \in 0..(d - 1)
          /\ l \in 0..(d - 1)
      <4> HIDE DEF n, deep, a, b
      <4> QED
        BY <1>1, <1>11
    <3>2. \A q \in 1..Len(b) : x[q] = b[q]
      BY <2>2, <3>1
    <3>3. Len(x) >= Len(b) /\ Len(y) >= Len(b)
      <4>1. deep(m - 1) >= Len(b) /\ deep(m) >= Len(b)
        <5> HIDE DEF deep, b
        <5> QED
          BY <1>12, <3>1
      <4> QED
        BY <4>1
    <3>4. /\ x \in Seq(Token) /\ y \in Seq(Token)
          /\ \A q \in 1..Len(x) : q <= Len(y) => y[q] = x[q]
      <4>1. StackStep(s, text, m, x, y)
        BY <3>1, StackSteps
      <4> HIDE DEF m, x, y
      <4> QED
        BY <4>1 DEF StackStep
    <3>5. Len(b) \in Nat
      BY <1>4
    <3>6. \A q \in 1..Len(b) : y[q] = b[q]
      <4> HIDE DEF x, y, b
      <4>1. Len(x) \in Nat /\ Len(y) \in Nat
        BY <3>4
      <4> QED
        BY <3>2, <3>3, <3>4, <3>5, <4>1
    <3>7. Same(m)
      BY <3>6
    <3> HIDE DEF Same
    <3> QED
      BY <3>1, <3>7
  <2>3. d - 1 \in Nat
    BY <1>11
  <2>4. \A l \in 0..(d - 1) : l \in T
    <3> HIDE DEF T
    <3> QED
      BY <2>1, <2>2, <2>3, Counting
  <2> QED
    BY <2>4
<1> DEFINE x == s[k - 1].stack
           y == s[k].stack
<1>14. d - 1 \in 0..(d - 1) /\ i + (d - 1) = k - 1
  <2> HIDE DEF n, deep, a, b
  <2> QED
    BY <1>1, <1>11
<1>15. Len(x) >= Len(b) /\ \A q \in 1..Len(b) : x[q] = b[q]
  <2>1. deep(k - 1) >= Len(b) /\ Same(k - 1)
    <3> HIDE DEF deep, Same, b, k
    <3> QED
      BY <1>12, <1>13, <1>14
  <2> QED
    BY <2>1
<1>16. /\ x \in Seq(Token) /\ y \in Seq(Token) /\ Len(y) >= Len(x) - 1
       /\ \A q \in 1..Len(x) : q <= Len(y) => y[q] = x[q]
       /\ Len(y) < Len(x) =>
            /\ s[k - 1].quote = "" /\ s[k].quote = ""
            /\ text[k] \in DOMAIN PairOf /\ PairOf[text[k]] = x[Len(x)]
  <2>1. StackStep(s, text, k, x, y)
    BY <1>11, StackSteps
  <2> HIDE DEF k, x, y
  <2> QED
    BY <2>1 DEF StackStep
<1>17. Len(y) = Len(a)
  BY <1>9
<1> HIDE DEF x, y, a, b, k
<1>25. /\ x \in Seq(Token) /\ y \in Seq(Token) /\ Len(y) >= Len(x) - 1
       /\ \A q \in 1..Len(x) : q <= Len(y) => y[q] = x[q]
  BY <1>16
<1>18. /\ Len(x) = Len(b) /\ Len(y) < Len(x) /\ x[Len(x)] = text[i]
  <2>1. Len(x) \in Nat /\ Len(y) \in Nat /\ Len(a) \in Nat /\ Len(b) \in Nat
    BY <1>4, <1>25
  <2>2. Len(x) = Len(b) /\ Len(y) < Len(x)
    BY <1>5, <1>15, <1>25, <1>17, <2>1
  <2>3. Len(b) \in 1..Len(b)
    BY <1>5, <2>1
  <2> QED
    BY <1>5, <1>15, <2>2, <2>3
<1>19. x = b
  BY <1>4, <1>15, <1>25, <1>18, SeqEqual
<1>20. y = a
  <2>1. \A q \in 1..Len(y) : y[q] = a[q]
    <3>1. Len(y) \in Nat /\ Len(x) \in Nat
      BY <1>25
    <3>2. \A q \in 1..Len(y) : q \in 1..Len(x) /\ q \in 1..Len(a) /\ q <= Len(y)
      BY <1>17, <1>18, <3>1
    <3> QED
      BY <1>5, <1>25, <1>19, <3>2
  <2> QED
    BY <1>4, <1>25, <1>17, <2>1, SeqEqual
<1> USE DEF k
<1>21. Level(s, i + 1, k - 1)
  <2>1. (i + 1) - 1 = i
    BY <1>1
  <2>2. s[i].quote = "" /\ s[k - 1].quote = "" /\ s[k - 1].stack = s[i].stack
    BY <1>24, <1>16, <1>18, <1>19 DEF x, b
  <2>3. ASSUME NEW m \in (i + 1)..(k - 1)
        PROVE  Len(s[m].stack) >= Len(s[i].stack)
    <3>1. m - i \in 0..(d - 1) /\ i + (m - i) = m
      <4> HIDE DEF n, deep
      <4> QED
        BY <1>1, <1>11
    <3>2. deep(m) >= Len(b)
      <4> HIDE DEF deep
      <4> QED
        BY <1>12, <3>1
    <3> QED
      BY <3>2 DEF b
  <2> QED
    BY <2>1, <2>2, <2>3 DEF Level
<1>22. Level(s, k + 1, j)
  <2>1. (k + 1) - 1 = k
    BY <1>1, <1>11
  <2>2. s[k].quote = "" /\ s[j].quote = "" /\ s[j].stack = s[k].stack
    BY <1>16, <1>18, <1>20 DEF y, a, BracketFrom, Level
  <2>3. ASSUME NEW m \in (k + 1)..j
        PROVE  Len(s[m].stack) >= Len(s[k].stack)
    <3>1. m \in i..j
      <4> HIDE DEF n, deep
      <4> QED
        BY <1>1, <1>11
    <3>2. Len(s[m].stack) >= Len(a)
      BY <1>6, <3>1
    <3> QED
      BY <1>20, <3>2 DEF y
  <2> HIDE DEF k
  <2> QED
    BY <2>1, <2>2, <2>3 DEF Level
<1>23. text[k] \in DOMAIN PairOf /\ PairOf[text[k]] = text[i]
  BY <1>16, <1>18
<1> HIDE DEF k
<1> QED
  BY <1>11, <1>21, <1>22, <1>23

(* What WellFormed asks of an interval, given the well-formed ones. *)
MayBeWhole(W, text, i, j) ==
  \/ i > j
  \/ /\ text[i] \notin Quotes \union {"(", "[", "{", ")", "]", "}"}
     /\ <<i + 1, j>> \in W
  \/ \E k \in (i + 1)..j :
       /\ \/ /\ text[k] \in DOMAIN PairOf /\ PairOf[text[k]] = text[i]
             /\ <<i + 1, k - 1>> \in W
          \/ Quoted(text, i, k)
       /\ <<k + 1, j>> \in W

(* There is a least set of intervals that has all it may have. *)
LEMMA WholeSetExists ==
  ASSUME NEW text, NEW A, NEW B
  PROVE  \E W \in SUBSET (A \X B) :
           \A i \in A, j \in B : <<i, j>> \in W <=> MayBeWhole(W, text, i, j)
<1> DEFINE Closed(D) == \A i \in A, j \in B :
                          MayBeWhole(D, text, i, j) => <<i, j>> \in D
           W == {p \in A \X B : \A D \in SUBSET (A \X B) : Closed(D) => p \in D}
           V == {p \in A \X B : MayBeWhole(W, text, p[1], p[2])}
<1>1. ASSUME NEW C, NEW D, C \subseteq D, NEW i, NEW j,
             MayBeWhole(C, text, i, j)
      PROVE  MayBeWhole(D, text, i, j)
  BY <1>1 DEF MayBeWhole
<1>2. ASSUME NEW D \in SUBSET (A \X B), Closed(D) PROVE W \subseteq D
  BY <1>2
<1>3. Closed(W)
  <2> SUFFICES ASSUME NEW i \in A, NEW j \in B, MayBeWhole(W, text, i, j),
                      NEW D \in SUBSET (A \X B), Closed(D)
               PROVE  <<i, j>> \in D
    OBVIOUS
  <2>1. W \subseteq D
    BY <1>2
  <2> HIDE DEF W
  <2>2. MayBeWhole(D, text, i, j)
    BY <1>1, <2>1
  <2> QED
    BY <2>2
<1>4. \A i \in A, j \in B : <<i, j>> \in V <=> MayBeWhole(W, text, i, j)
  <2> HIDE DEF W
  <2> QED
    OBVIOUS
<1>5. V \subseteq W
  <2>1. \A p \in A \X B : p[1] \in A /\ p[2] \in B /\ p = <<p[1], p[2]>>
    OBVIOUS
  <2> HIDE DEF W
  <2> QED
    BY <1>3, <2>1
<1>6. V \in SUBSET (A \X B) /\ W \in SUBSET (A \X B)
  OBVIOUS
<1>7. Closed(V)
  <2> SUFFICES ASSUME NEW i \in A, NEW j \in B, MayBeWhole(V, text, i, j)
               PROVE  <<i, j>> \in V
    OBVIOUS
  <2> HIDE DEF V, W
  <2>1. MayBeWhole(W, text, i, j)
    BY <1>1, <1>5
  <2> QED
    BY <1>4, <2>1
<1>8. W \subseteq V
  <2> HIDE DEF V
  <2> QED
    BY <1>2, <1>6, <1>7
<1>9. W = V
  <2> HIDE DEF V, W
  <2> QED
    BY <1>5, <1>8
<1> HIDE DEF V, W
<1> QED
  BY <1>4, <1>6, <1>9

(* The function that WellFormed defines by recursion. *)
LEMMA WellFormedRule ==
  ASSUME NEW text \in Seq(Token)
  PROVE  \E W : /\ \A i \in 1..(Len(text) + 1), j \in 0..Len(text) :
                     <<i, j>> \in W <=> MayBeWhole(W, text, i, j)
                /\ WellFormed(text) <=> <<1, Len(text)>> \in W
<1> DEFINE n == Len(text)
           A == 1..(n + 1)
           B == 0..n
           Is(f) == f = [i \in A |-> [j \in B |->
             \/ i > j
             \/ /\ text[i] \notin Quotes \union {"(", "[", "{", ")", "]", "}"}
                /\ f[i + 1][j]
             \/ \E k \in (i + 1)..j :
                  /\ \/ /\ text[k] \in DOMAIN PairOf /\ PairOf[text[k]] = text[i]
                        /\ f[i + 1][k - 1]
                     \/ Quoted(text, i, k)
                  /\ f[k + 1][j]]]
           whole[i \in A] == [j \in B |->
             \/ i > j
             \/ /\ text[i] \notin Quotes \union {"(", "[", "{", ")", "]", "}"}
                /\ whole[i + 1][j]
             \/ \E k \in (i + 1)..j :
                  /\ \/ /\ text[k] \in DOMAIN PairOf /\ PairOf[text[k]] = text[i]
                        /\ whole[i + 1][k - 1]
                     \/ Quoted(text, i, k)
                  /\ whole[k + 1][j]]
<1>1. n \in Nat /\ 1 \in A /\ n \in B
  OBVIOUS
<1>2. PICK W \in SUBSET (A \X B) :
        \A i \in A, j \in B : <<i, j>> \in W <=> MayBeWhole(W, text, i, j)
  <2> HIDE DEF A, B
  <2> QED
    BY WholeSetExists
<1> DEFINE g == [i \in A |-> [j \in B |-> <<i, j>> \in W]]
<1>3. Is(g)
  <2>1. \A i \in A, j \in B : g[i][j] <=> <<i, j>> \in W
    OBVIOUS
  <2>2. ASSUME NEW i \in A, NEW j \in B
        PROVE  <<i, j>> \in W <=>
          \/ i > j
          \/ /\ text[i] \notin Quotes \union {"(", "[", "{", ")", "]", "}"}
             /\ g[i + 1][j]
          \/ \E k \in (i + 1)..j :
               /\ \/ /\ text[k] \in DOMAIN PairOf /\ PairOf[text[k]] = text[i]
                     /\ g[i + 1][k - 1]
                  \/ Quoted(text, i, k)
               /\ g[k + 1][j]
    <3>1. CASE i > j
      BY <1>2, <3>1 DEF MayBeWhole
    <3>2. CASE ~ (i > j)
      <4>1. i + 1 \in A /\ \A k \in (i + 1)..j : k - 1 \in B /\ k + 1 \in A
        BY <1>1, <3>2
      <4>2. /\ g[i + 1][j] <=> <<i + 1, j>> \in W
            /\ \A k \in (i + 1)..j :
                 /\ g[i + 1][k - 1] <=> <<i + 1, k - 1>> \in W
                 /\ g[k + 1][j] <=> <<k + 1, j>> \in W
        <5> HIDE DEF g, A, B
        <5> QED
          BY <2>1, <4>1
      <4> HIDE DEF g, A, B, n
      <4> QED
        BY <1>2, <3>2, <4>2, Zenon DEF MayBeWhole
    <3> QED
      BY <3>1, <3>2
  <2> DEFINE Rule(i, j) ==
               \/ i > j
               \/ /\ text[i] \notin Quotes \union {"(", "[", "{", ")", "]", "}"}
                  /\ g[i + 1][j]
               \/ \E k \in (i + 1)..j :
                    /\ \/ /\ text[k] \in DOMAIN PairOf /\ PairOf[text[k]] = text[i]
                          /\ g[i + 1][k - 1]
                       \/ Quoted(text, i, k)
                    /\ g[k + 1][j]
  <2>3. ASSUME NEW i \in A, NEW j \in B
        PROVE  (<<i, j>> \in W) = Rule(i, j)
    <3>1. <<i, j>> \in W <=> Rule(i, j)
      BY <2>2
    <3>2. Rule(i, j) = TRUE \/ Rule(i, j) = FALSE
      OBVIOUS
    <3>3. (<<i, j>> \in W) = TRUE \/ (<<i, j>> \in W) = FALSE
      OBVIOUS
    <3> HIDE DEF Rule, A, B, g
    <3>4. CASE <<i, j>> \in W
      BY <3>1, <3>2, <3>3, <3>4
    <3>5. CASE <<i, j>> \notin W
      BY <3>1, <3>2, <3>3, <3>5
    <3> QED
      BY <3>4, <3>5
  <2>4. g = [i \in A |-> [j \in B |-> Rule(i, j)]]
    <3> HIDE DEF Rule, A, B
    <3> QED
      BY <2>3
  <2> HIDE DEF g, A, B
  <2> QED
    BY <2>4
<1>4. \E f : Is(f)
  BY <1>3
<1>5. Is(whole)
  BY <1>4
<1> HIDE DEF g
<1>6. WellFormed(text) = whole[1][n]
  BY DEF WellFormed
<1> HIDE DEF whole
<1> DEFINE U == {p \in A \X B : whole[p[1]][p[2]]}
<1>7. \A i \in A, j \in B : <<i, j>> \in U <=> whole[i][j]
  OBVIOUS
<1>8. ASSUME NEW i \in A, NEW j \in B
      PROVE  <<i, j>> \in U <=> MayBeWhole(U, text, i, j)
  <2>1. whole[i][j] <=>
          \/ i > j
          \/ /\ text[i] \notin Quotes \union {"(", "[", "{", ")", "]", "}"}
             /\ whole[i + 1][j]
          \/ \E k \in (i + 1)..j :
               /\ \/ /\ text[k] \in DOMAIN PairOf /\ PairOf[text[k]] = text[i]
                     /\ whole[i + 1][k - 1]
                  \/ Quoted(text, i, k)
               /\ whole[k + 1][j]
    <3> HIDE DEF A, B, n
    <3> QED
      BY <1>5
  <2>2. CASE i > j
    BY <1>7, <2>1, <2>2 DEF MayBeWhole
  <2>3. CASE ~ (i > j)
    <3>1. i + 1 \in A /\ \A k \in (i + 1)..j : k - 1 \in B /\ k + 1 \in A
      BY <1>1, <2>3
    <3>2. /\ <<i + 1, j>> \in U <=> whole[i + 1][j]
          /\ \A k \in (i + 1)..j :
               /\ <<i + 1, k - 1>> \in U <=> whole[i + 1][k - 1]
               /\ <<k + 1, j>> \in U <=> whole[k + 1][j]
      <4> HIDE DEF U, A, B
      <4> QED
        BY <1>7, <3>1
    <3>3. whole[i][j] <=> MayBeWhole(U, text, i, j)
      <4> HIDE DEF U, A, B, n
      <4> QED
        BY <2>1, <2>3, <3>2, Zenon DEF MayBeWhole
    <3> QED
      BY <1>7, <3>3
  <2> QED
    BY <2>2, <2>3
<1>9. <<1, n>> \in U <=> whole[1][n]
  <2> HIDE DEF U, A, B
  <2> QED
    BY <1>1, <1>7
<1> HIDE DEF U
<1> QED
  BY <1>6, <1>8, <1>9

(* A level is well formed if the shorter ones are. *)
LEMMA LevelIsWhole ==
  ASSUME NEW text \in Seq(Token), NEW s, Scanned(s, text), NEW W,
         NEW i \in 1..Len(text), NEW j \in i..Len(text), Level(s, i, j),
         \A k \in (i + 1)..(j + 1) : Level(s, k, j) => <<k, j>> \in W,
         \A k \in (i + 1)..j : Level(s, i + 1, k - 1) => <<i + 1, k - 1>> \in W
  PROVE  MayBeWhole(W, text, i, j)
<1>1. /\ i + 1 \in (i + 1)..(j + 1) /\ (i + 1) - 1 = i /\ i \in i..j
      /\ \A k \in (i + 1)..j : k + 1 \in (i + 1)..(j + 1)
      /\ \A k \in (i + 1)..j : \A m \in (k + 1)..j : m \in i..j
      /\ \A k \in (i + 1)..j : (k + 1) - 1 = k
      /\ \A m \in (i + 1)..j : m \in i..j
      /\ i - 1 \in 0..Len(text)
  <2>1. Len(text) \in Nat
    OBVIOUS
  <2> QED
    BY <2>1
<1>2. CASE text[i] \in Quotes
  <2>1. StringFrom(s, text, i, j)
    BY <1>2 DEF StringFrom, Level
  <2>2. PICK k \in (i + 1)..j :
          /\ Quoted(text, i, k)
          /\ s[k].quote = "" /\ s[k].stack = s[i - 1].stack
    BY <2>1, StringIsQuoted
  <2>3. Level(s, k + 1, j)
    <3>1. (k + 1) - 1 = k
      BY <1>1
    <3>2. \A m \in (k + 1)..j : m \in i..j
      BY <1>1
    <3> QED
      BY <2>2, <3>1, <3>2 DEF Level
  <2>4. <<k + 1, j>> \in W
    BY <1>1, <2>3
  <2> QED
    BY <2>2, <2>4 DEF MayBeWhole
<1>3. CASE text[i] \in Opening
  <2>1. BracketFrom(s, text, i, j)
    BY <1>3 DEF BracketFrom
  <2>2. PICK k \in (i + 1)..j :
           /\ text[k] \in DOMAIN PairOf /\ PairOf[text[k]] = text[i]
           /\ Level(s, i + 1, k - 1) /\ Level(s, k + 1, j)
    BY <2>1, BracketCloses
  <2>3. <<k + 1, j>> \in W /\ <<i + 1, k - 1>> \in W
    BY <1>1, <2>2
  <2> QED
    BY <2>2, <2>3 DEF MayBeWhole
<1>4. CASE text[i] \notin Quotes /\ text[i] \notin Opening
  <2>1. Outside(s[i - 1], text[i], s[i])
    <3>1. ~ InQuotes(s[i - 1], text[i], s[i])
      BY DEF InQuotes, Level
    <3> QED
      BY <3>1 DEF Scanned
  <2>2. Len(s[i].stack) >= Len(s[i - 1].stack)
    BY <1>1 DEF Level
  <2>3. s[i - 1].stack \in Seq(Token)
    <3>1. s[i - 1] \in ScanState
      BY <1>1 DEF Scanned
    <3> QED
      BY <3>1 DEF ScanState
  <2> DEFINE a == s[i - 1].stack
             b == s[i].stack
  <2>4. ~ (a # <<>> /\ b = SubSeq(a, 1, Len(a) - 1))
    <3>1. a \in Seq(Token) /\ Len(b) >= Len(a)
      BY <2>2, <2>3
    <3> HIDE DEF a, b
    <3> SUFFICES ASSUME a # <<>>, b = SubSeq(a, 1, Len(a) - 1) PROVE FALSE
      OBVIOUS
    <3>2. Len(a) \in Nat /\ Len(a) > 0
      BY <3>1, EmptySeq
    <3>3. Len(b) = Len(a) - 1
      <4>1. /\ Len(a) - 1 \in Int /\ 1 \in Int
            /\ \A q \in 1..(Len(a) - 1) : a[q] \in Token
        BY <3>1, <3>2
      <4>2. Len(b) = IF 1 <= Len(a) - 1 THEN Len(a) - 1 - 1 + 1 ELSE 0
        BY <4>1, SubSeqProperties
      <4> DEFINE z == Len(a)
      <4>3. /\ z \in Nat /\ z > 0
            /\ Len(b) = IF 1 <= z - 1 THEN z - 1 - 1 + 1 ELSE 0
        BY <3>2, <4>2
      <4> HIDE DEF z
      <4>4. Len(b) = z - 1
        BY <4>3
      <4> QED
        BY <4>4 DEF z
    <3> QED
      BY <3>1, <3>2, <3>3
  <2>5. /\ s[i].quote = "" /\ b = a
        /\ text[i] \notin Quotes \union {"(", "[", "{", ")", "]", "}"}
    <3>1. text[i] \notin Quotes /\ text[i] \notin Opening
      BY <1>4
    <3> QED
      BY <2>1, <2>4, <3>1 DEF Outside
  <2>6. Level(s, i + 1, j)
    <3>1. s[j].quote = "" /\ s[j].stack = a
          /\ \A m \in i..j : Len(s[m].stack) >= Len(a)
      BY DEF Level
    <3> QED
      BY <1>1, <2>5, <3>1 DEF Level
  <2>7. <<i + 1, j>> \in W
    BY <1>1, <2>6
  <2> QED
    BY <2>5, <2>7 DEF MayBeWhole
<1> QED
  BY <1>2, <1>3, <1>4

(* What firstUnbalancedDelimiter accepts is well formed. *)
LEMMA BalancedIsWellFormed ==
  ASSUME NEW text \in Seq(Token), Balanced(text)
  PROVE  WellFormed(text)
<1> DEFINE n == Len(text)
<1>1. n \in Nat
  OBVIOUS
<1>2. PICK s : /\ Scanned(s, text)
               /\ s[0].quote = "" /\ s[0].stack = <<>>
               /\ s[n].quote = "" /\ s[n].stack = <<>>
  BY BalancedIsScanned
<1>3. PICK W : /\ \A i \in 1..(n + 1), j \in 0..n :
                    <<i, j>> \in W <=> MayBeWhole(W, text, i, j)
               /\ WellFormed(text) <=> <<1, n>> \in W
  BY WellFormedRule
<1> DEFINE T == {l \in 0..n : \A i \in 1..(n + 1), j \in 0..n :
                   j - i + 1 = l /\ Level(s, i, j) => <<i, j>> \in W}
<1>4. ASSUME NEW i \in 1..(n + 1), NEW j \in 0..n, i > j
      PROVE  <<i, j>> \in W
  BY <1>3, <1>4 DEF MayBeWhole
<1>5. ASSUME NEW l \in 0..n, \A h \in 0..n : h < l => h \in T
      PROVE  l \in T
  <2> SUFFICES ASSUME NEW i \in 1..(n + 1), NEW j \in 0..n, j - i + 1 = l,
                      Level(s, i, j)
               PROVE  <<i, j>> \in W
    OBVIOUS
  <2>1. CASE i > j
    BY <1>4, <2>1
  <2>2. CASE ~ (i > j)
    <3> HIDE DEF n
    <3>1. i \in 1..n /\ j \in i..n
      BY <1>1, <2>2
    <3>2. \A h \in 0..n : h < l =>
            \A x \in 1..(n + 1), y \in 0..n :
              y - x + 1 = h /\ Level(s, x, y) => <<x, y>> \in W
      BY <1>5
    <3>3. ASSUME NEW k \in (i + 1)..(j + 1), Level(s, k, j)
          PROVE  <<k, j>> \in W
      <4>1. k \in 1..(n + 1) /\ j - k + 1 \in 0..n /\ j - k + 1 < l
        BY <1>1, <3>1
      <4> QED
        BY <3>2, <3>3, <4>1
    <3>4. ASSUME NEW k \in (i + 1)..j, Level(s, i + 1, k - 1)
          PROVE  <<i + 1, k - 1>> \in W
      <4>1. /\ i + 1 \in 1..(n + 1) /\ k - 1 \in 0..n
            /\ (k - 1) - (i + 1) + 1 \in 0..n /\ (k - 1) - (i + 1) + 1 < l
        BY <1>1, <3>1
      <4> QED
        BY <3>2, <3>4, <4>1
    <3> USE DEF n
    <3>5. MayBeWhole(W, text, i, j)
      BY <1>2, <3>1, <3>3, <3>4, LevelIsWhole
    <3> QED
      BY <1>3, <3>5
  <2> QED
    BY <2>1, <2>2
<1>6. \A l \in 0..n : l \in T
  <2> HIDE DEF T, n
  <2> QED
    BY <1>1, <1>5, StrongCounting
<1>7. Level(s, 1, n)
  <2>1. \A m \in 1..n : Len(s[m].stack) >= Len(s[0].stack)
    <3> TAKE m \in 1..n
    <3>1. s[m] \in ScanState
      <4>1. m \in 0..n
        BY <1>1
      <4> QED
        BY <1>2, <4>1 DEF Scanned
    <3>2. s[m].stack \in Seq(Token)
      BY <3>1 DEF ScanState
    <3>3. Len(s[m].stack) \in Nat
      BY <3>2
    <3>4. Len(s[0].stack) = 0
      <4>1. Len(<<>>) = 0
        OBVIOUS
      <4> QED
        BY <1>2, <4>1
    <3> QED
      BY <3>3, <3>4
  <2>2. 1 - 1 = 0
    OBVIOUS
  <2> QED
    BY <1>2, <2>1, <2>2 DEF Level
<1>8. <<1, n>> \in W
  <2>1. n \in T
    BY <1>1, <1>6
  <2>2. 1 \in 1..(n + 1) /\ n \in 0..n /\ n - 1 + 1 = n
    BY <1>1
  <2> QED
    BY <1>7, <2>1, <2>2
<1> QED
  BY <1>3, <1>8

(* The code outside of a string, while everything fits. *)
Plain(x) == x \in ScanState /\ x.fits /\ x.quote = "" /\ ~ x.escaped

LEMMA StatesEqual ==
  ASSUME NEW x \in ScanState, NEW y \in ScanState, x.stack = y.stack,
         x.quote = y.quote, x.escaped = y.escaped, x.fits = y.fits
  PROVE  x = y
<1>1. x = [stack |-> x.stack, quote |-> x.quote, escaped |-> x.escaped,
           fits |-> x.fits]
  BY DEF ScanState
<1>2. y = [stack |-> y.stack, quote |-> y.quote, escaped |-> y.escaped,
           fits |-> y.fits]
  BY DEF ScanState
<1> QED
  BY <1>1, <1>2

(* A token in a string, and each kind of token outside. *)
LEMMA ScanInside ==
  ASSUME NEW x \in ScanState, NEW t \in Token, x.fits, x.quote # ""
  PROVE  /\ Scan(x, t) \in ScanState /\ Scan(x, t).fits
         /\ InQuotes(x, t, Scan(x, t))
<1>1. Scan(x, t) \in ScanState
  BY ScanCases
<1>2. Scan(x, t).fits
  <2>1. Scan(x, t) = ScanString(x, t)
    BY DEF Scan
  <2>2. ScanString(x, t) \in {[x EXCEPT !.escaped = FALSE],
                              [x EXCEPT !.escaped = TRUE],
                              [x EXCEPT !.quote = IF t = @ THEN "" ELSE @]}
    BY DEF ScanString
  <2> QED
    BY <2>1, <2>2 DEF ScanState
<1>3. ~ Outside(x, t, Scan(x, t))
  BY DEF Outside
<1> QED
  BY <1>1, <1>2, <1>3, ScanCases

LEMMA ScanPlain ==
  ASSUME NEW x, Plain(x), NEW t \in Token
  PROVE  /\ t \notin Quotes \union {"(", "[", "{", ")", "]", "}"} => Scan(x, t) = x
         /\ t \in Quotes => Scan(x, t) = [x EXCEPT !.quote = t]
         /\ t \in Opening => Scan(x, t) = [x EXCEPT !.stack = Append(@, t)]
         /\ t \in DOMAIN PairOf /\ x.stack # <<>> /\ Last(x.stack) = PairOf[t] =>
              Scan(x, t) = [x EXCEPT !.stack = Front(@)]
<1>1. Scan(x, t) = ScanCode(x, t)
  BY DEF Scan, Plain
<1>2. CASE t \notin Quotes \union {"(", "[", "{", ")", "]", "}"}
  BY <1>1, <1>2, Pairs DEF ScanCode, Opening
<1>3. CASE t \in Quotes
  BY <1>1, <1>3, Pairs DEF ScanCode, Opening, Quotes
<1>4. CASE t \in Opening
  BY <1>1, <1>4, Pairs DEF ScanCode, Opening, Quotes
<1>5. CASE t \in DOMAIN PairOf
  BY <1>1, <1>5, Pairs DEF ScanCode, Opening, Quotes
<1> QED
  BY <1>2, <1>3, <1>4, <1>5

(* In a string the scan knows the quote, and whether an escape is open. *)
InString(s, text, i, x, m) ==
  /\ s[m].fits /\ s[m].quote = text[i] /\ s[m].stack = x.stack
  /\ s[m].escaped <=> Escaped(text, i, m + 1)

(* A quoted string leaves the scan as it was. *)
LEMMA QuotedIsScanned ==
  ASSUME NEW text \in Seq(Token), NEW s, Scans(s, text),
         NEW i \in 1..Len(text), Plain(s[i - 1]),
         NEW k \in (i + 1)..Len(text), Quoted(text, i, k)
  PROVE  s[k] = s[i - 1]
<1> DEFINE n == Len(text)
           x == s[i - 1]
           d == k - i
<1>1. /\ n \in Nat /\ i \in Nat /\ k \in Nat /\ 1 <= i /\ i < k /\ k <= n
      /\ d \in Nat /\ d >= 1 /\ i + d = k /\ i - 1 \in 0..n /\ i \in 0..n
      /\ k - 1 \in 0..n /\ k \in 1..n /\ d - 1 \in Nat
      /\ i + (d - 1) = k - 1 /\ (k - 1) + 1 = k /\ i + 0 = i
      /\ i + 1 \in (i + 1)..n /\ 0 \in 0..(d - 1) /\ d - 1 \in 0..(d - 1)
  OBVIOUS
<1>2. \A l \in 1..(d - 1) :
        /\ i + l \in (i + 1)..n /\ i + l \in (i + 1)..k /\ i + l < k
        /\ i + (l - 1) = (i + l) - 1 /\ i + l \in 1..n /\ (i + l) - 1 \in 0..n
        /\ ((i + l) - 1) + 1 = i + l
  BY <1>1
<1>3. \A m \in 0..n : s[m] \in ScanState
  BY DEF Scans
<1>4. \A m \in 1..n : text[m] \in Token /\ s[m] = Scan(s[m - 1], text[m])
  BY DEF Scans
<1>5. /\ text[i] \in Quotes /\ text[k] = text[i]
      /\ \A m \in (i + 1)..k : text[m] = text[i] => (Escaped(text, i, m) <=> m < k)
  BY DEF Quoted
<1>6. "\\" \notin Quotes /\ "" \notin Quotes
  BY DEF Quotes
<1>7. text[i] # "\\" /\ text[i] # ""
  BY <1>5, <1>6
<1>8. InString(s, text, i, x, i)
  <2>1. s[i] = [x EXCEPT !.quote = text[i]]
    BY <1>4, <1>5, ScanPlain
  <2>2. ~ Escaped(text, i, i + 1)
    BY <1>1, <1>7, EscapedSteps
  <2>3. x \in ScanState /\ x.fits /\ ~ x.escaped
    BY DEF Plain
  <2>4. /\ s[i].fits /\ s[i].quote = text[i] /\ s[i].stack = x.stack
        /\ ~ s[i].escaped
    BY <2>1, <2>3 DEF ScanState
  <2> QED
    BY <2>2, <2>4 DEF InString
<1> HIDE DEF x
<1>9. ASSUME NEW l \in 1..(d - 1), InString(s, text, i, x, i + (l - 1))
      PROVE  InString(s, text, i, x, i + l)
  <2> DEFINE m == i + l
  <2>1. /\ m \in (i + 1)..n /\ m \in (i + 1)..k /\ m < k
        /\ m \in 1..n /\ m - 1 \in 0..n
    BY <1>2
  <2>2. InString(s, text, i, x, m - 1) /\ (m - 1) + 1 = m
    BY <1>2, <1>9
  <2> HIDE DEF m
  <2>3. /\ s[m - 1].fits /\ s[m - 1].quote = text[i] /\ s[m - 1].stack = x.stack
        /\ s[m - 1].escaped <=> Escaped(text, i, m)
    BY <2>2 DEF InString
  <2>4. s[m].fits /\ InQuotes(s[m - 1], text[m], s[m])
    BY <1>3, <1>4, <1>7, <2>1, <2>3, ScanInside
  <2>5. /\ text[m] # "\\" => ~ Escaped(text, i, m + 1)
        /\ text[m] = "\\" => (Escaped(text, i, m + 1) <=> ~ Escaped(text, i, m))
    BY <1>7, <2>1, EscapedSteps
  <2>6. text[m] = text[i] => s[m - 1].escaped
    BY <1>5, <2>1, <2>3
  <2>7. s[m].quote = text[i] /\ s[m].stack = x.stack
    BY <2>3, <2>4, <2>6 DEF InQuotes
  <2>8. s[m].escaped <=> Escaped(text, i, m + 1)
    <3>1. s[m].escaped <=> (~ s[m - 1].escaped /\ text[m] = "\\")
      BY <2>4 DEF InQuotes
    <3> QED
      BY <2>3, <2>5, <3>1
  <2>9. InString(s, text, i, x, m)
    BY <2>4, <2>7, <2>8 DEF InString
  <2> QED
    BY <2>9 DEF m
<1>10. InString(s, text, i, x, k - 1)
  <2> DEFINE T == {l \in 0..(d - 1) : InString(s, text, i, x, i + l)}
  <2>1. 0 \in T
    BY <1>1, <1>8
  <2>2. ASSUME NEW l \in 1..(d - 1), l - 1 \in T PROVE l \in T
    BY <1>9, <2>2
  <2>3. \A l \in 0..(d - 1) : l \in T
    <3> HIDE DEF T, d
    <3> QED
      BY <1>1, <2>1, <2>2, Counting
  <2> QED
    BY <1>1, <2>3
<1>11. /\ s[k - 1].fits /\ s[k - 1].quote = text[i] /\ s[k - 1].stack = x.stack
       /\ s[k - 1].escaped <=> Escaped(text, i, k)
  BY <1>1, <1>10 DEF InString
<1>12. ~ s[k - 1].escaped
  <2>1. k \in (i + 1)..k /\ ~ (k < k)
    BY <1>1
  <2> QED
    BY <1>5, <1>11, <2>1
<1>13. s[k].fits /\ InQuotes(s[k - 1], text[k], s[k])
  BY <1>1, <1>3, <1>4, <1>7, <1>11, ScanInside
<1>14. s[k].quote = "" /\ s[k].stack = x.stack /\ ~ s[k].escaped
  BY <1>5, <1>7, <1>11, <1>12, <1>13 DEF InQuotes
<1>15. x \in ScanState /\ x.fits /\ x.quote = "" /\ ~ x.escaped
  BY DEF Plain, x
<1>16. s[k] \in ScanState
  BY <1>1, <1>3
<1>17. s[k].escaped = x.escaped /\ s[k].fits = x.fits
  BY <1>13, <1>14, <1>15, <1>16 DEF ScanState
<1>18. s[k] = x
  BY <1>14, <1>15, <1>16, <1>17, StatesEqual
<1> QED
  BY <1>18 DEF x

(* A well-formed interval leaves the scan as it was, if the shorter ones do. *)
LEMMA WholeIsScanned ==
  ASSUME NEW text \in Seq(Token), NEW s, Scans(s, text), NEW W,
         NEW i \in 1..Len(text), NEW j \in i..Len(text), Plain(s[i - 1]),
         MayBeWhole(W, text, i, j),
         \A k \in (i + 1)..(j + 1) :
           <<k, j>> \in W /\ Plain(s[k - 1]) => s[j] = s[k - 1],
         \A k \in (i + 1)..j :
           <<i + 1, k - 1>> \in W /\ Plain(s[i]) => s[k - 1] = s[i]
  PROVE  s[j] = s[i - 1]
<1> DEFINE x == s[i - 1]
<1>1. /\ i + 1 \in (i + 1)..(j + 1) /\ (i + 1) - 1 = i /\ i \in 1..Len(text)
      /\ \A k \in (i + 1)..j : /\ k + 1 \in (i + 1)..(j + 1) /\ (k + 1) - 1 = k
                              /\ k \in 1..Len(text) /\ k \in (i + 1)..Len(text)
      /\ ~ (i > j)
  <2>1. Len(text) \in Nat
    OBVIOUS
  <2> QED
    BY <2>1
<1>2. \A m \in 1..Len(text) : text[m] \in Token /\ s[m] = Scan(s[m - 1], text[m])
  BY DEF Scans
<1>3. x \in ScanState /\ x.fits /\ x.quote = "" /\ ~ x.escaped
  BY DEF Plain
<1>4. CASE /\ text[i] \notin Quotes \union {"(", "[", "{", ")", "]", "}"}
           /\ <<i + 1, j>> \in W
  <2>1. s[i] = s[i - 1]
    <3>1. s[i] = Scan(x, text[i]) /\ text[i] \in Token /\ Plain(x)
      BY <1>1, <1>2
    <3>2. x = s[i - 1]
      OBVIOUS
    <3> HIDE DEF x
    <3> QED
      BY <1>4, <3>1, <3>2, ScanPlain
  <2>2. s[j] = s[(i + 1) - 1]
    BY <1>1, <1>4, <2>1
  <2> QED
    BY <1>1, <2>1, <2>2
<1>5. ASSUME NEW k \in (i + 1)..j, <<k + 1, j>> \in W, s[k] = s[i - 1]
      PROVE  s[j] = s[i - 1]
  <2>1. s[j] = s[(k + 1) - 1]
    BY <1>1, <1>5
  <2> QED
    BY <1>1, <1>5, <2>1
<1>6. ASSUME NEW k \in (i + 1)..j, Quoted(text, i, k)
      PROVE  s[k] = s[i - 1]
  BY <1>1, <1>6, QuotedIsScanned
<1>7. ASSUME NEW k \in (i + 1)..j, text[k] \in DOMAIN PairOf,
             PairOf[text[k]] = text[i], <<i + 1, k - 1>> \in W
      PROVE  s[k] = s[i - 1]
  <2>1. text[i] \in Opening
    BY <1>7, Pairs DEF Opening
  <2>2. s[i] = [x EXCEPT !.stack = Append(@, text[i])]
    <3>1. s[i] = Scan(x, text[i]) /\ text[i] \in Token /\ Plain(x)
      BY <1>1, <1>2
    <3> HIDE DEF x
    <3> QED
      BY <2>1, <3>1, ScanPlain
  <2>3. x.stack \in Seq(Token) /\ text[i] \in Token
    BY <1>2, <1>3 DEF ScanState
  <2> DEFINE a == x.stack
             b == Append(a, text[i])
  <2>4. b \in Seq(Token) /\ b # <<>> /\ Last(b) = text[i] /\ Front(b) = a
    <3> HIDE DEF a
    <3>1. /\ b \in Seq(Token) /\ Len(b) = Len(a) + 1 /\ Len(a) \in Nat
          /\ b[Len(a) + 1] = text[i] /\ \A q \in 1..Len(a) : b[q] = a[q]
      BY <2>3, AppendProperties DEF a
    <3> HIDE DEF b
    <3>2. Len(a) \in 0..Len(b) /\ Len(b) - 1 = Len(a)
      BY <3>1
    <3> DEFINE c == SubSeq(b, 1, Len(a))
    <3>3. /\ c \in Seq(Token) /\ Len(c) = Len(a)
          /\ \A q \in 1..Len(a) : c[q] = b[q]
      BY <3>1, <3>2, StartOf
    <3> HIDE DEF c
    <3>4. c = a
      BY <2>3, <3>1, <3>3, SeqEqual DEF a
    <3>5. b # <<>>
      <4>1. Len(<<>>) = 0
        OBVIOUS
      <4> QED
        BY <3>1, <4>1
    <3>6. Last(b) = text[i]
      BY <3>1 DEF Last
    <3>7. Front(b) = a
      BY <3>2, <3>4 DEF Front, c
    <3> QED
      BY <3>1, <3>5, <3>6, <3>7
  <2>5. /\ s[i].stack = b /\ s[i].quote = x.quote /\ s[i].escaped = x.escaped
        /\ s[i].fits = x.fits /\ s[i] \in ScanState
    <3> HIDE DEF b
    <3>1. s[i] = [x EXCEPT !.stack = b]
      BY <2>2 DEF b
    <3> QED
      BY <1>3, <2>4, <3>1 DEF ScanState
  <2>6. Plain(s[i])
    BY <1>3, <2>5 DEF Plain
  <2>7. s[k - 1] = s[i]
    BY <1>7, <2>6
  <2>8. s[k] = [s[i] EXCEPT !.stack = Front(@)]
    <3> HIDE DEF b
    <3>1. s[k] = Scan(s[i], text[k]) /\ text[k] \in Token
      BY <1>1, <1>2, <2>7
    <3>2. s[i].stack # <<>> /\ Last(s[i].stack) = PairOf[text[k]]
      BY <1>7, <2>4, <2>5
    <3> QED
      BY <1>7, <2>6, <3>1, <3>2, ScanPlain
  <2>9. /\ s[k].stack = a /\ s[k].quote = x.quote /\ s[k].escaped = x.escaped
        /\ s[k].fits = x.fits /\ s[k] \in ScanState
    <3>1. a \in Seq(Token)
      BY <2>3
    <3> HIDE DEF a, b
    <3>2. s[k] = [s[i] EXCEPT !.stack = a]
      BY <2>4, <2>5, <2>8
    <3> QED
      BY <2>5, <3>1, <3>2 DEF ScanState
  <2> QED
    BY <1>3, <2>9, StatesEqual
<1> QED
  BY <1>1, <1>4, <1>5, <1>6, <1>7 DEF MayBeWhole

(* firstUnbalancedDelimiter (orchestrator.go:575-620) accepts the texts that
   are well formed, and no others. *)
THEOREM BalancedIffWellFormed ==
  ASSUME NEW text \in Seq(Token)
  PROVE  Balanced(text) <=> WellFormed(text)
<1> DEFINE n == Len(text)
<1>1. n \in Nat
  OBVIOUS
<1>2. PICK s : /\ Scans(s, text)
               /\ Balanced(text) <=> /\ s[n].fits /\ s[n].quote = ""
                                     /\ s[n].stack = <<>>
  BY BalancedRule
<1>3. PICK W : /\ \A i \in 1..(n + 1), j \in 0..n :
                    <<i, j>> \in W <=> MayBeWhole(W, text, i, j)
               /\ WellFormed(text) <=> <<1, n>> \in W
  BY WellFormedRule
<1>4. Plain(s[0])
  <2>1. ScanStart.fits
    BY DEF ScanStart
  <2>2. s[0] = ScanStart
    BY <1>2 DEF Scans
  <2> QED
    BY <2>1, <2>2, ScanStarts DEF Plain
<1> DEFINE Same(i, j) == <<i, j>> \in W /\ Plain(s[i - 1]) => s[j] = s[i - 1]
           T == {l \in 0..n : \A i \in 1..(n + 1), j \in 0..n :
                   j - i + 1 = l => Same(i, j)}
<1>5. ASSUME NEW l \in 0..n, \A h \in 0..n : h < l => h \in T
      PROVE  l \in T
  <2> SUFFICES ASSUME NEW i \in 1..(n + 1), NEW j \in 0..n, j - i + 1 = l,
                      <<i, j>> \in W, Plain(s[i - 1])
               PROVE  s[j] = s[i - 1]
    OBVIOUS
  <2>1. CASE l = 0
    <3>1. j = i - 1
      BY <1>1, <2>1
    <3> QED
      BY <3>1
  <2>2. CASE l # 0
    <3> HIDE DEF n
    <3>1. i \in 1..n /\ j \in i..n
      BY <1>1, <2>2
    <3>2. \A h \in 0..n : h < l =>
            \A x \in 1..(n + 1), y \in 0..n : y - x + 1 = h => Same(x, y)
      BY <1>5
    <3> HIDE DEF Same
    <3>3. ASSUME NEW k \in (i + 1)..(j + 1) PROVE Same(k, j)
      <4>1. k \in 1..(n + 1) /\ j - k + 1 \in 0..n /\ j - k + 1 < l
        BY <1>1, <3>1
      <4> QED
        BY <3>2, <4>1
    <3>4. ASSUME NEW k \in (i + 1)..j PROVE Same(i + 1, k - 1)
      <4>1. /\ i + 1 \in 1..(n + 1) /\ k - 1 \in 0..n
            /\ (k - 1) - (i + 1) + 1 \in 0..n /\ (k - 1) - (i + 1) + 1 < l
        BY <1>1, <3>1
      <4> QED
        BY <3>2, <4>1
    <3> USE DEF n, Same
    <3>5. (i + 1) - 1 = i
      BY <3>1
    <3>6. MayBeWhole(W, text, i, j)
      BY <1>3
    <3>7. /\ \A k \in (i + 1)..(j + 1) :
               <<k, j>> \in W /\ Plain(s[k - 1]) => s[j] = s[k - 1]
          /\ \A k \in (i + 1)..j :
               <<i + 1, k - 1>> \in W /\ Plain(s[i]) => s[k - 1] = s[i]
      BY <3>3, <3>4, <3>5
    <3> QED
      BY <1>2, <3>1, <3>6, <3>7, WholeIsScanned
  <2> QED
    BY <2>1, <2>2
<1>6. \A l \in 0..n : l \in T
  <2> HIDE DEF T, n
  <2> QED
    BY <1>1, <1>5, StrongCounting
<1>7. ASSUME WellFormed(text) PROVE Balanced(text)
  <2>1. <<1, n>> \in W
    BY <1>3, <1>7
  <2>2. 1 \in 1..(n + 1) /\ n \in 0..n /\ n - 1 + 1 = n /\ 1 - 1 = 0
    BY <1>1
  <2>3. n \in T
    BY <1>6, <2>2
  <2>4. Same(1, n)
    <3> HIDE DEF Same, n
    <3> QED
      BY <2>2, <2>3
  <2>5. s[n] = s[0]
    BY <1>4, <2>1, <2>2, <2>4
  <2>6. s[0] = ScanStart
    BY <1>2 DEF Scans
  <2>7. s[n].fits /\ s[n].quote = "" /\ s[n].stack = <<>>
    BY <1>4, <2>5, <2>6, ScanStarts DEF Plain
  <2> QED
    BY <1>2, <2>7
<1> QED
  BY <1>7, BalancedIsWellFormed

-----------------------------------------------------------------------------
(* The inductive invariant of SiteFiles. *)

SiteFile == [path : FilePath, text : Seq(Token), order : Nat]

SiteTypeOK ==
  /\ project \in Seq(SiteFile)
  /\ tries \in 0..MaxRepairs
  /\ step \in {"stream", "single", "check", "repair", "save", "apologise",
               "left", "saved"}
  /\ step = "repair" => tries < MaxRepairs
  /\ DOMAIN meant \subseteq FilePath
  /\ \A p \in DOMAIN meant : meant[p] \in Seq(Token)

(* The files stand in the order of the answer, and none is empty. *)
Ordered(files) ==
  \A i, j \in 1..Len(files) : i < j => files[i].order < files[j].order
Filled(files) == \A i \in 1..Len(files) : files[i].text # <<>>

(* The last file of a path has what the model wrote last for it. *)
LastOf(files, i) ==
  \A j \in 1..Len(files) : Clean(files[j].path) = Clean(files[i].path) => j <= i
LastAsMeant(files, texts) ==
  \A i \in 1..Len(files) :
    LastOf(files, i) =>
      /\ Clean(files[i].path) \in DOMAIN texts
      /\ files[i].text = BeforeMark(texts[Clean(files[i].path)])

(* What is saved was checked, and what is stored was saved. *)
SavedIsChecked ==
  step \in {"save", "saved"} => validateWebsiteProjectFiles(project) = {}
StoredIsProject ==
  stored # {} =>
    /\ step = "saved" /\ stored = ToSet(project) /\ Distinct(project)
    /\ \A i \in 1..Len(project) :
         project[i].path = IndexHTML => entry = project[i].text

SiteInv == /\ SiteTypeOK /\ Ordered(project) /\ Filled(project)
           /\ LastAsMeant(project, meant) /\ SavedIsChecked /\ StoredIsProject

(* What stands before the first "===". *)
CutAtMark(short, text) ==
  /\ short \in Seq(Token) /\ Len(short) <= Len(text)
  /\ \A i \in 1..Len(short) : short[i] = text[i] /\ short[i] # "==="
  /\ short = text \/ text[Len(short) + 1] = "==="

LEMMA BeforeMarkCuts ==
  ASSUME NEW text \in Seq(Token)
  PROVE  CutAtMark(BeforeMark(text), text)
<1> DEFINE Marks == {i \in 1..Len(text) : text[i] = "==="}
           short == BeforeMark(text)
<1>1. Len(text) \in Nat /\ \A i \in 1..Len(text) : text[i] \in Token
  OBVIOUS
<1>2. short = IF (IF Marks # {} THEN Min(Marks) ELSE 0) = 0 THEN text
              ELSE SubSeq(text, 1, (IF Marks # {} THEN Min(Marks) ELSE 0) - 1)
  BY DEF BeforeMark, SelectInSeq
<1>3. CASE Marks = {}
  <2>1. short = text
    BY <1>2, <1>3
  <2>2. \A i \in 1..Len(text) : text[i] # "==="
    BY <1>3
  <2>3. Len(text) <= Len(text)
    BY <1>1
  <2> HIDE DEF short
  <2>4. CutAtMark(short, text)
    BY <2>1, <2>2, <2>3 DEF CutAtMark
  <2> QED
    BY <2>4 DEF short
<1>4. CASE Marks # {}
  <2>1. Marks \in SUBSET (1..Len(text))
    OBVIOUS
  <2>2. PICK m \in Marks : \A k \in Marks : m <= k
    <3> HIDE DEF Marks
    <3> QED
      BY <1>1, <1>4, <2>1, SmallestExists
  <2>3. Min(Marks) \in Marks /\ \A k \in Marks : Min(Marks) <= k
    <3> HIDE DEF Marks
    <3> QED
      BY <2>2 DEF Min
  <2> DEFINE c == Min(Marks)
  <2>4. c \in 1..Len(text) /\ text[c] = "==="
    BY <2>3
  <2>5. \A k \in 1..(c - 1) : text[k] # "==="
    <3> SUFFICES ASSUME NEW k \in 1..(c - 1), text[k] = "===" PROVE FALSE
      OBVIOUS
    <3>1. k \in 1..Len(text) /\ ~ (c <= k)
      <4> HIDE DEF c
      <4>1. c \in 1..Len(text)
        BY <2>4
      <4> QED
        BY <1>1, <4>1
    <3> QED
      BY <2>3, <3>1
  <2> HIDE DEF Marks
  <2>6. short = SubSeq(text, 1, c - 1)
    <3>1. c # 0
      <4> HIDE DEF c
      <4>1. c \in 1..Len(text)
        BY <2>4
      <4> QED
        BY <4>1
    <3> QED
      BY <1>2, <1>4, <3>1
  <2> HIDE DEF short, c
  <2>7. c \in 1..Len(text)
    BY <2>4
  <2>8. /\ short \in Seq(Token) /\ Len(short) = c - 1
        /\ \A i \in 1..(c - 1) : short[i] = text[i]
    <3>1. \A i \in 1..(c - 1) : text[i] \in Token
      BY <1>1, <2>7
    <3>2. /\ short \in Seq(Token)
          /\ Len(short) = IF 1 <= c - 1 THEN c - 1 - 1 + 1 ELSE 0
          /\ \A i \in 1..(c - 1 - 1 + 1) : short[i] = text[1 + i - 1]
      <4>1. 1 \in Int /\ c - 1 \in Int
        BY <2>7
      <4> QED
        BY <2>6, <3>1, <4>1, SubSeqProperties
    <3>3. Len(short) = c - 1
      BY <2>7, <3>2
    <3> QED
      BY <2>7, <3>2, <3>3
  <2>9. Len(short) <= Len(text) /\ Len(short) + 1 = c
    BY <1>1, <2>7, <2>8
  <2>10. \A i \in 1..Len(short) : short[i] = text[i] /\ short[i] # "==="
    <3>1. Len(short) = c - 1
      BY <2>8
    <3> QED
      BY <2>5, <2>8, <3>1
  <2>11. text[Len(short) + 1] = "==="
    BY <2>4, <2>9
  <2>12. CutAtMark(short, text)
    BY <2>8, <2>9, <2>10, <2>11 DEF CutAtMark
  <2> QED
    BY <2>12 DEF short
<1> QED
  BY <1>3, <1>4

-----------------------------------------------------------------------------
(* parseMultiFile *)

(* What the first k blocks of an answer give. *)
BlockFile(answer, b) ==
  [path |-> answer[b].path, text |-> BeforeMark(answer[b].text), order |-> b - 1]
Parsed(files, answer, k) ==
  /\ files \in Seq(SiteFile)
  /\ \A i \in 1..Len(files) : \E b \in 1..k :
       files[i] = BlockFile(answer, b) /\ Usable(BlockFile(answer, b))
  /\ \A b \in 1..k : Usable(BlockFile(answer, b)) =>
       \E i \in 1..Len(files) : files[i] = BlockFile(answer, b)
  /\ Ordered(files)

LEMMA BlockFileType ==
  ASSUME NEW answer \in Seq(Block), NEW b \in 1..Len(answer)
  PROVE  /\ BlockFile(answer, b) \in SiteFile
         /\ BlockFile(answer, b).order = b - 1
         /\ BlockFile(answer, b).path = answer[b].path
         /\ BlockFile(answer, b).text = BeforeMark(answer[b].text)
<1>1. answer[b] \in Block
  OBVIOUS
<1>2. answer[b].path \in FilePath /\ answer[b].text \in Seq(Token)
  BY <1>1 DEF Block
<1>3. BeforeMark(answer[b].text) \in Seq(Token)
  BY <1>2, BeforeMarkCuts DEF CutAtMark
<1>4. b - 1 \in Nat
  OBVIOUS
<1> QED
  BY <1>2, <1>3, <1>4 DEF BlockFile, SiteFile

LEMMA ParsedStep ==
  ASSUME NEW answer \in Seq(Block), NEW k \in 1..Len(answer), NEW files,
         Parsed(files, answer, k - 1)
  PROVE  Parsed(IF Usable(BlockFile(answer, k))
                THEN Append(files, BlockFile(answer, k)) ELSE files, answer, k)
<1> DEFINE new == BlockFile(answer, k)
<1>1. /\ k \in Nat /\ k \in 1..k
      /\ \A b \in 1..k : b \in 1..(k - 1) \/ b = k
      /\ \A b \in 1..(k - 1) : b \in 1..k /\ b \in 1..Len(answer) /\ b < k
  BY LenProperties
<1>2. new \in SiteFile /\ new.order = k - 1
  BY BlockFileType
<1>3. files \in Seq(SiteFile)
  BY DEF Parsed
<1>4. CASE ~ Usable(new)
  <2>1. \A i \in 1..Len(files) : \E b \in 1..k :
          files[i] = BlockFile(answer, b) /\ Usable(BlockFile(answer, b))
    BY <1>1 DEF Parsed
  <2>2. \A b \in 1..k : Usable(BlockFile(answer, b)) =>
          \E i \in 1..Len(files) : files[i] = BlockFile(answer, b)
    BY <1>1, <1>4 DEF Parsed
  <2> QED
    BY <1>4, <2>1, <2>2 DEF Parsed
<1>5. CASE Usable(new)
  <2> DEFINE n == Len(files)
             more == Append(files, new)
  <2>1. /\ more \in Seq(SiteFile) /\ Len(more) = n + 1 /\ n \in Nat
        /\ more[n + 1] = new /\ \A i \in 1..n : more[i] = files[i]
    <3> HIDE DEF new
    <3> QED
      BY <1>2, <1>3, AppendProperties
  <2>2. \A i \in 1..(n + 1) : i \in 1..n \/ i = n + 1
    BY <2>1
  <2>3. \A i \in 1..n : i \in 1..(n + 1) /\ n + 1 \in 1..(n + 1)
    BY <2>1
  <2>4. \A i \in 1..n : files[i].order \in Nat /\ files[i].order < new.order
    <3> TAKE i \in 1..n
    <3>1. PICK b \in 1..(k - 1) : files[i] = BlockFile(answer, b)
      BY DEF Parsed
    <3>2. files[i].order = b - 1 /\ b \in Nat /\ b < k /\ b >= 1
      BY <1>1, <3>1, BlockFileType
    <3> QED
      BY <1>1, <1>2, <3>2
  <2> HIDE DEF new, more, n
  <2>5. \A i \in 1..(n + 1) : \E b \in 1..k :
          more[i] = BlockFile(answer, b) /\ Usable(BlockFile(answer, b))
    <3> TAKE i \in 1..(n + 1)
    <3>1. CASE i \in 1..n
      BY <1>1, <2>1, <3>1 DEF Parsed, n
    <3>2. CASE i = n + 1
      BY <1>1, <1>5, <2>1, <3>2 DEF new
    <3> QED
      BY <2>2, <3>1, <3>2
  <2>6. \A b \in 1..k : Usable(BlockFile(answer, b)) =>
          \E i \in 1..(n + 1) : more[i] = BlockFile(answer, b)
    <3> TAKE b \in 1..k
    <3>1. CASE b = k
      <4>1. n + 1 \in 1..(n + 1)
        BY <2>1
      <4> QED
        BY <2>1, <3>1, <4>1 DEF new
    <3>2. CASE b \in 1..(k - 1)
      BY <2>1, <2>3, <3>2 DEF Parsed, n
    <3> QED
      BY <1>1, <3>1, <3>2
  <2>7. Ordered(more)
    <3> SUFFICES ASSUME NEW i \in 1..(n + 1), NEW j \in 1..(n + 1), i < j
                 PROVE  more[i].order < more[j].order
      BY <2>1 DEF Ordered
    <3>1. i \in 1..n
      BY <2>1
    <3>2. CASE j = n + 1
      BY <2>1, <2>4, <3>1, <3>2
    <3>3. CASE j \in 1..n
      <4>1. files[i].order < files[j].order
        BY <3>1, <3>3 DEF Parsed, Ordered, n
      <4> QED
        BY <2>1, <3>1, <3>3, <4>1
    <3> QED
      BY <2>2, <3>2, <3>3
  <2> QED
    BY <1>5, <2>1, <2>5, <2>6, <2>7 DEF Parsed, new, more
<1> QED
  BY <1>4, <1>5

LEMMA FilesAreParsed ==
  ASSUME NEW answer \in Seq(Block)
  PROVE  Parsed(parseMultiFile(answer), answer, Len(answer))
<1> DEFINE n == Len(answer)
           S == Seq(SiteFile)
           Take(x, b) == IF Usable(BlockFile(answer, b))
                         THEN Append(x, BlockFile(answer, b)) ELSE x
           next == [p \in S \X (1..n) |-> Take(p[1], p[2])]
           Is(f) == f = [i \in 0..n |->
                           IF i = 0 THEN <<>>
                           ELSE IF Usable(BlockFile(answer, i))
                           THEN Append(f[i - 1], BlockFile(answer, i))
                           ELSE f[i - 1]]
           out[i \in 0..n] == IF i = 0 THEN <<>>
                              ELSE IF Usable(BlockFile(answer, i))
                              THEN Append(out[i - 1], BlockFile(answer, i))
                              ELSE out[i - 1]
<1>1. n \in Nat /\ <<>> \in S
  OBVIOUS
<1>2. \A x \in S, b \in 1..n : Take(x, b) \in S
  <2> TAKE x \in S, b \in 1..n
  <2>1. BlockFile(answer, b) \in SiteFile
    BY BlockFileType
  <2>2. Append(x, BlockFile(answer, b)) \in S
    <3> DEFINE y == BlockFile(answer, b)
    <3> HIDE DEF y
    <3> QED
      BY <2>1, AppendProperties DEF y
  <2> QED
    BY <2>2
<1>3. next \in [S \X (1..n) -> S]
  <2> HIDE DEF Take, S
  <2> QED
    BY <1>2
<1>4. \A x \in S, b \in 1..n : next[<<x, b>>] = Take(x, b)
  <2> HIDE DEF Take, S
  <2> QED
    OBVIOUS
<1> HIDE DEF next
<1>5. PICK f : Follows(f, n, S, <<>>, next)
  <2> HIDE DEF S
  <2> QED
    BY <1>1, <1>3, StepsExist
<1>6. /\ f \in [0..n -> S] /\ f[0] = <<>>
      /\ \A i \in 1..n : f[i] = next[<<f[i - 1], i>>]
  BY <1>5 DEF Follows
<1>7. ASSUME NEW i \in 1..n PROVE f[i] = Take(f[i - 1], i)
  <2>1. f[i - 1] \in S
    <3> HIDE DEF S
    <3> QED
      BY <1>1, <1>6
  <2> HIDE DEF Take, S
  <2> QED
    BY <1>4, <1>6, <2>1
<1>8. \A i \in 0..n : i = 0 \/ i \in 1..n
  BY <1>1
<1>9. Is(f)
  <2>1. f = [i \in 0..n |-> f[i]]
    <3> HIDE DEF S
    <3> QED
      BY <1>6
  <2>2. \A i \in 0..n : f[i] = IF i = 0 THEN <<>> ELSE Take(f[i - 1], i)
    <3> HIDE DEF Take, S
    <3> QED
      BY <1>6, <1>7, <1>8
  <2> QED
    BY <2>1, <2>2
<1>10. \E g : Is(g)
  BY <1>9
<1>11. Is(out)
  BY <1>10
<1>12. parseMultiFile(answer) = out[n]
  BY DEF parseMultiFile, BlockFile
<1> HIDE DEF out
<1>13. out[0] = <<>> /\ \A i \in 1..n : out[i] = Take(out[i - 1], i)
  <2>1. \A i \in 0..n : out[i] = IF i = 0 THEN <<>> ELSE Take(out[i - 1], i)
    <3> HIDE DEF n
    <3> QED
      BY <1>11
  <2>2. 0 \in 0..n /\ \A i \in 1..n : i \in 0..n /\ i # 0
    BY <1>1
  <2> HIDE DEF Take, n
  <2> QED
    BY <2>1, <2>2
<1> DEFINE T == {k \in 0..n : Parsed(out[k], answer, k)}
<1>14. 0 \in T
  <2>1. Parsed(<<>>, answer, 0)
    BY DEF Parsed, Ordered
  <2> QED
    BY <1>1, <1>13, <2>1
<1>15. ASSUME NEW k \in 1..n, k - 1 \in T PROVE k \in T
  <2>1. Parsed(out[k - 1], answer, k - 1)
    BY <1>15
  <2>2. Parsed(Take(out[k - 1], k), answer, k)
    BY <2>1, ParsedStep
  <2> HIDE DEF Take
  <2> QED
    BY <1>1, <1>13, <2>2
<1>16. \A k \in 0..n : k \in T
  <2> HIDE DEF T, n
  <2> QED
    BY <1>1, <1>14, <1>15, Counting
<1> QED
  BY <1>1, <1>12, <1>16


(* A set of numbers up to n has a largest one. *)
LEMMA LargestIs ==
  ASSUME NEW n \in Nat, NEW T \in SUBSET (1..n), T # {}
  PROVE  Max(T) \in T /\ \A k \in T : k <= Max(T)
<1> DEFINE U == {k \in 1..n : n + 1 - k \in T}
<1>1. U # {}
  <2>1. PICK k \in T : TRUE
    OBVIOUS
  <2>2. k \in 1..n
    OBVIOUS
  <2>3. n + 1 - k \in 1..n /\ n + 1 - (n + 1 - k) = k
    BY <2>2
  <2> QED
    BY <2>3
<1>2. PICK m \in U : \A k \in U : m <= k
  <2>1. U \in SUBSET (1..n)
    OBVIOUS
  <2> HIDE DEF U
  <2> QED
    BY <1>1, <2>1, SmallestExists
<1>3. n + 1 - m \in T /\ m \in 1..n
  OBVIOUS
<1>4. \A k \in T : k <= n + 1 - m
  <2> TAKE k \in T
  <2>1. k \in 1..n
    OBVIOUS
  <2>2. n + 1 - k \in 1..n /\ n + 1 - (n + 1 - k) = k
    BY <2>1
  <2>3. n + 1 - k \in U
    BY <2>2
  <2>4. m <= n + 1 - k
    BY <1>2, <2>3
  <2> QED
    BY <1>3, <2>1, <2>4
<1>5. \E x \in T : \A k \in T : x >= k
  <2>1. \A k \in T : n + 1 - m >= k
    BY <1>3, <1>4
  <2> QED
    BY <1>3, <2>1
<1>6. Max(T) \in T /\ \A k \in T : Max(T) >= k
  BY <1>5 DEF Max
<1>7. Max(T) \in Int /\ \A k \in T : k \in Int
  <2>1. \A k \in T : k \in 1..n
    OBVIOUS
  <2>2. \A k \in 1..n : k \in Int
    OBVIOUS
  <2> QED
    BY <1>6, <2>1, <2>2
<1> QED
  BY <1>6, <1>7

-----------------------------------------------------------------------------
(* What the model means, and what the files make of it. *)

(* Texts are the last ones that an answer gives for their paths. *)
TextsOf(texts, answer) ==
  /\ DOMAIN texts \subseteq FilePath
  /\ \A p \in DOMAIN texts : texts[p] \in Seq(Token)
  /\ \A b \in 1..Len(answer) : Usable(BlockFile(answer, b)) =>
       Clean(answer[b].path) \in DOMAIN texts
  /\ \A p \in DOMAIN texts : \E b \in 1..Len(answer) :
       /\ Usable(BlockFile(answer, b)) /\ Clean(answer[b].path) = p
       /\ texts[p] = answer[b].text
       /\ \A c \in 1..Len(answer) :
            Usable(BlockFile(answer, c)) /\ Clean(answer[c].path) = p => c <= b

EachHasFile(texts, files) ==
  \A p \in DOMAIN texts : \E i \in 1..Len(files) : Clean(files[i].path) = p

LEMMA CleanType ==
  ASSUME NEW path \in FilePath
  PROVE  Clean(path) \in FilePath /\ Clean(Clean(path)) = Clean(path)
BY DEF Clean, FilePath

LEMMA MeantIsLast ==
  ASSUME NEW answer \in Seq(Block)
  PROVE  TextsOf(Meant(answer), answer)
<1> DEFINE n == Len(answer)
           last(p) == {i \in DOMAIN answer :
                         /\ Clean(answer[i].path) = p /\ answer[i].path # NoPath
                         /\ BeforeMark(answer[i].text) # <<>>}
           named == {p \in {Clean(b.path) : b \in ToSet(answer)} : last(p) # {}}
           M == Meant(answer)
<1>1. n \in Nat /\ DOMAIN answer = 1..n /\ \A b \in 1..n : answer[b] \in Block
  BY LenProperties
<1>2. \A b \in 1..n : answer[b].path \in FilePath /\ answer[b].text \in Seq(Token)
  BY <1>1 DEF Block
<1>3. M = [p \in named |-> answer[Max(last(p))].text]
  BY DEF Meant
<1>4. \A b \in 1..n : Usable(BlockFile(answer, b)) <=>
        answer[b].path # NoPath /\ BeforeMark(answer[b].text) # <<>>
  BY BlockFileType DEF Usable
<1>5. \A p, b : b \in last(p) <=>
        b \in 1..n /\ Clean(answer[b].path) = p /\ Usable(BlockFile(answer, b))
  BY <1>1, <1>4
<1>6. \A p \in named :
        Max(last(p)) \in last(p) /\ \A c \in last(p) : c <= Max(last(p))
  <2> TAKE p \in named
  <2>1. last(p) \in SUBSET (1..n) /\ last(p) # {}
    BY <1>5
  <2> HIDE DEF last, named
  <2> QED
    BY <1>1, <2>1, LargestIs
<1>7. \A p : p \in named <=> last(p) # {}
  <2> TAKE p
  <2>1. ASSUME last(p) # {} PROVE p \in {Clean(b.path) : b \in ToSet(answer)}
    BY <1>1, <2>1 DEF ToSet
  <2> QED
    BY <2>1
<1> HIDE DEF last, named, M
<1>8. DOMAIN M = named /\ \A p \in named : M[p] = answer[Max(last(p))].text
  BY <1>3
<1>9. \A p \in named : p \in FilePath /\ M[p] \in Seq(Token)
  BY <1>2, <1>5, <1>6, <1>8, CleanType
<1>10. \A b \in 1..n : Usable(BlockFile(answer, b)) =>
         Clean(answer[b].path) \in DOMAIN M
  BY <1>5, <1>7, <1>8
<1>11. \A p \in named : \E b \in 1..n :
         /\ Usable(BlockFile(answer, b)) /\ Clean(answer[b].path) = p
         /\ M[p] = answer[b].text
         /\ \A c \in 1..n :
              Usable(BlockFile(answer, c)) /\ Clean(answer[c].path) = p => c <= b
  <2> TAKE p \in named
  <2>1. Max(last(p)) \in 1..n
    BY <1>5, <1>6
  <2> QED
    BY <1>5, <1>6, <1>8, <2>1
<1> QED
  BY <1>8, <1>9, <1>10, <1>11 DEF TextsOf, M

(* The files of one answer have what it means. *)
LEMMA ParsedAsMeant ==
  ASSUME NEW answer \in Seq(Block), NEW files, NEW texts,
         Parsed(files, answer, Len(answer)), TextsOf(texts, answer)
  PROVE  /\ Filled(files) /\ LastAsMeant(files, texts)
         /\ EachHasFile(texts, files)
<1> DEFINE n == Len(answer)
           File(b) == BlockFile(answer, b)
<1>1. n \in Nat /\ Len(files) \in Nat
  BY LenProperties DEF Parsed
<1>2. \A b \in 1..n : /\ File(b).path = answer[b].path /\ File(b).order = b - 1
                      /\ File(b).text = BeforeMark(answer[b].text)
  BY BlockFileType
<1> HIDE DEF File
<1>3. \A i \in 1..Len(files) : \E b \in 1..n : files[i] = File(b) /\ Usable(File(b))
  BY DEF Parsed, File
<1>4. \A b \in 1..n : Usable(File(b)) => \E i \in 1..Len(files) : files[i] = File(b)
  BY DEF Parsed, File
<1>5. Filled(files)
  BY <1>3 DEF Filled, Usable
<1>6. ASSUME NEW i \in 1..Len(files), LastOf(files, i)
      PROVE  /\ Clean(files[i].path) \in DOMAIN texts
             /\ files[i].text = BeforeMark(texts[Clean(files[i].path)])
  <2> DEFINE p == Clean(files[i].path)
  <2>1. PICK b \in 1..n : files[i] = File(b) /\ Usable(File(b))
    BY <1>3
  <2>2. p = Clean(answer[b].path) /\ p \in DOMAIN texts
    BY <1>2, <2>1 DEF TextsOf, File
  <2>3. PICK c \in 1..n :
          /\ Usable(File(c)) /\ Clean(answer[c].path) = p
          /\ texts[p] = answer[c].text
          /\ \A d \in 1..n : Usable(File(d)) /\ Clean(answer[d].path) = p => d <= c
    BY <2>2 DEF TextsOf, File
  <2>4. b <= c
    BY <2>1, <2>2, <2>3
  <2>5. PICK j \in 1..Len(files) : files[j] = File(c)
    BY <1>4, <2>3
  <2>6. Clean(files[j].path) = p
    BY <1>2, <2>3, <2>5
  <2>7. j <= i
    BY <1>6, <2>6 DEF LastOf
  <2>8. files[i].order = b - 1 /\ files[j].order = c - 1
    BY <1>2, <2>1, <2>5
  <2>9. j < i => files[j].order < files[i].order
    BY DEF Parsed, Ordered
  <2>10. b = c
    <3> HIDE DEF p, n
    <3>1. b \in Int /\ c \in Int /\ i \in Int /\ j \in Int
      BY <1>1
    <3>2. j = i \/ j < i
      BY <2>7, <3>1
    <3> QED
      BY <2>4, <2>8, <2>9, <3>1, <3>2
  <2>11. files[i].text = BeforeMark(texts[p])
    BY <1>2, <2>1, <2>3, <2>10
  <2> QED
    BY <2>2, <2>11
<1>7. \A p \in DOMAIN texts : \E i \in 1..Len(files) : Clean(files[i].path) = p
  <2> TAKE p \in DOMAIN texts
  <2>1. PICK b \in 1..n : Usable(File(b)) /\ Clean(answer[b].path) = p
    BY DEF TextsOf, File
  <2>2. PICK i \in 1..Len(files) : files[i] = File(b)
    BY <1>4, <2>1
  <2> QED
    BY <1>2, <2>1, <2>2
<1> QED
  BY <1>5, <1>6, <1>7 DEF LastAsMeant, EachHasFile


-----------------------------------------------------------------------------
(* mergeArtifactFiles *)

(* What a file becomes: the last of its path takes the last text for it. *)
MergedFrom(file, base, new, i) ==
  /\ file \in SiteFile /\ file.order = base[i].order
  /\ Clean(file.path) = Clean(base[i].path)
  /\ \/ /\ file = base[i]
        /\ LastOf(base, i) =>
             \A j \in 1..Len(new) : Clean(new[j].path) # Clean(base[i].path)
     \/ \E j \in 1..Len(new) : /\ LastOf(new, j) /\ file.text = new[j].text
                               /\ Clean(new[j].path) = Clean(base[i].path)

LEMMA Merged ==
  ASSUME NEW base \in Seq(SiteFile), NEW new \in Seq(SiteFile)
  PROVE  LET merged == mergeArtifactFiles(base, new)
         IN  /\ merged \in Seq(SiteFile) /\ Len(merged) = Len(base)
             /\ \A i \in 1..Len(base) : MergedFrom(merged[i], base, new, i)
<1> DEFINE At(path) == {i \in DOMAIN base : Clean(base[i].path) = path}
           For(i) == {j \in DOMAIN new :
                        /\ i = Max(At(Clean(base[i].path)))
                        /\ Clean(new[j].path) = Clean(base[i].path)}
           merged == mergeArtifactFiles(base, new)
           n == Len(base)
           m == Len(new)
<1>1. /\ n \in Nat /\ m \in Nat /\ DOMAIN base = 1..n /\ DOMAIN new = 1..m
      /\ \A i \in 1..n : base[i] \in SiteFile
      /\ \A j \in 1..m : new[j] \in SiteFile
  BY LenProperties
<1>2. merged = [i \in 1..n |->
                  IF For(i) = {} THEN base[i]
                  ELSE [path |-> Clean(base[i].path),
                        text |-> new[Max(For(i))].text,
                        order |-> base[i].order]]
  BY <1>1 DEF mergeArtifactFiles
<1>3. ASSUME NEW i \in 1..n
      PROVE  i = Max(At(Clean(base[i].path))) <=> LastOf(base, i)
  <2> DEFINE S == At(Clean(base[i].path))
  <2>1. S \in SUBSET (1..n) /\ i \in S
    BY <1>1
  <2>2. LastOf(base, i) <=> \A j \in S : j <= i
    BY <1>1 DEF LastOf
  <2> HIDE DEF S
  <2>3. Max(S) \in S /\ \A j \in S : j <= Max(S)
    BY <1>1, <2>1, LargestIs
  <2>4. Max(S) \in Int /\ i \in Int
    <3>1. Max(S) \in 1..n
      BY <2>1, <2>3
    <3> QED
      BY <3>1
  <2>5. (\A j \in S : j <= i) <=> i = Max(S)
    <3>1. (\A j \in S : j <= i) => i = Max(S)
      <4>1. (\A j \in S : j <= i) => Max(S) <= i /\ i <= Max(S)
        BY <2>1, <2>3
      <4> QED
        BY <2>4, <4>1
    <3> QED
      BY <2>3, <3>1
  <2> QED
    BY <2>2, <2>5 DEF S
<1>4. ASSUME NEW i \in 1..n
      PROVE  /\ For(i) = {} => (LastOf(base, i) =>
                  \A j \in 1..m : Clean(new[j].path) # Clean(base[i].path))
             /\ For(i) # {} =>
                  /\ Max(For(i)) \in 1..m /\ LastOf(new, Max(For(i)))
                  /\ Clean(new[Max(For(i))].path) = Clean(base[i].path)
  <2> HIDE DEF At
  <2>1. CASE For(i) = {}
    BY <1>1, <1>3, <2>1
  <2>2. CASE For(i) # {}
    <3> DEFINE S == For(i)
    <3>1. S \in SUBSET (1..m) /\ S # {}
      BY <1>1, <2>2
    <3>2. \A j \in 1..m : j \in S <=> Clean(new[j].path) = Clean(base[i].path)
      BY <1>1, <2>2
    <3> HIDE DEF S
    <3>3. Max(S) \in S /\ \A j \in S : j <= Max(S)
      BY <1>1, <3>1, LargestIs
    <3>4. Max(S) \in 1..m
      BY <3>1, <3>3
    <3>5. LastOf(new, Max(S))
      BY <3>2, <3>3, <3>4 DEF LastOf
    <3> QED
      BY <2>2, <3>2, <3>3, <3>4, <3>5 DEF S
  <2> QED
    BY <2>1, <2>2
<1> HIDE DEF For, At
<1>5. ASSUME NEW i \in 1..n
      PROVE  merged[i] \in SiteFile /\ MergedFrom(merged[i], base, new, i)
  <2>1. merged[i] = IF For(i) = {} THEN base[i]
                    ELSE [path |-> Clean(base[i].path),
                          text |-> new[Max(For(i))].text,
                          order |-> base[i].order]
    BY <1>2
  <2>2. base[i] \in SiteFile
    BY <1>1
  <2> HIDE DEF merged
  <2>3. CASE For(i) = {}
    BY <1>4, <2>1, <2>2, <2>3 DEF MergedFrom
  <2>4. CASE For(i) # {}
    <3> DEFINE k == Max(For(i))
    <3>1. k \in 1..m /\ LastOf(new, k) /\ Clean(new[k].path) = Clean(base[i].path)
      BY <1>4, <2>4
    <3>2. merged[i] = [path |-> Clean(base[i].path), text |-> new[k].text,
                       order |-> base[i].order]
      BY <2>1, <2>4
    <3> HIDE DEF k
    <3>3. new[k] \in SiteFile
      BY <1>1, <3>1
    <3>4. new[k].text \in Seq(Token)
      BY <3>3 DEF SiteFile
    <3>5. base[i].path \in FilePath /\ base[i].order \in Nat
      BY <2>2 DEF SiteFile
    <3>6. Clean(base[i].path) \in FilePath
          /\ Clean(Clean(base[i].path)) = Clean(base[i].path)
      BY <3>5, CleanType
    <3>7. merged[i] \in SiteFile
      BY <3>2, <3>4, <3>5, <3>6 DEF SiteFile
    <3>8. /\ merged[i].order = base[i].order /\ merged[i].text = new[k].text
          /\ merged[i].path = Clean(base[i].path)
      BY <3>2
    <3> QED
      BY <3>1, <3>6, <3>7, <3>8 DEF MergedFrom
  <2> QED
    BY <2>3, <2>4
<1>6. merged \in Seq(SiteFile) /\ Len(merged) = n
  <2>1. DOMAIN merged = 1..n /\ merged = [i \in 1..n |-> merged[i]]
    BY <1>2
  <2> HIDE DEF merged, n
  <2>2. merged \in [1..n -> SiteFile]
    BY <1>5, <2>1
  <2>3. merged \in Seq(SiteFile)
    BY <1>1, <2>2, SeqDef
  <2>4. DOMAIN merged = 1..Len(merged) /\ Len(merged) \in Nat
    BY <2>3, LenProperties
  <2>5. Len(merged) = n
    BY <1>1, <2>1, <2>4
  <2> QED
    BY <2>3, <2>5
<1> QED
  BY <1>5, <1>6

LEMMA OntoIs ==
  ASSUME NEW new, NEW old
  PROVE  /\ DOMAIN Onto(new, old) = DOMAIN new \union DOMAIN old
         /\ \A p \in DOMAIN new : Onto(new, old)[p] = new[p]
         /\ \A p \in DOMAIN old :
              p \notin DOMAIN new => Onto(new, old)[p] = old[p]
BY DEF Onto

(* Merged files have what the newer texts mean, laid onto the older ones. *)
LEMMA MergedAsMeant ==
  ASSUME NEW base \in Seq(SiteFile), NEW new \in Seq(SiteFile),
         NEW old, NEW texts,
         Ordered(base), Filled(base), LastAsMeant(base, old),
         Filled(new), LastAsMeant(new, texts),
         EachHasFile(texts, new)
  PROVE  LET merged == mergeArtifactFiles(base, new)
         IN  /\ Ordered(merged) /\ Filled(merged)
             /\ LastAsMeant(merged, Onto(texts, old))
<1> DEFINE merged == mergeArtifactFiles(base, new)
           n == Len(base)
           last == Onto(texts, old)
<1>1. /\ merged \in Seq(SiteFile) /\ Len(merged) = n
      /\ \A i \in 1..n : MergedFrom(merged[i], base, new, i)
  BY Merged
<1>7. /\ DOMAIN last = DOMAIN texts \union DOMAIN old
      /\ \A p \in DOMAIN texts : last[p] = texts[p]
      /\ \A p \in DOMAIN old : p \notin DOMAIN texts => last[p] = old[p]
  BY OntoIs
<1> HIDE DEF merged
<1>2. \A i \in 1..n : /\ merged[i].order = base[i].order
                      /\ Clean(merged[i].path) = Clean(base[i].path)
  BY <1>1 DEF MergedFrom
<1>3. Ordered(merged)
  BY <1>1, <1>2 DEF Ordered
<1>4. Filled(merged)
  BY <1>1 DEF Filled, MergedFrom
<1>5. ASSUME NEW i \in 1..n, LastOf(merged, i)
      PROVE  /\ Clean(merged[i].path) \in DOMAIN Onto(texts, old)
             /\ merged[i].text = BeforeMark(Onto(texts, old)[Clean(merged[i].path)])
  <2> DEFINE p == Clean(base[i].path)
  <2>1. LastOf(base, i)
    BY <1>1, <1>2, <1>5 DEF LastOf
  <2>2. Clean(merged[i].path) = p
    BY <1>2
  <2>3. CASE /\ merged[i] = base[i]
             /\ \A j \in 1..Len(new) : Clean(new[j].path) # p
    <3>1. p \notin DOMAIN texts
      BY <2>3 DEF EachHasFile
    <3>2. p \in DOMAIN old /\ base[i].text = BeforeMark(old[p])
      BY <2>1 DEF LastAsMeant
    <3>3. p \in DOMAIN last /\ last[p] = old[p]
      BY <1>7, <3>1, <3>2
    <3> QED
      BY <2>2, <2>3, <3>2, <3>3
  <2>4. CASE \E j \in 1..Len(new) :
               /\ LastOf(new, j) /\ merged[i].text = new[j].text
               /\ Clean(new[j].path) = p
    <3>1. PICK j \in 1..Len(new) :
            LastOf(new, j) /\ merged[i].text = new[j].text /\ Clean(new[j].path) = p
      BY <2>4
    <3>2. p \in DOMAIN texts /\ new[j].text = BeforeMark(texts[p])
      BY <3>1 DEF LastAsMeant
    <3>3. p \in DOMAIN last /\ last[p] = texts[p]
      BY <1>7, <3>2
    <3> QED
      BY <2>2, <3>1, <3>2, <3>3
  <2> QED
    BY <1>1, <2>1, <2>3, <2>4 DEF MergedFrom
<1>6. LastAsMeant(merged, Onto(texts, old))
  BY <1>1, <1>5 DEF LastAsMeant
<1> QED
  BY <1>3, <1>4, <1>6 DEF merged


-----------------------------------------------------------------------------
(* The invariant. *)

(* Under UNIQUE(artifact_id, path) a path is the path of one file. *)
LEMMA DistinctPaths ==
  ASSUME NEW files \in Seq(SiteFile), Distinct(files)
  PROVE  \A i, j \in 1..Len(files) : files[i].path = files[j].path => i = j
<1> DEFINE n == Len(files)
           S == 1..n
           paths == {f.path : f \in ToSet(files)}
           PathAt == [i \in S |-> files[i].path]
<1>1. n \in Nat /\ DOMAIN files = S
  BY LenProperties
<1>2. \A p : p \in paths <=> \E i \in S : files[i].path = p
  BY <1>1 DEF ToSet
<1>3. Cardinality(paths) = n
  BY DEF Distinct
<1>4. IsFiniteSet(S) /\ Cardinality(S) = n
  <2>1. 1 \in Int /\ n \in Int
    BY <1>1
  <2>2. IsFiniteSet(S) /\ Cardinality(S) = IF 1 > n THEN 0 ELSE n - 1 + 1
    <3> HIDE DEF n
    <3> QED
      BY <2>1, FS_Interval
  <2> HIDE DEF S, n
  <2>3. (IF 1 > n THEN 0 ELSE n - 1 + 1) = n
    BY <1>1
  <2> QED
    BY <2>2, <2>3
<1> HIDE DEF paths, n, S
<1>5. PathAt \in [S -> paths] /\ \A p \in paths : \E i \in S : PathAt[i] = p
  BY <1>2
<1>6. PathAt \in Surjection(S, paths)
  <2> HIDE DEF PathAt
  <2> QED
    BY <1>5 DEF Surjection
<1>7. PathAt \in Injection(S, paths)
  <2> HIDE DEF PathAt
  <2> QED
    BY <1>3, <1>4, <1>6, FS_Surjection
<1>8. \A i, j \in S : PathAt[i] = PathAt[j] => i = j
  <2>1. \A i, j \in DOMAIN PathAt : PathAt[i] = PathAt[j] => i = j
    <3> HIDE DEF PathAt
    <3> QED
      BY <1>7 DEF Injection, IsInjective
  <2> QED
    BY <2>1
<1> QED
  BY <1>8 DEF S, n

(* What saveWebsiteArtifact takes for the artifact's content. *)
LEMMA EntryIsIndex ==
  ASSUME NEW files \in Seq(SiteFile), Distinct(files), NEW i \in 1..Len(files),
         files[i].path = IndexHTML
  PROVE  LET k == SelectInSeq(files, LAMBDA f : f.path = IndexHTML)
         IN  (IF k = 0 THEN <<>> ELSE files[k].text) = files[i].text
<1> DEFINE I == {k \in 1..Len(files) : files[k].path = IndexHTML}
<1>1. Len(files) \in Nat /\ I # {} /\ I \in SUBSET (1..Len(files))
  BY LenProperties
<1>2. PICK m \in I : \A k \in I : m <= k
  <2> HIDE DEF I
  <2> QED
    BY <1>1, SmallestExists
<1>3. Min(I) \in I
  <2> HIDE DEF I
  <2> QED
    BY <1>2 DEF Min
<1>4. Min(I) = i /\ i # 0
  BY <1>3, DistinctPaths
<1>5. SelectInSeq(files, LAMBDA f : f.path = IndexHTML)
        = IF I # {} THEN Min(I) ELSE 0
  BY DEF SelectInSeq
<1> HIDE DEF I
<1> QED
  BY <1>1, <1>4, <1>5

LEMMA SiteInvInit == SiteFilesInit => SiteInv
<1> SUFFICES ASSUME SiteFilesInit PROVE SiteInv
  OBVIOUS
<1>1. /\ project = <<>> /\ tries = 0 /\ step = "stream"
      /\ stored = {} /\ meant = <<>>
  BY DEF SiteFilesInit
<1>2. SiteTypeOK
  <2>1. DOMAIN <<>> = {}
    OBVIOUS
  <2>2. 0 \in 0..MaxRepairs
    BY DEF MaxRepairs
  <2> QED
    BY <1>1, <2>1, <2>2 DEF SiteTypeOK
<1>3. Ordered(project) /\ Filled(project) /\ LastAsMeant(project, meant)
  <2>1. Len(project) = 0 /\ 1..0 = {}
    BY <1>1
  <2>2. \A i \in 1..Len(project) : FALSE
    BY <2>1
  <2> QED
    BY <2>2 DEF Ordered, Filled, LastAsMeant
<1> QED
  BY <1>1, <1>2, <1>3 DEF SiteInv, SavedIsChecked, StoredIsProject

LEMMA OntoType ==
  ASSUME NEW new, NEW old,
         DOMAIN new \subseteq FilePath, \A p \in DOMAIN new : new[p] \in Seq(Token),
         DOMAIN old \subseteq FilePath, \A p \in DOMAIN old : old[p] \in Seq(Token)
  PROVE  /\ DOMAIN Onto(new, old) \subseteq FilePath
         /\ \A p \in DOMAIN Onto(new, old) : Onto(new, old)[p] \in Seq(Token)
<1>1. /\ DOMAIN Onto(new, old) = DOMAIN new \union DOMAIN old
      /\ \A p \in DOMAIN new : Onto(new, old)[p] = new[p]
      /\ \A p \in DOMAIN old : p \notin DOMAIN new => Onto(new, old)[p] = old[p]
  BY OntoIs
<1> QED
  BY <1>1

LEMMA SiteInvNext == SiteInv /\ [SiteFilesNext]_siteFilesVars => SiteInv'
<1> SUFFICES ASSUME SiteInv, [SiteFilesNext]_siteFilesVars PROVE SiteInv'
  OBVIOUS
<1> USE DEF SiteInv
<1>1. ASSUME step = "stream", NEW answer \in Answers, ExtractFiles(answer)
      PROVE  SiteInv'
  <2>1. answer \in Seq(Block)
    BY SiteFilesAssumption
  <2>2. Parsed(project', answer, Len(answer))
    BY <1>1, <2>1, FilesAreParsed DEF ExtractFiles
  <2>3. TextsOf(meant', answer)
    BY <1>1, <2>1, MeantIsLast DEF ExtractFiles
  <2>4. Ordered(project') /\ Filled(project') /\ LastAsMeant(project', meant')
    BY <2>1, <2>2, <2>3, ParsedAsMeant DEF Parsed
  <2>5. step' \in {"single", "check"} /\ tries' = tries /\ stored' = stored
    BY <1>1 DEF ExtractFiles
  <2>6. SiteTypeOK'
    BY <2>2, <2>3, <2>5 DEF SiteTypeOK, Parsed, TextsOf
  <2>7. stored = {}
    BY <1>1 DEF StoredIsProject
  <2> QED
    BY <2>4, <2>5, <2>6, <2>7 DEF SavedIsChecked, StoredIsProject
<1>2. ASSUME CheckFiles PROVE SiteInv'
  <2>1. step = "check" /\ UNCHANGED <<project, tries, entry, stored, meant>>
    BY <1>2 DEF CheckFiles
  <2>2. step' = IF validateWebsiteProjectFiles(project) = {} THEN "save"
                ELSE IF tries < MaxRepairs THEN "repair" ELSE "apologise"
    BY <1>2 DEF CheckFiles
  <2>3. SiteTypeOK'
    <3>1. step' = "repair" => tries < MaxRepairs
      BY <2>2
    <3>2. step' \in {"save", "repair", "apologise"}
      BY <2>2
    <3> QED
      BY <2>1, <3>1, <3>2 DEF SiteTypeOK
  <2>4. SavedIsChecked'
    <3>1. step' \in {"save", "saved"} => validateWebsiteProjectFiles(project) = {}
      BY <2>2
    <3> QED
      BY <2>1, <3>1 DEF SavedIsChecked
  <2>5. StoredIsProject'
    BY <2>1 DEF StoredIsProject
  <2>6. Ordered(project') /\ Filled(project') /\ LastAsMeant(project', meant')
    BY <2>1
  <2> QED
    BY <2>3, <2>4, <2>5, <2>6
<1>3. ASSUME step = "repair", NEW answer \in Repaired,
             repairWebsiteProjectFiles(answer)
      PROVE  SiteInv'
  <2> DEFINE new == parseMultiFile(answer)
             texts == Meant(answer)
  <2>1. answer \in Seq(Block)
    BY SiteFilesAssumption
  <2>2. Parsed(new, answer, Len(answer)) /\ TextsOf(texts, answer)
    BY <2>1, FilesAreParsed, MeantIsLast
  <2> HIDE DEF new, texts
  <2>3. /\ Filled(new) /\ LastAsMeant(new, texts)
        /\ EachHasFile(texts, new)
    <3> HIDE DEF SiteInv
    <3> QED
      BY <2>1, <2>2, ParsedAsMeant
  <2>4. new \in Seq(SiteFile)
    BY <2>2 DEF Parsed
  <2>5. /\ project' = mergeArtifactFiles(project, new)
        /\ meant' = Onto(texts, meant) /\ tries' = tries + 1 /\ step' = "check"
        /\ stored' = stored
    BY <1>3 DEF repairWebsiteProjectFiles, new, texts
  <2>6. project \in Seq(SiteFile)
    BY DEF SiteTypeOK
  <2>7. Ordered(project') /\ Filled(project') /\ LastAsMeant(project', meant')
    BY <2>3, <2>4, <2>5, <2>6, MergedAsMeant
  <2>8. project' \in Seq(SiteFile)
    BY <2>4, <2>5, <2>6, Merged
  <2>9. DOMAIN meant' \subseteq FilePath
        /\ \A p \in DOMAIN meant' : meant'[p] \in Seq(Token)
    <3>1. DOMAIN texts \subseteq FilePath
          /\ \A p \in DOMAIN texts : texts[p] \in Seq(Token)
      BY <2>2 DEF TextsOf
    <3>2. DOMAIN meant \subseteq FilePath
          /\ \A p \in DOMAIN meant : meant[p] \in Seq(Token)
      BY DEF SiteTypeOK
    <3> QED
      BY <2>5, <3>1, <3>2, OntoType
  <2>10. tries' \in 0..MaxRepairs
    <3>1. tries < MaxRepairs /\ tries \in 0..MaxRepairs
      BY <1>3 DEF SiteTypeOK
    <3> QED
      BY <2>5, <3>1 DEF MaxRepairs
  <2>11. SiteTypeOK'
    BY <2>5, <2>8, <2>9, <2>10 DEF SiteTypeOK
  <2>12. stored = {}
    BY <1>3 DEF StoredIsProject
  <2> QED
    BY <2>5, <2>7, <2>11, <2>12 DEF SavedIsChecked, StoredIsProject
<1>4. ASSUME LeaveRepair PROVE SiteInv'
  <2>1. /\ step = "repair" /\ step' = "left"
        /\ UNCHANGED <<project, tries, entry, stored, meant>>
    BY <1>4 DEF LeaveRepair
  <2>2. stored = {}
    BY <2>1 DEF StoredIsProject
  <2> QED
    BY <2>1, <2>2 DEF SiteTypeOK, SavedIsChecked, StoredIsProject
<1>5. ASSUME SaveSite PROVE SiteInv'
  <2>1. /\ step = "save" /\ step' = "saved"
        /\ UNCHANGED <<project, tries, meant>>
    BY <1>5 DEF SaveSite
  <2>2. stored = {} /\ project \in Seq(SiteFile)
    BY <2>1 DEF StoredIsProject, SiteTypeOK
  <2>3. SavedIsChecked'
    BY <2>1 DEF SavedIsChecked
  <2>4. SiteTypeOK'
    BY <2>1 DEF SiteTypeOK
  <2>5. ASSUME stored' # {} PROVE StoredIsProject'
    <3>1. Distinct(project) /\ stored' = ToSet(project)
      BY <1>5, <2>2, <2>5 DEF SaveSite, CreateMany
    <3>2. entry' = LET k == SelectInSeq(project, LAMBDA f : f.path = IndexHTML)
                   IN  IF k = 0 THEN <<>> ELSE project[k].text
      BY <1>5, <2>2, <2>5 DEF SaveSite
    <3>3. \A i \in 1..Len(project) :
            project[i].path = IndexHTML => entry' = project[i].text
      BY <2>2, <3>1, <3>2, EntryIsIndex
    <3> QED
      BY <2>1, <3>1, <3>3 DEF StoredIsProject
  <2>6. StoredIsProject'
    BY <2>5 DEF StoredIsProject
  <2> QED
    BY <2>1, <2>3, <2>4, <2>6
<1>6. CASE UNCHANGED siteFilesVars
  BY <1>6 DEF siteFilesVars, SiteTypeOK, SavedIsChecked, StoredIsProject
<1> QED
  BY <1>1, <1>2, <1>3, <1>4, <1>5, <1>6 DEF SiteFilesNext

(* What websiteAgentLoop has at each place: the files of the answer in order,
   with the text written last under each path, and what it checked when it
   saves (orchestrator.go:901-966). *)
THEOREM SiteInvariant == SiteFilesSpec => []SiteInv
<1>1. SiteFilesInit => SiteInv
  BY SiteInvInit
<1>2. SiteInv /\ [SiteFilesNext]_siteFilesVars => SiteInv'
  BY SiteInvNext
<1> QED
  BY <1>1, <1>2, PTL DEF SiteFilesSpec

LEMMA CutIsPrefix ==
  ASSUME NEW short, NEW text \in Seq(Token), CutAtMark(short, text)
  PROVE  /\ IsPrefix(short, text) /\ "===" \notin ToSet(short)
         /\ short = text \/ text[Len(short) + 1] = "==="
<1>1. /\ short \in Seq(Token) /\ Len(short) <= Len(text)
      /\ \A i \in 1..Len(short) : short[i] = text[i]
  BY DEF CutAtMark
<1>2. "===" \notin ToSet(short)
  <2>1. DOMAIN short = 1..Len(short)
    BY <1>1, LenProperties
  <2> QED
    BY <2>1 DEF ToSet, CutAtMark
<1>3. SubSeq(short, 1, Len(short)) = SubSeq(text, 1, Len(short))
  <2> DEFINE n == Len(short)
             x == SubSeq(short, 1, n)
             y == SubSeq(text, 1, n)
  <2>1. n \in 0..Len(short) /\ n \in 0..Len(text)
    <3>1. Len(short) \in Nat /\ Len(text) \in Nat
      BY <1>1
    <3> QED
      BY <1>1, <3>1
  <2>2. \A i \in 1..n : short[i] = text[i]
    BY <1>1
  <2> HIDE DEF n
  <2>3. x \in Seq(Token) /\ Len(x) = n /\ \A i \in 1..n : x[i] = short[i]
    BY <1>1, <2>1, StartOf
  <2>4. y \in Seq(Token) /\ Len(y) = n /\ \A i \in 1..n : y[i] = text[i]
    BY <2>1, StartOf
  <2> HIDE DEF x, y
  <2>5. x = y
    <3>1. \A i \in 1..n : x[i] = y[i]
      BY <2>2, <2>3, <2>4
    <3> QED
      BY <2>3, <2>4, <3>1, SeqEqual
  <2> QED
    BY <2>5 DEF n, x, y
<1>4. IsPrefix(short, text)
  BY <1>1, <1>3 DEF IsPrefix
<1> QED
  BY <1>2, <1>4 DEF CutAtMark

LEMMA SiteInvImplies == SiteInv => StoredSiteIsWhole
<1> SUFFICES ASSUME SiteInv, NEW f \in stored
             PROVE  LET written == meant[Clean(f.path)]
                        later == {g \in stored : /\ Clean(g.path) = Clean(f.path)
                                                 /\ g.order > f.order}
                    IN  /\ isCodeFile(f.path) =>
                             /\ WellFormed(f.text)
                             /\ \A t \in ToSet(f.text) \cap DOMAIN ImportOf :
                                  relativeImportExists(Clean(f.path), ImportOf[t],
                                                {Clean(g.path) : g \in stored})
                        /\ later = {} =>
                             /\ f.text # <<>> /\ IsPrefix(f.text, written)
                             /\ "===" \notin ToSet(f.text)
                             /\ \/ f.text = written
                                \/ written[Len(f.text) + 1] = "==="
                        /\ f.path = IndexHTML => entry = f.text
  BY DEF StoredSiteIsWhole
<1> DEFINE p == Clean(f.path)
           written == meant[p]
           later == {g \in stored : Clean(g.path) = p /\ g.order > f.order}
           existing == {Clean(g.path) : g \in stored}
<1>1. /\ step = "saved" /\ stored = ToSet(project) /\ Distinct(project)
      /\ \A i \in 1..Len(project) :
           project[i].path = IndexHTML => entry = project[i].text
  BY DEF SiteInv, StoredIsProject
<1>2. /\ project \in Seq(SiteFile) /\ DOMAIN meant \subseteq FilePath
      /\ \A q \in DOMAIN meant : meant[q] \in Seq(Token)
  BY DEF SiteInv, SiteTypeOK
<1>3. DOMAIN project = 1..Len(project) /\ Len(project) \in Nat
      /\ \A i \in 1..Len(project) : project[i] \in SiteFile
  BY <1>2, LenProperties
<1>4. PICK i \in 1..Len(project) : f = project[i]
  BY <1>1, <1>3 DEF ToSet
<1>5. f \in SiteFile /\ f.text \in Seq(Token)
  BY <1>3, <1>4 DEF SiteFile
<1>6. ~ HasIssue(f, existing)
  <2>1. validateWebsiteProjectFiles(project) = {}
    BY <1>1 DEF SiteInv, SavedIsChecked
  <2>2. \A g \in ToSet(project) :
          ~ HasIssue(g, {Clean(h.path) : h \in ToSet(project)})
    BY <2>1 DEF validateWebsiteProjectFiles
  <2> QED
    BY <1>1, <2>2
<1>7. ASSUME isCodeFile(f.path)
      PROVE  /\ WellFormed(f.text)
             /\ \A t \in ToSet(f.text) \cap DOMAIN ImportOf :
                  relativeImportExists(p, ImportOf[t], existing)
  <2>1. /\ Balanced(f.text)
        /\ \A t \in ToSet(f.text) \cap DOMAIN ImportOf :
             relativeImportExists(p, ImportOf[t], existing)
    BY <1>6, <1>7 DEF HasIssue
  <2> QED
    BY <1>5, <2>1, BalancedIsWellFormed
<1>8. ASSUME later = {}
      PROVE  /\ f.text # <<>> /\ IsPrefix(f.text, written)
             /\ "===" \notin ToSet(f.text)
             /\ f.text = written \/ written[Len(f.text) + 1] = "==="
  <2>1. LastOf(project, i)
    <3> SUFFICES ASSUME NEW j \in 1..Len(project), Clean(project[j].path) = p,
                        ~ (j <= i)
                 PROVE  FALSE
      BY <1>4 DEF LastOf
    <3>1. i < j
      BY <1>3
    <3>2. project[i].order < project[j].order
      BY <3>1 DEF SiteInv, Ordered
    <3>3. project[j].order > f.order
      <4>1. project[i].order \in Nat /\ project[j].order \in Nat
        BY <1>3 DEF SiteFile
      <4> QED
        BY <1>4, <3>2, <4>1
    <3>4. project[j] \in stored
      BY <1>1, <1>3 DEF ToSet
    <3>5. project[j] \in later
      BY <3>3, <3>4
    <3> QED
      BY <1>8, <3>5
  <2>2. p \in DOMAIN meant /\ f.text = BeforeMark(written)
    BY <1>4, <2>1 DEF SiteInv, LastAsMeant
  <2>3. written \in Seq(Token)
    BY <1>2, <2>2
  <2>4. CutAtMark(f.text, written)
    BY <2>2, <2>3, BeforeMarkCuts
  <2>5. f.text # <<>>
    BY <1>4 DEF SiteInv, Filled
  <2> HIDE DEF written
  <2> QED
    BY <2>3, <2>4, <2>5, CutIsPrefix
<1>9. f.path = IndexHTML => entry = f.text
  BY <1>1, <1>4
<1> QED
  BY <1>7, <1>8, <1>9

(* What websiteAgentLoop stores is whole, whatever the model answers and however
   it repairs (orchestrator.go:502-566, 727-751, 901-966). *)
THEOREM StoredSitesAreWhole == SiteFilesSpec => []StoredSiteIsWhole
<1>1. SiteFilesSpec => []SiteInv
  BY SiteInvariant
<1>2. SiteInv => StoredSiteIsWhole
  BY SiteInvImplies
<1> QED
  BY <1>1, <1>2, PTL
=============================================================================
