--------------------------- MODULE Requests_proofs ---------------------------
(***************************************************************************)
(* Proofs about the protocol's decoder and about both network paths, for   *)
(* any number of clients, requests, connections and instances: what Feed   *)
(* makes of a stream, promises and their answers, and what is executed.    *)
(***************************************************************************)
EXTENDS MCRequests, FiniteSetTheorems, SequenceTheorems, TLAPS

-----------------------------------------------------------------------------
(***************************************************************************)
(* Induction.                                                              *)
(***************************************************************************)
\* Sets of natural numbers have a least element.
LEMMA LeastNumber ==
  ASSUME NEW S \in SUBSET Nat, S # {}
  PROVE  \E m \in S : \A n \in S : m <= n
<1> DEFINE T == {0 .. n : n \in S}
<1>1. IsWellFoundedOn(StrictSubsetOrdering(Nat), FiniteSubsetsOf(Nat))
  BY FS_StrictSubsetOrderingWellFounded
<1>2. T \subseteq FiniteSubsetsOf(Nat) /\ T # {}
  <2>1. ASSUME NEW n \in S PROVE IsFiniteSet(0 .. n) /\ 0 .. n \in SUBSET Nat
    <3>1. 0 \in Int /\ n \in Int
      OBVIOUS
    <3>2. IsFiniteSet(0 .. n)
      BY <3>1, FS_Interval
    <3>q. QED BY <3>2
  <2>q. QED BY <2>1 DEF FiniteSubsetsOf
<1> HIDE DEF T
<1>3. \E x \in T : \A y \in T : ~ (<<y, x>> \in StrictSubsetOrdering(Nat))
  BY <1>1, <1>2, WFMin
<1> USE DEF T
<1>4. PICK m \in S : \A n \in S : ~ (<<0 .. n, 0 .. m>> \in StrictSubsetOrdering(Nat))
  BY <1>3
<1>5. ASSUME NEW n \in S, n < m PROVE FALSE
  <2>1. (0 .. n) # (0 .. m) /\ (0 .. n) \subseteq (0 .. m)
    BY <1>5
  <2>2. 0 .. n \in SUBSET Nat /\ 0 .. m \in SUBSET Nat
    OBVIOUS
  <2>q. QED BY <1>4, <2>1, <2>2 DEF StrictSubsetOrdering
<1>q. QED BY <1>5

\* Induction from n down to 0 over a set of numbers.
LEMMA DownTo ==
  ASSUME NEW n \in Nat, NEW G, \A p \in 0 .. n : (\A q \in (p + 1) .. n : q \in G) => p \in G
  PROVE  \A p \in 0 .. n : p \in G
<1> DEFINE S == {k \in 0 .. n : n - k \notin G}
<1>1. ASSUME S # {} PROVE FALSE
  <2>1. PICK m \in S : \A k \in S : m <= k
    <3>1. S \in SUBSET Nat
      OBVIOUS
    <3> HIDE DEF S
    <3>q. QED BY <1>1, <3>1, LeastNumber
  <2>2. n - m \in 0 .. n /\ n - m \notin G
    OBVIOUS
  <2>3. ASSUME NEW q \in (n - m + 1) .. n PROVE q \in G
    <3>1. n - q \in 0 .. n /\ n - q < m /\ n - (n - q) = q
      OBVIOUS
    <3>2. n - q \notin S
      BY <2>1, <3>1
    <3>q. QED BY <3>1, <3>2
  <2>q. QED BY <2>2, <2>3
<1>2. ASSUME NEW p \in 0 .. n PROVE p \in G
  <2>1. n - p \in 0 .. n /\ n - (n - p) = p
    OBVIOUS
  <2>2. n - p \notin S
    BY <1>1
  <2>q. QED BY <2>1, <2>2
<1>q. QED BY <1>2

-----------------------------------------------------------------------------
(***************************************************************************)
(* The decoder (protocol/decoder.cc).  Messages are taken from any set M.  *)
(***************************************************************************)
\* Byte k + 1 and the next two of a stream are message m.
FrameAt(all, k, m) == all[k + 1] = <<m, 1>> /\ all[k + 2] = <<m, 2>> /\ all[k + 3] = <<m, 3>>

\* A sequence of two and one more.
LEMMA ConcatAt ==
  ASSUME NEW S, NEW s \in Seq(S), NEW t \in Seq(S)
  PROVE  /\ s \o t \in Seq(S) /\ Len(s \o t) = Len(s) + Len(t)
         /\ \A i \in 1 .. Len(s) : (s \o t)[i] = s[i]
         /\ \A i \in 1 .. Len(t) : (s \o t)[Len(s) + i] = t[i]
BY ConcatProperties

LEMMA TwoAndOne ==
  ASSUME NEW S, NEW a \in S, NEW b \in S, NEW c \in S
  PROVE  <<a, b>> \o <<c>> = <<a, b, c>>
<1>1. ASSUME NEW s \in Seq(S), NEW t \in Seq(S), NEW u \in Seq(S), Len(s) = 2, Len(t) = 1, Len(u) = 3,
             s[1] = u[1], s[2] = u[2], t[1] = u[3]
      PROVE  s \o t = u
  <2>1. s \o t \in Seq(S) /\ Len(s \o t) = 3 /\ (s \o t)[1] = s[1] /\ (s \o t)[2] = s[2] /\ (s \o t)[2 + 1] = t[1]
    <3>1. /\ s \o t \in Seq(S) /\ Len(s \o t) = Len(s) + Len(t)
          /\ \A i \in 1 .. Len(s) : (s \o t)[i] = s[i]
          /\ \A i \in 1 .. Len(t) : (s \o t)[Len(s) + i] = t[i]
      BY ConcatAt
    <3>q. QED BY <1>1, <3>1
  <2>2. \A i \in 1 .. 3 : (s \o t)[i] = u[i]
    BY <1>1, <2>1
  <2>q. QED BY <1>1, <2>1, <2>2, SeqEqual
<1>2. <<a, b>> \in Seq(S) /\ <<c>> \in Seq(S) /\ <<a, b, c>> \in Seq(S)
  OBVIOUS
<1>3. /\ Len(<<a, b>>) = 2 /\ Len(<<c>>) = 1 /\ Len(<<a, b, c>>) = 3
      /\ <<a, b>>[1] = <<a, b, c>>[1] /\ <<a, b>>[2] = <<a, b, c>>[2] /\ <<c>>[1] = <<a, b, c>>[3]
  OBVIOUS
<1>q. QED BY <1>1, <1>2, <1>3, Zenon

\* The encoding of a message.
LEMMA EncodedFrame == ASSUME NEW m PROVE Encode(m) = <<<<m, 1>>, <<m, 2>>, <<m, 3>>>>
<1>1. Encode(m) = <<<<m, 1>>, <<m, 2>>>> \o <<<<m, 3>>>>
  BY DEF Encode, Header
<1> DEFINE S == {<<m, 1>>, <<m, 2>>, <<m, 3>>}
<1>2. <<m, 1>> \in S /\ <<m, 2>> \in S /\ <<m, 3>> \in S
  OBVIOUS
<1> HIDE DEF S
<1>q. QED BY <1>1, <1>2, TwoAndOne

\* What TryParseMessage takes for a message is one: the checksum fits.
LEMMA ParsedFrame ==
  ASSUME NEW M, NEW b \in Seq(M \X (1 .. 3)), TryParseMessage(b) = "message"
  PROVE  Len(b) >= 3 /\ TotalNeeded(b) = 3 /\ b[1][1] \in M /\ FrameAt(b, 0, b[1][1])
<1> DEFINE total == TotalNeeded(b)
<1>1. Len(b) \in Nat /\ Len(b) >= 2 /\ Magic(b) /\ Len(b) >= total /\ ChecksumFits(SubSeq(b, 1, total))
  <2>1. Len(b) \in Nat /\ kHeaderSize = 2
    BY DEF kHeaderSize
  <2>2. Len(b) >= 2 /\ Magic(b)
    <3>1. CASE Len(b) < 2
      BY <2>1, <3>1 DEF TryParseMessage
    <3>2. CASE Len(b) >= 2 /\ ~ Magic(b)
      BY <2>1, <3>2 DEF TryParseMessage
    <3>q. QED BY <2>1, <3>1, <3>2
  <2>3. TryParseMessage(b) = IF Len(b) < total THEN "wait"
                             ELSE IF ChecksumFits(SubSeq(b, 1, total)) THEN "message" ELSE "drop"
    BY <2>1, <2>2 DEF TryParseMessage
  <2>4. ~ (Len(b) < total) /\ ChecksumFits(SubSeq(b, 1, total))
    BY <2>3
  <2>5. total \in Nat
    BY DecoderAssumption DEF TotalNeeded, kHeaderSize, DecoderAssumption
  <2>q. QED BY <2>1, <2>2, <2>4, <2>5
<1>2. total \in Nat /\ total >= 2
  BY DecoderAssumption DEF TotalNeeded, kHeaderSize, DecoderAssumption
<1> DEFINE frame == SubSeq(b, 1, total)
<1>3. Len(frame) = total /\ \A i \in 1 .. total : frame[i] = b[i]
  BY <1>1, <1>2
<1>4. frame = Encode(b[1][1])
  BY <1>1, <1>2, <1>3 DEF ChecksumFits
<1>5. frame = <<<<b[1][1], 1>>, <<b[1][1], 2>>, <<b[1][1], 3>>>>
  BY <1>4, EncodedFrame
<1> HIDE DEF frame, total
<1>6. total = 3
  BY <1>3, <1>5
<1>7. b[1] = <<b[1][1], 1>> /\ b[2] = <<b[1][1], 2>> /\ b[3] = <<b[1][1], 3>>
  BY <1>3, <1>5, <1>6
<1>8. b[1] \in M \X (1 .. 3)
  BY <1>1
<1>q. QED BY <1>1, <1>6, <1>7, <1>8 DEF FrameAt, total

\* The rest of a stream.
LEMMA AfterFacts ==
  ASSUME NEW S, NEW all \in Seq(S), NEW p \in 0 .. Len(all)
  PROVE  /\ After(all, p) \in Seq(S) /\ Len(After(all, p)) = Len(all) - p
         /\ \A i \in 1 .. (Len(all) - p) : After(all, p)[i] = all[p + i]
<1>1. Len(all) \in Nat /\ \A i \in (p + 1) .. Len(all) : all[i] \in S
  OBVIOUS
<1>2. /\ SubSeq(all, p + 1, Len(all)) \in Seq(S)
      /\ Len(SubSeq(all, p + 1, Len(all))) = IF p + 1 <= Len(all) THEN Len(all) - (p + 1) + 1 ELSE 0
      /\ \A i \in 1 .. (Len(all) - (p + 1) + 1) : SubSeq(all, p + 1, Len(all))[i] = all[p + 1 + i - 1]
  BY <1>1, SubSeqProperties
<1>q. QED BY <1>1, <1>2 DEF After

\* One round: it stops without a message, or it goes on behind the message it has found.
Stops(all, p) == [out |-> <<>>, buffer |-> After(all, p)]
GoesOn(all, loop, p) == [out |-> <<all[p + 1][1]>> \o loop[p + 3].out, buffer |-> loop[p + 3].buffer]

LEMMA RoundCases ==
  ASSUME NEW M, NEW all \in Seq(M \X (1 .. 3)), NEW p \in 0 .. Len(all)
  PROVE  \/ \A loop : Round(all, loop, p) = Stops(all, p)
         \/ p < Len(all) /\ \A loop : Round(all, loop, p) = Stops(all, p + 1)
         \/ /\ p + 3 <= Len(all) /\ all[p + 1][1] \in M /\ FrameAt(all, p, all[p + 1][1])
            /\ \A loop : Round(all, loop, p) = GoesOn(all, loop, p)
<1> DEFINE b == After(all, p)
<1>1. b \in Seq(M \X (1 .. 3)) /\ Len(b) = Len(all) - p /\ \A i \in 1 .. (Len(all) - p) : b[i] = all[p + i]
  BY AfterFacts
<1>2. TryParseMessage(b) \in {"wait", "drop", "message"}
  BY <1>1 DEF TryParseMessage, kHeaderSize
<1>3. CASE TryParseMessage(b) = "wait"
  BY <1>3 DEF Round, Stops
<1>4. CASE TryParseMessage(b) = "drop"
  <2>1. p < Len(all)
    BY <1>1, <1>4 DEF TryParseMessage, kHeaderSize
  <2>q. QED BY <1>4, <2>1 DEF Round, Stops
<1>5. CASE TryParseMessage(b) = "message"
  <2>1. Len(b) >= 3 /\ TotalNeeded(b) = 3 /\ b[1][1] \in M /\ FrameAt(b, 0, b[1][1])
    BY <1>1, <1>5, ParsedFrame
  <2>2. \A loop : Round(all, loop, p) = GoesOn(all, loop, p)
    BY <1>5, <2>1 DEF Round, GoesOn
  <2>3. p + 3 <= Len(all) /\ b[1] = all[p + 1] /\ b[2] = all[p + 2] /\ b[3] = all[p + 3]
    BY <1>1, <2>1
  <2>q. QED BY <2>1, <2>2, <2>3 DEF FrameAt
<1>q. QED BY <1>2, <1>3, <1>4, <1>5

\* The recursion of Feed is well-founded: its loop exists.
LEMMA LoopExists ==
  ASSUME NEW M, NEW all \in Seq(M \X (1 .. 3))
  PROVE  \E loop : loop = [p \in 0 .. Len(all) |-> Round(all, loop, p)]
<1> DEFINE n == Len(all)
           G == {p \in 0 .. n : \E g : g = [i \in p .. n |-> Round(all, g, i)]}
<1>1. n \in Nat
  OBVIOUS
<1>2. ASSUME NEW p \in 0 .. n, \A q \in (p + 1) .. n : q \in G
      PROVE  p \in G
  <2> SUFFICES \E g : g = [i \in p .. n |-> Round(all, g, i)]
    OBVIOUS
  <2>1. PICK g : p < n => g = [i \in (p + 1) .. n |-> Round(all, g, i)]
    <3>1. CASE p < n
      <4>1. p + 1 \in G
        BY <1>1, <1>2, <3>1
      <4>q. QED BY <4>1
    <3>2. CASE ~ (p < n)
      BY <3>2
    <3>q. QED BY <3>1, <3>2
  <2> DEFINE h == [i \in p .. n |-> IF i = p THEN Round(all, g, p) ELSE g[i]]
  <2>2. ASSUME NEW i \in p .. n PROVE h[i] = Round(all, h, i)
    <3>1. i \in 0 .. Len(all)
      BY <1>1
    <3>2. h[i] = Round(all, g, i)
      BY <1>1, <2>1
    <3>3. CASE \A loop : Round(all, loop, i) = Stops(all, i)
      BY <3>2, <3>3
    <3>4. CASE \A loop : Round(all, loop, i) = Stops(all, i + 1)
      BY <3>2, <3>4
    <3>5. ASSUME i + 3 <= Len(all), \A loop : Round(all, loop, i) = GoesOn(all, loop, i)
          PROVE  h[i] = Round(all, h, i)
      <4>1. h[i + 3] = g[i + 3]
        BY <1>1, <3>5
      <4>q. QED BY <3>2, <3>5, <4>1 DEF GoesOn
    <3>q. QED BY <3>1, <3>3, <3>4, <3>5, RoundCases
  <2> HIDE DEF h
  <2>3. h = [i \in p .. n |-> h[i]]
    BY DEF h
  <2>4. h = [i \in p .. n |-> Round(all, h, i)]
    BY <2>2, <2>3
  <2>q. QED BY <2>4
<1>3. 0 \in G
  <2> HIDE DEF G
  <2>1. \A p \in 0 .. n : p \in G
    BY <1>1, <1>2, DownTo
  <2>q. QED BY <1>1, <2>1
<1>q. QED BY <1>3

LEMMA LoopRounds ==
  ASSUME NEW M, NEW all \in Seq(M \X (1 .. 3)), NEW p \in 0 .. Len(all)
  PROVE  Loop(all)[p] = Round(all, Loop(all), p)
<1>1. Loop(all) = CHOOSE loop : loop = [i \in 0 .. Len(all) |-> Round(all, loop, i)]
  BY DEF Loop
<1>2. Loop(all) = [i \in 0 .. Len(all) |-> Round(all, Loop(all), i)]
  BY <1>1, LoopExists
<1>q. QED BY <1>2

\* The messages of `out` are at places of `all` that follow each other, from byte
\* number p + 1 to byte number r.
FramesIn(all, out, p, r) ==
  \E q \in [1 .. Len(out) -> Nat] :
    /\ \A k \in 1 .. Len(out) : p <= q[k] /\ q[k] + 3 <= r /\ FrameAt(all, q[k], out[k])
    /\ \A j, k \in 1 .. Len(out) : j < k => q[j] + 3 <= q[k]

\* What the rounds from p on return.
SoundFrom(all, p, M) ==
  /\ Loop(all)[p].out \in Seq(M)
  /\ \E r \in p .. Len(all) : Loop(all)[p].buffer = After(all, r) /\ FramesIn(all, Loop(all)[p].out, p, r)

LEMMA OneMore ==
  ASSUME NEW M, NEW m \in M, NEW out \in Seq(M)
  PROVE  /\ <<m>> \o out \in Seq(M) /\ Len(<<m>> \o out) = Len(out) + 1
         /\ (<<m>> \o out)[1] = m /\ \A k \in 1 .. Len(out) : (<<m>> \o out)[k + 1] = out[k]
<1>1. <<m>> \in Seq(M) /\ Len(<<m>>) = 1 /\ <<m>>[1] = m
  OBVIOUS
<1>2. ASSUME NEW s \in Seq(M)
      PROVE  /\ s \o out \in Seq(M) /\ Len(s \o out) = Len(s) + Len(out)
             /\ \A i \in 1 .. Len(s) : (s \o out)[i] = s[i]
             /\ \A i \in 1 .. Len(out) : (s \o out)[Len(s) + i] = out[i]
  BY ConcatAt
<1> DEFINE s == <<m>>
<1>3. s \in Seq(M) /\ Len(s) = 1 /\ s[1] = m
  BY <1>1
<1> HIDE DEF s
<1>4. /\ s \o out \in Seq(M) /\ Len(s \o out) = Len(s) + Len(out)
      /\ \A i \in 1 .. Len(s) : (s \o out)[i] = s[i]
      /\ \A i \in 1 .. Len(out) : (s \o out)[Len(s) + i] = out[i]
  BY <1>2, <1>3
<1>5. Len(out) \in Nat
  OBVIOUS
<1>6. /\ s \o out \in Seq(M) /\ Len(s \o out) = Len(out) + 1 /\ (s \o out)[1] = m
      /\ \A k \in 1 .. Len(out) : (s \o out)[k + 1] = out[k]
  BY <1>3, <1>4, <1>5
<1>q. QED BY <1>6 DEF s

LEMMA FramesMore ==
  ASSUME NEW M, NEW all, NEW m \in M, NEW out \in Seq(M), NEW p \in Nat, NEW r \in Nat,
         FrameAt(all, p, m), p + 3 <= r, FramesIn(all, out, p + 3, r)
  PROVE  FramesIn(all, <<m>> \o out, p, r)
<1> DEFINE more == <<m>> \o out
<1>1. /\ Len(more) = Len(out) + 1 /\ more[1] = m
      /\ \A k \in 1 .. Len(out) : more[k + 1] = out[k]
  BY OneMore
<1>2. Len(out) \in Nat
  OBVIOUS
<1>3. PICK q \in [1 .. Len(out) -> Nat] :
        /\ \A k \in 1 .. Len(out) : p + 3 <= q[k] /\ q[k] + 3 <= r /\ FrameAt(all, q[k], out[k])
        /\ \A j, k \in 1 .. Len(out) : j < k => q[j] + 3 <= q[k]
  BY DEF FramesIn
<1> HIDE DEF more
<1> DEFINE g == [k \in 1 .. Len(more) |-> IF k = 1 THEN p ELSE q[k - 1]]
<1>4. g \in [1 .. Len(more) -> Nat]
  BY <1>1, <1>2
<1>5. ASSUME NEW k \in 1 .. Len(more)
      PROVE  p <= g[k] /\ g[k] + 3 <= r /\ FrameAt(all, g[k], more[k])
  <2>1. CASE k = 1
    BY <1>1, <2>1
  <2>2. CASE k # 1
    <3>1. k - 1 \in 1 .. Len(out) /\ more[(k - 1) + 1] = out[k - 1] /\ (k - 1) + 1 = k
      BY <1>1, <1>2, <2>2
    <3>2. g[k] = q[k - 1] /\ more[k] = out[k - 1]
      BY <2>2, <3>1
    <3>3. q[k - 1] \in Nat /\ p + 3 <= q[k - 1] /\ q[k - 1] + 3 <= r /\ FrameAt(all, q[k - 1], out[k - 1])
      BY <1>3, <3>1
    <3> HIDE DEF g
    <3>q. QED BY <3>2, <3>3
  <2>q. QED BY <2>1, <2>2
<1>6. ASSUME NEW j \in 1 .. Len(more), NEW k \in 1 .. Len(more), j < k
      PROVE  g[j] + 3 <= g[k]
  <2>1. k - 1 \in 1 .. Len(out) /\ g[k] = q[k - 1] /\ p + 3 <= q[k - 1]
    BY <1>1, <1>2, <1>3, <1>6
  <2>2. CASE j = 1
    BY <2>1, <2>2
  <2>3. CASE j # 1
    <3>1. j - 1 \in 1 .. Len(out) /\ g[j] = q[j - 1] /\ j - 1 < k - 1
      BY <1>1, <1>2, <1>6, <2>3
    <3> HIDE DEF g
    <3>q. QED BY <1>3, <2>1, <3>1
  <2>q. QED BY <2>2, <2>3
<1> HIDE DEF g
<1>7. FramesIn(all, more, p, r)
  BY <1>4, <1>5, <1>6 DEF FramesIn
<1>q. QED BY <1>7 DEF more

LEMMA SoundRound ==
  ASSUME NEW M, NEW all \in Seq(M \X (1 .. 3)), NEW p \in 0 .. Len(all),
         \A q \in (p + 1) .. Len(all) : SoundFrom(all, q, M)
  PROVE  SoundFrom(all, p, M)
<1>1. Loop(all)[p] = Round(all, Loop(all), p) /\ Len(all) \in Nat
  <2>1. Loop(all)[p] = Round(all, Loop(all), p)
    BY LoopRounds
  <2>q. QED BY <2>1
<1>2. ASSUME NEW r \in p .. Len(all), Loop(all)[p] = Stops(all, r)
      PROVE  SoundFrom(all, p, M)
  <2>1. Loop(all)[p].out = <<>> /\ Loop(all)[p].buffer = After(all, r)
    BY <1>2 DEF Stops
  <2>2. <<>> \in Seq(M) /\ Len(<<>>) = 0
    OBVIOUS
  <2>3. FramesIn(all, <<>>, p, r)
    <3> DEFINE none == <<>>
               q == [k \in 1 .. Len(none) |-> 0]
    <3>1. q \in [1 .. Len(none) -> Nat] /\ \A k \in 1 .. Len(none) : FALSE
      BY <2>2
    <3> HIDE DEF q, none
    <3>2. FramesIn(all, none, p, r)
      BY <3>1 DEF FramesIn
    <3>q. QED BY <3>2 DEF none
  <2>q. QED BY <2>1, <2>2, <2>3 DEF SoundFrom
<1>3. CASE Round(all, Loop(all), p) = Stops(all, p)
  BY <1>1, <1>2, <1>3
<1>4. CASE p < Len(all) /\ Round(all, Loop(all), p) = Stops(all, p + 1)
  BY <1>1, <1>2, <1>4
<1>5. CASE /\ p + 3 <= Len(all) /\ all[p + 1][1] \in M /\ FrameAt(all, p, all[p + 1][1])
           /\ Round(all, Loop(all), p) = GoesOn(all, Loop(all), p)
  <2> DEFINE m == all[p + 1][1]
             rest == Loop(all)[p + 3]
  <2>1. Loop(all)[p].out = <<m>> \o rest.out /\ Loop(all)[p].buffer = rest.buffer
    BY <1>1, <1>5 DEF GoesOn
  <2>2. SoundFrom(all, p + 3, M)
    BY <1>1, <1>5
  <2>3. rest.out \in Seq(M)
    BY <2>2 DEF SoundFrom
  <2>4. PICK r \in (p + 3) .. Len(all) : rest.buffer = After(all, r) /\ FramesIn(all, rest.out, p + 3, r)
    BY <2>2 DEF SoundFrom
  <2>5. m \in M /\ FrameAt(all, p, m) /\ p \in Nat /\ r \in Nat /\ p + 3 <= r /\ r \in p .. Len(all)
    BY <1>1, <1>5
  <2> HIDE DEF m, rest
  <2>6. FramesIn(all, <<m>> \o rest.out, p, r)
    BY <2>3, <2>4, <2>5, FramesMore
  <2>7. <<m>> \o rest.out \in Seq(M)
    BY <2>3, <2>5, OneMore
  <2>q. QED BY <2>1, <2>4, <2>5, <2>6, <2>7 DEF SoundFrom
<1>q. QED BY <1>3, <1>4, <1>5, RoundCases

\* Decoder::Feed on any bytes, also after a connection inherited a decoder: what it returns
\* was in the bytes it got, in the order of the stream, each message whole and once.  What
\* it keeps comes after the last of them.
THEOREM FeedSound ==
  ASSUME NEW M, NEW buffer \in Seq(M \X (1 .. 3)), NEW piece \in Seq(M \X (1 .. 3))
  PROVE  /\ Feed(buffer, piece).out \in Seq(M)
         /\ \E r \in 0 .. Len(buffer \o piece) :
              /\ Feed(buffer, piece).buffer = After(buffer \o piece, r)
              /\ FramesIn(buffer \o piece, Feed(buffer, piece).out, 0, r)
<1> DEFINE all == buffer \o piece
           G == {p \in 0 .. Len(all) : SoundFrom(all, p, M)}
<1>1. all \in Seq(M \X (1 .. 3)) /\ Len(all) \in Nat
  <2>1. all \in Seq(M \X (1 .. 3))
    BY ConcatAt
  <2> HIDE DEF all
  <2>q. QED BY <2>1
<1> HIDE DEF all
<1>2. ASSUME NEW p \in 0 .. Len(all), \A q \in (p + 1) .. Len(all) : q \in G PROVE p \in G
  BY <1>1, <1>2, SoundRound
<1> HIDE DEF G
<1>3. 0 \in G
  <2>1. \A p \in 0 .. Len(all) : p \in G
    BY <1>1, <1>2, DownTo
  <2>q. QED BY <1>1, <2>1
<1>4. SoundFrom(all, 0, M)
  BY <1>3 DEF G
<1>5. Feed(buffer, piece) = Loop(all)[0]
  BY DEF Feed, all
<1>q. QED BY <1>4, <1>5 DEF SoundFrom, all

\* A stream of whole messages, and the beginning of the next.
Aligned(t) == \A k \in Nat : \A j \in 1 .. 3 : 3 * k + j <= Len(t) => t[3 * k + j] = <<t[3 * k + 1][1], j>>

LEMMA WholeFrame ==
  ASSUME NEW M, NEW b \in Seq(M \X (1 .. 3)), Len(b) >= 3, FrameAt(b, 0, b[1][1])
  PROVE  TryParseMessage(b) = "message" /\ TotalNeeded(b) = 3
<1>1. b[1] = <<b[1][1], 1>> /\ b[2] = <<b[1][1], 2>> /\ b[3] = <<b[1][1], 3>>
  BY DEF FrameAt
<1>2. b[1][2] = 1 /\ b[2][2] = 2 /\ TotalNeeded(b) = 3 /\ Magic(b)
  BY <1>1 DEF TotalNeeded, Magic, kHeaderSize
<1>3. SubSeq(b, 1, 3) \in Seq(M \X (1 .. 3)) /\ Len(SubSeq(b, 1, 3)) = 3 /\ \A i \in 1 .. 3 : SubSeq(b, 1, 3)[i] = b[i]
  OBVIOUS
<1>4. Encode(b[1][1]) = <<b[1], b[2], b[3]>>
  BY <1>1, EncodedFrame
<1>5. b[1] \in M \X (1 .. 3) /\ b[2] \in M \X (1 .. 3) /\ b[3] \in M \X (1 .. 3)
  OBVIOUS
<1>6. SubSeq(b, 1, 3) = <<b[1], b[2], b[3]>>
  <2>1. ASSUME NEW s \in Seq(M \X (1 .. 3)), NEW t \in Seq(M \X (1 .. 3)), Len(s) = 3, Len(t) = 3,
               s[1] = t[1], s[2] = t[2], s[3] = t[3]
        PROVE  s = t
    <3>1. \A i \in 1 .. 3 : s[i] = t[i]
      BY <2>1
    <3>q. QED BY <2>1, <3>1, SeqEqual
  <2>2. <<b[1], b[2], b[3]>> \in Seq(M \X (1 .. 3)) /\ Len(<<b[1], b[2], b[3]>>) = 3
    BY <1>5
  <2>3. /\ SubSeq(b, 1, 3)[1] = <<b[1], b[2], b[3]>>[1] /\ SubSeq(b, 1, 3)[2] = <<b[1], b[2], b[3]>>[2]
        /\ SubSeq(b, 1, 3)[3] = <<b[1], b[2], b[3]>>[3]
    BY <1>3
  <2>q. QED BY <1>3, <2>1, <2>2, <2>3, Zenon
<1>7. SubSeq(b, 1, 3)[1][1] = b[1][1]
  BY <1>3
<1>8. ChecksumFits(SubSeq(b, 1, 3))
  BY <1>4, <1>6, <1>7 DEF ChecksumFits
<1>9. TryParseMessage(b) = IF Len(b) < TotalNeeded(b) THEN "wait"
                           ELSE IF ChecksumFits(SubSeq(b, 1, TotalNeeded(b))) THEN "message" ELSE "drop"
  <2>1. ~ (Len(b) < kHeaderSize) /\ Len(b) >= kHeaderSize
    BY DEF kHeaderSize
  <2>q. QED BY <1>2, <2>1 DEF TryParseMessage
<1>q. QED BY <1>2, <1>8, <1>9

LEMMA PartFrame ==
  ASSUME NEW M, NEW b \in Seq(M \X (1 .. 3)), Len(b) < 3,
         Len(b) = 2 => b[1][2] = 1 /\ b[2][2] = 2
  PROVE  TryParseMessage(b) = "wait"
<1>1. CASE Len(b) < 2
  BY <1>1 DEF TryParseMessage, kHeaderSize
<1>2. CASE Len(b) = 2
  <2>1. TotalNeeded(b) = 3 /\ Magic(b)
    BY <1>2 DEF TotalNeeded, Magic, kHeaderSize
  <2>2. ~ (Len(b) < kHeaderSize) /\ Len(b) >= kHeaderSize /\ Len(b) < TotalNeeded(b)
    BY <1>2, <2>1 DEF kHeaderSize
  <2>q. QED BY <2>1, <2>2 DEF TryParseMessage
<1>q. QED BY <1>1, <1>2

\* What the rounds behind the first j messages return, when c of them are whole.
WholeFrom(all, c, j, M) ==
  /\ Loop(all)[3 * j].out \in Seq(M) /\ Len(Loop(all)[3 * j].out) = c - j
  /\ \A k \in 1 .. (c - j) : Loop(all)[3 * j].out[k] = all[3 * (j + k - 1) + 1][1]
  /\ Loop(all)[3 * j].buffer = After(all, 3 * c)

LEMMA WholeRound ==
  ASSUME NEW M, NEW all \in Seq(M \X (1 .. 3)), Aligned(all),
         NEW c \in Nat, 3 * c <= Len(all), Len(all) < 3 * c + 3,
         NEW j \in 0 .. c, \A i \in (j + 1) .. c : WholeFrom(all, c, i, M)
  PROVE  WholeFrom(all, c, j, M)
<1> DEFINE p == 3 * j
           b == After(all, p)
<1>1. Len(all) \in Nat /\ p \in 0 .. Len(all)
  <2>1. Len(all) \in Nat
    OBVIOUS
  <2>q. QED BY <2>1
<1>2. Loop(all)[p] = Round(all, Loop(all), p)
  BY <1>1, LoopRounds
<1>3. b \in Seq(M \X (1 .. 3)) /\ Len(b) = Len(all) - p /\ \A i \in 1 .. (Len(all) - p) : b[i] = all[p + i]
  BY <1>1, AfterFacts
<1>4. \A i \in 1 .. 3 : p + i <= Len(all) => all[p + i] = <<all[p + 1][1], i>>
  BY DEF Aligned
<1>7. \A i \in 1 .. 3 : p + i <= Len(all) => b[i] = all[p + i]
  <2> HIDE DEF p, b
  <2>1. \A i \in 1 .. 3 : p + i <= Len(all) => i \in 1 .. (Len(all) - p)
    BY <1>1
  <2>q. QED BY <1>3, <2>1
<1>5. CASE j = c
  <2>1. p = 3 * c
    BY <1>5
  <2> HIDE DEF p
  <2>2. Len(b) < 3
    BY <1>1, <1>3, <2>1
  <2>3. Len(b) = 2 => b[1][2] = 1 /\ b[2][2] = 2
    <3>1. ASSUME Len(b) = 2 PROVE b[1] = all[p + 1] /\ b[2] = all[p + 2] /\ p + 2 <= Len(all)
      <4>1. p + 1 <= Len(all) /\ p + 2 <= Len(all)
        <5>1. Len(all) - p = 2
          BY <1>3, <3>1, Zenon
        <5> HIDE DEF b
        <5>q. QED BY <1>1, <5>1
      <4>q. QED BY <1>7, <4>1
    <3>2. ASSUME Len(b) = 2 PROVE all[p + 1] = <<all[p + 1][1], 1>> /\ all[p + 2] = <<all[p + 1][1], 2>>
      BY <1>1, <1>4, <3>1, <3>2
    <3>q. QED BY <3>1, <3>2
  <2> HIDE DEF b
  <2>4. TryParseMessage(b) = "wait"
    BY <1>3, <2>2, <2>3, PartFrame
  <2>5. Loop(all)[p] = [out |-> <<>>, buffer |-> b]
    BY <1>2, <2>4 DEF Round, b
  <2>6. <<>> \in Seq(M) /\ Len(<<>>) = 0
    OBVIOUS
  <2>7. Loop(all)[p].out = <<>> /\ Loop(all)[p].buffer = After(all, 3 * c)
    BY <2>1, <2>5 DEF b
  <2>8. c - j = 0 /\ \A k \in 1 .. (c - j) : FALSE
    BY <1>5
  <2>q. QED BY <2>6, <2>7, <2>8 DEF WholeFrom, p
<1>6. CASE j < c
  <2>1. p + 3 <= Len(all) /\ p + 3 = 3 * (j + 1) /\ j + 1 \in (j + 1) .. c
    BY <1>1, <1>6
  <2> DEFINE m == all[p + 1][1]
  <2>2. all[p + 1] = <<m, 1>> /\ all[p + 2] = <<m, 2>> /\ all[p + 3] = <<m, 3>>
    <3> HIDE DEF p
    <3>q. QED BY <1>1, <1>4, <2>1
  <2>3. b[1] = all[p + 1] /\ b[2] = all[p + 2] /\ b[3] = all[p + 3] /\ Len(b) >= 3
    <3> HIDE DEF p, b
    <3>1. p + 1 <= Len(all) /\ p + 2 <= Len(all) /\ Len(all) - p >= 3
      BY <1>1, <2>1
    <3>q. QED BY <1>3, <1>7, <2>1, <3>1
  <2>4. FrameAt(b, 0, b[1][1])
    BY <2>2, <2>3 DEF FrameAt
  <2>5. TryParseMessage(b) = "message" /\ TotalNeeded(b) = 3
    <3> HIDE DEF b
    <3>q. QED BY <1>3, <2>3, <2>4, WholeFrame
  <2> DEFINE rest == Loop(all)[p + 3]
  <2>6. Loop(all)[p] = [out |-> <<m>> \o rest.out, buffer |-> rest.buffer]
    BY <1>2, <2>5 DEF Round
  <2>7. WholeFrom(all, c, j + 1, M)
    BY <2>1
  <2>8. /\ rest.out \in Seq(M) /\ Len(rest.out) = c - (j + 1)
        /\ \A k \in 1 .. (c - (j + 1)) : rest.out[k] = all[3 * ((j + 1) + k - 1) + 1][1]
        /\ rest.buffer = After(all, 3 * c)
    BY <2>1, <2>7 DEF WholeFrom
  <2>9. m \in M
    <3>1. all[p + 1] \in M \X (1 .. 3)
      BY <1>1, <2>1
    <3>q. QED BY <3>1
  <2> HIDE DEF m, rest
  <2> DEFINE more == <<m>> \o rest.out
  <2>10. /\ more \in Seq(M) /\ Len(more) = Len(rest.out) + 1
         /\ more[1] = m /\ \A k \in 1 .. Len(rest.out) : more[k + 1] = rest.out[k]
    BY <2>8, <2>9, OneMore
  <2>11. Loop(all)[p].out = more /\ Loop(all)[p].buffer = rest.buffer
    BY <2>6
  <2> HIDE DEF more
  <2>12. ASSUME NEW k \in 1 .. (c - j) PROVE more[k] = all[3 * (j + k - 1) + 1][1]
    <3>1. CASE k = 1
      BY <2>10, <3>1 DEF m
    <3>2. CASE k # 1
      <4>1. k - 1 \in 1 .. (c - (j + 1)) /\ (k - 1) + 1 = k /\ (j + 1) + (k - 1) - 1 = j + k - 1
        BY <3>2
      <4>2. more[(k - 1) + 1] = rest.out[k - 1]
        BY <2>8, <2>10, <4>1
      <4>3. rest.out[k - 1] = all[3 * ((j + 1) + (k - 1) - 1) + 1][1]
        BY <2>8, <4>1
      <4>q. QED BY <4>1, <4>2, <4>3
    <3>q. QED BY <3>1, <3>2
  <2>13. Len(more) = c - j
    BY <2>8, <2>10
  <2>q. QED BY <2>8, <2>10, <2>11, <2>12, <2>13 DEF WholeFrom
<1>q. QED BY <1>5, <1>6

\* The first c messages of a stream, and the rest.
Whole(all, c, fed, M) ==
  /\ fed.out \in Seq(M) /\ Len(fed.out) = c
  /\ \A k \in 1 .. c : fed.out[k] = all[3 * (k - 1) + 1][1]
  /\ fed.buffer = After(all, 3 * c)

\* Decoder::Feed on a stream that begins with a message: it returns every message that is
\* whole, in order, and keeps the rest, wherever the pieces end.
THEOREM FeedWhole ==
  ASSUME NEW M, NEW buffer \in Seq(M \X (1 .. 3)), NEW piece \in Seq(M \X (1 .. 3)), Aligned(buffer \o piece),
         NEW c \in Nat, 3 * c <= Len(buffer \o piece), Len(buffer \o piece) < 3 * c + 3
  PROVE  Whole(buffer \o piece, c, Feed(buffer, piece), M)
<1> DEFINE all == buffer \o piece
           G == {j \in 0 .. c : WholeFrom(all, c, j, M)}
<1>1. all \in Seq(M \X (1 .. 3))
  BY ConcatAt
<1>2. ASSUME NEW j \in 0 .. c, \A i \in (j + 1) .. c : i \in G PROVE j \in G
  <2>1. \A i \in (j + 1) .. c : WholeFrom(all, c, i, M)
    BY <1>2
  <2>2. Aligned(all) /\ 3 * c <= Len(all) /\ Len(all) < 3 * c + 3
    OBVIOUS
  <2> HIDE DEF all
  <2>3. WholeFrom(all, c, j, M)
    BY <1>1, <2>1, <2>2, WholeRound
  <2>q. QED BY <2>3
<1> HIDE DEF G
<1>3. 0 \in G
  <2>1. \A j \in 0 .. c : j \in G
    BY <1>2, DownTo
  <2>q. QED BY <2>1
<1>4. WholeFrom(all, c, 0, M)
  BY <1>3 DEF G
<1>5. Feed(buffer, piece) = Loop(all)[0]
  BY DEF Feed
<1> HIDE DEF all
<1>6. 3 * 0 = 0 /\ c - 0 = c /\ \A k \in 1 .. c : 0 + k - 1 = k - 1
  OBVIOUS
<1>7. /\ Loop(all)[0].out \in Seq(M) /\ Len(Loop(all)[0].out) = c
      /\ \A k \in 1 .. c : Loop(all)[0].out[k] = all[3 * (k - 1) + 1][1]
      /\ Loop(all)[0].buffer = After(all, 3 * c)
  BY <1>4, <1>6 DEF WholeFrom
<1>q. QED BY <1>5, <1>7 DEF all, Whole

-----------------------------------------------------------------------------
(***************************************************************************)
(* The invariant.                                                          *)
(***************************************************************************)
Byte == Message \X (1 .. 3)

LinkState ==
  [client : Client \cup {None}, to : Instances \cup {None},
   near : {"no", "opening", "up", "closing", "down", "gone"}, far : {"no", "up", "down"},
   address : Address \cup {None}]

ClientState ==
  [pc : {"idle", "connecting", "waiting", "expired", "returned", "leaving"}, calls : Nat, next : Nat,
   connection : Link \cup {None}, posted : Seq(Message), buffer : Seq(Byte),
   pending : SUBSET (Nat \X Nat), answer : Message \cup {None}]

NetworkTypes == link \in [Link -> LinkState] /\ toServer \in [Link -> Seq(Byte)] /\ toClient \in [Link -> Seq(Byte)]

ServerTypes ==
  /\ decoder \in [Address -> Seq(Byte) \cup {None}]
  /\ job \in SUBSET [link : Link, request : Message]
  /\ done \in [Call -> Nat]
  /\ received \in [Link -> Seq(Byte)] /\ submitted \in [Link -> Seq(Message)]
  /\ stale \in SUBSET Link

Types == NetworkTypes /\ ServerTypes /\ client \in [Client -> ClientState]

\* What a connection can hold at each of its stages.
Stages ==
  \A l \in Link :
    /\ link[l].near # "no" => link[l].client \in Client
    /\ link[l].near \in {"no", "opening", "gone"} => link[l].far = "no" /\ toServer[l] = Empty
    /\ link[l].far = "no" =>
         /\ link[l].address = None /\ toClient[l] = Empty
         /\ received[l] = Empty /\ submitted[l] = <<>> /\ \A j \in job : j.link # l
    /\ link[l].far = "up" => link[l].address \in Address
    /\ link[l].far = "down" => toServer[l] = Empty

\* A connection that is up has its TcpConnection object to itself.
OwnAddress ==
  \A k, l \in Link :
    link[k].far = "up" /\ link[l].far = "up" /\ link[k].address = link[l].address => k = l

\* A client sends on a connection of its own.
OwnConnection ==
  \A f \in Client : client[f].connection # None =>
    LET l == client[f].connection IN link[l].near = "up" /\ link[l].client = f

Structure == Stages /\ OwnAddress /\ OwnConnection

\* The promise of a call: it is pending until it is resolved or taken back.
Promise(c) ==
  /\ c.pending \subseteq {<<c.next - 1, c.calls>>}
  /\ c.pending # {} => c.pc \in {"waiting", "expired"} /\ c.answer = None
  /\ c.pc = "waiting" /\ c.answer = None => c.pending # {}

Promises == \A f \in Client : Promise(client[f])

\* A message of client object c of f: its id belongs to its call.
Fit(f, c, m) == m.client = f /\ m.call + c.next = m.id + c.calls + 1
FitBytes(f, c, s) == \A i \in 1 .. Len(s) : Fit(f, c, s[i][1])
FitPosted(f, c) == \A i \in 1 .. Len(c.posted) : Fit(f, c, c.posted[i])

Live(f) == {l \in Link : link[l].client = f /\ link[l].near \in {"opening", "up", "closing"}}

FitLink(f, c, l) ==
  /\ FitBytes(f, c, toServer[l]) /\ FitBytes(f, c, toClient[l])
  /\ link[l].far = "up" /\ decoder[link[l].address] # None => FitBytes(f, c, decoder[link[l].address])
  /\ \A j \in job : j.link = l => Fit(f, c, j.request)

FitClient(f) ==
  /\ FitPosted(f, client[f]) /\ FitBytes(f, client[f], client[f].buffer)
  /\ client[f].pc # "leaving" => \A l \in Live(f) : FitLink(f, client[f], l)
  /\ client[f].answer # None => client[f].answer.client = f /\ client[f].answer.call = client[f].calls

Fits == stale = {} => \A f \in Client : FitClient(f)

\* An RpcClient leaves nothing to the next one.
Quiet(f) ==
  /\ client[f].pc = "idle" => Live(f) = {}
  /\ client[f].pc = "leaving" => \A l \in Live(f) : link[l].near = "closing"
  /\ client[f].pc \in {"idle", "leaving"} => client[f].posted = <<>> /\ client[f].buffer = Empty

\* What a connection has received and what is on its way are whole messages; those that
\* it has received are submitted, and the decoder has the rest.
Framed(t) == Aligned(t) /\ \E n \in Nat : Len(t) = 3 * n

Rest(l) == IF decoder[link[l].address] = None THEN Empty ELSE decoder[link[l].address]

Keeps(s, rest, out) ==
  /\ 3 * Len(out) <= Len(s) /\ Len(s) < 3 * Len(out) + 3
  /\ \A k \in 1 .. Len(out) : out[k] = s[3 * (k - 1) + 1][1]
  /\ rest = After(s, 3 * Len(out))

Kept(l) == Keeps(received[l], Rest(l), submitted[l])

Stream(l) ==
  /\ link[l].far \in {"no", "up"} => Framed(received[l] \o toServer[l])
  /\ link[l].far = "up" => Kept(l)

Streams == \A l \in Link \ stale : Stream(l)

\* Where a request can be: its third byte stands for it in a stream.
Of(m) == <<m.client, m.call>>
Carries(s, c) == \E i \in 1 .. Len(s) : s[i][2] = 3 /\ Of(s[i][1]) = c
OnceIn(s) ==
  \A i, j \in 1 .. Len(s) : s[i][2] = 3 /\ s[j][2] = 3 /\ Of(s[i][1]) = Of(s[j][1]) => i = j

Asks(s, c) == \E i \in 1 .. Len(s) : Of(s[i]) = c
AsksOnce(s) == \A i, j \in 1 .. Len(s) : Of(s[i]) = Of(s[j]) => i = j
Holds(d, c) == d # None /\ Carries(d, c)

Posted(c) == \E f \in Client : Asks(client[f].posted, c)
Wired(c) == \E l \in Link : Carries(toServer[l], c)
Held(c) == \E a \in Address : Holds(decoder[a], c)
Tasked(c) == \E j \in job : Of(j.request) = c
Done(c) == c \in Call /\ done[c] # 0

\* No request is twice in one place, ...
OncePosted ==
  /\ \A f \in Client : AsksOnce(client[f].posted)
  /\ \A f, g \in Client : \A c \in Client \X Nat : Asks(client[f].posted, c) /\ Asks(client[g].posted, c) => f = g

OnceWired ==
  /\ \A l \in Link : OnceIn(toServer[l])
  /\ \A k, l \in Link : \A c \in Client \X Nat : Carries(toServer[k], c) /\ Carries(toServer[l], c) => k = l

OnceHeld ==
  /\ \A a \in Address : decoder[a] # None => OnceIn(decoder[a])
  /\ \A a, b \in Address : \A c \in Client \X Nat : Holds(decoder[a], c) /\ Holds(decoder[b], c) => a = b

OnceTasked == \A i, j \in job : Of(i.request) = Of(j.request) => i = j
OnceDone == \A c \in Call : done[c] <= 1

\* ... nor in two, and the next call of a client is nowhere.
Apart(c) ==
  /\ Posted(c) => ~ Wired(c) /\ ~ Held(c) /\ ~ Tasked(c) /\ ~ Done(c)
  /\ Wired(c) => ~ Held(c) /\ ~ Tasked(c) /\ ~ Done(c)
  /\ Held(c) => ~ Tasked(c) /\ ~ Done(c)
  /\ Tasked(c) => ~ Done(c)
  /\ Posted(c) \/ Wired(c) \/ Held(c) \/ Tasked(c) \/ Done(c) => c[2] <= client[c[1]].calls

Once == OncePosted /\ OnceWired /\ OnceHeld /\ OnceTasked /\ OnceDone /\ \A c \in Client \X Nat : Apart(c)

\* The numbers of sessions are those of connections that were accepted.
Sessions ==
  /\ session \in SUBSET [id : Nat, link : Link]
  /\ OneSessionEach
  /\ \A s \in session : s.id <= Cardinality(Far({"up", "down"}))

Common == Types /\ Structure /\ Promises /\ Fits /\ Streams /\ Once

OfGateway == Sessions /\ \A f \in Client : client[f].pc # "leaving"
OfRpc == \A f \in Client : Quiet(f)

IInv ==
  /\ path \in {"gateway", "rpc"} /\ Common
  /\ path = "gateway" => OfGateway
  /\ path = "rpc" => OfRpc

-----------------------------------------------------------------------------
(***************************************************************************)
(* The steps of both paths, by what they do to the shared state.           *)
(***************************************************************************)
\* The caller goes on: its wait ends, or it starts or ends something.
Local(f, r) ==
  /\ client' = [client EXCEPT ![f] = r] /\ UNCHANGED <<network, server>>
  /\ r \in ClientState
  /\ r.calls = client[f].calls /\ r.next = client[f].next /\ r.connection = client[f].connection
  /\ r.posted = client[f].posted /\ r.buffer = client[f].buffer
  /\ r.answer \in {None, client[f].answer} /\ Promise(r)
  /\ r.pc # "leaving" /\ client[f].pc = "leaving" => Live(f) = {}

\* A new TcpClient, of the same client object or of a new one.
Opens(f, host, r) ==
  /\ Near({"no"}) # {} /\ host \in Instances \cup {None}
  /\ link' = Opened(f, host) /\ client' = [client EXCEPT ![f] = r]
  /\ UNCHANGED <<toServer, toClient, server>>
  /\ r \in ClientState /\ r.calls = client[f].calls /\ r.connection = None /\ Promise(r)
  /\ r.answer \in {None, client[f].answer} /\ client[f].pc # "leaving"
  /\ \/ r.next = client[f].next /\ r.posted = client[f].posted /\ r.buffer = client[f].buffer
     \/ Live(f) = {} /\ r.posted = <<>> /\ r.buffer = Empty

\* The client object is given up.
Leaves(f, r) ==
  /\ link' = [l \in Link |-> Abandoned(f, l)] /\ client' = [client EXCEPT ![f] = r]
  /\ UNCHANGED <<toServer, toClient, server>>
  /\ r \in ClientState /\ r.calls = client[f].calls /\ r.connection = None /\ Promise(r)
  /\ r.posted = <<>> /\ r.buffer = Empty /\ r.answer = None /\ r.pc = "leaving"

\* The server has a new connection, and perhaps a new decoder.
Accepts(l, a) ==
  /\ link[l].near \in {"up", "closing", "down"} /\ link[l].far = "no" /\ a \in FreeAddress
  /\ link' = [link EXCEPT ![l] = [@ EXCEPT !.far = "up", !.address = a]]
  /\ \/ decoder' = decoder /\ stale' = IF decoder[a] = None THEN stale ELSE stale \cup {l}
     \/ decoder' = [decoder EXCEPT ![a] = Empty] /\ stale' = stale
  /\ UNCHANGED <<toServer, toClient, client, job, done, received, submitted>>

\* Connections are gone at the server's end, and perhaps decoders and tasks.
Cut(D) ==
  /\ D \in SUBSET Link /\ \A l \in D : link[l].near \notin {"no", "opening", "gone"}
  /\ link' = [l \in Link |-> IF l \in D THEN [link[l] EXCEPT !.far = "down"] ELSE link[l]]
  /\ toServer' = [l \in Link |-> IF l \in D THEN Empty ELSE toServer[l]]
  /\ decoder' \in [Address -> Seq(Byte) \cup {None}]
  /\ \A a \in Address : 
       \/ decoder'[a] = decoder[a]
       \/ decoder'[a] = None /\ \E l \in D : link[l].address = a /\ link[l].far # "down"
  /\ job' \in SUBSET job
  /\ UNCHANGED <<toClient, client, done, received, submitted, stale>>

Effect ==
  \/ \E l \in Link : ClientUp(l)
  \/ \E l \in Link : ClientDown(l)
  \/ \E l \in Link, n \in Nat : ClientMessage(l, n)
  \/ \E f \in Client : Post(f)
  \/ \E f \in Client : client[f].pc \in {"idle", "connecting"} /\ StartCall(f)
  \/ \E f \in Client, r \in ClientState : Local(f, r)
  \/ \E f \in Client, r \in ClientState, host \in Instances \cup {None} : Opens(f, host, r)
  \/ \E f \in Client, r \in ClientState : Leaves(f, r)
  \/ \E l \in Link, n \in Nat : ServerMessage(l, n, Rest(l))
  \/ \E j \in job : Work(j)
  \/ \E l \in Link, a \in Address : Accepts(l, a)
  \/ \E D \in SUBSET Link : Cut(D)
  \/ UNCHANGED <<network, client, server>>

-----------------------------------------------------------------------------
(***************************************************************************)
(* Types.                                                                  *)
(***************************************************************************)
LEMMA EncodeFacts ==
  ASSUME NEW m \in Message
  PROVE  Encode(m) \in Seq(Byte) /\ Len(Encode(m)) = 3 /\ FrameAt(Encode(m), 0, m)
<1>1. <<m, 1>> \in Byte /\ <<m, 2>> \in Byte /\ <<m, 3>> \in Byte
  BY DEF Byte
<1>2. Encode(m) = <<<<m, 1>>, <<m, 2>>, <<m, 3>>>>
  BY EncodedFrame
<1>q. QED BY <1>1, <1>2 DEF FrameAt

\* The first n elements of a sequence.
LEMMA TakenFacts ==
  ASSUME NEW S, NEW s \in Seq(S), NEW n \in 0 .. Len(s)
  PROVE  SubSeq(s, 1, n) \in Seq(S) /\ Len(SubSeq(s, 1, n)) = n /\ \A i \in 1 .. n : SubSeq(s, 1, n)[i] = s[i]
OBVIOUS

LEMMA FeedTypes ==
  ASSUME NEW buffer \in Seq(Byte), NEW piece \in Seq(Byte)
  PROVE  Feed(buffer, piece).out \in Seq(Message) /\ Feed(buffer, piece).buffer \in Seq(Byte)
<1> DEFINE all == buffer \o piece
<1>1. /\ Feed(buffer, piece).out \in Seq(Message)
      /\ \E r \in 0 .. Len(all) : Feed(buffer, piece).buffer = After(all, r) /\ FramesIn(all, Feed(buffer, piece).out, 0, r)
  BY FeedSound, Zenon DEF Byte
<1>2. all \in Seq(Byte)
  BY ConcatAt
<1> HIDE DEF all
<1>q. QED BY <1>1, <1>2, AfterFacts

\* Nothing is None but None.
LEMMA NoneIsNone ==
  /\ None \notin Client /\ None \notin Address /\ None \notin Link /\ None \notin Message /\ None \notin Seq(Byte)
BY RequestsAssumption DEF RequestsAssumption, Link, Byte

LEMMA EmptyTypes == Empty \in Seq(Byte) /\ Len(Empty) = 0 /\ <<>> \in Seq(Message)
BY DEF Empty

\* A client gets another record.
LEMMA RowType ==
  ASSUME NEW f \in Client, NEW r \in ClientState, client \in [Client -> ClientState],
         client' = [client EXCEPT ![f] = r]
  PROVE  client' \in [Client -> ClientState] /\ \A g \in Client : client'[g] = IF g = f THEN r ELSE client[g]
OBVIOUS

LEMMA ConnectionType ==
  ASSUME NEW c \in ClientState, NEW l \in Link \cup {None}
  PROVE  [c EXCEPT !.connection = l] \in ClientState
BY DEF ClientState

LEMMA UpTypes == ASSUME Types, NEW l \in Link, ClientUp(l), Structure PROVE Types'
<1>1. link[l].client \in Client
  BY DEF ClientUp, Structure, Stages
<1>2. link' \in [Link -> LinkState]
  BY DEF ClientUp, Types, NetworkTypes, LinkState
<1> DEFINE f == link[l].client
<1>3. client' = [client EXCEPT ![f] = [client[f] EXCEPT !.connection = l]]
  BY DEF ClientUp
<1>4. client[f] \in ClientState /\ client \in [Client -> ClientState]
  BY <1>1 DEF Types
<1>5. [client[f] EXCEPT !.connection = l] \in ClientState
  BY <1>4, ConnectionType
<1>6. client' \in [Client -> ClientState]
  BY <1>1, <1>3, <1>4, <1>5, RowType
<1>q. QED BY <1>2, <1>6 DEF ClientUp, server, Types, NetworkTypes, ServerTypes

LEMMA DownTypes == ASSUME Types, NEW l \in Link, ClientDown(l), Structure PROVE Types'
<1>1. link[l].client \in Client
  BY DEF ClientDown, Structure, Stages
<1>2. link' \in [Link -> LinkState]
  BY DEF ClientDown, Types, NetworkTypes, LinkState
<1> DEFINE f == link[l].client
<1>3. client' = [client EXCEPT ![f] = [client[f] EXCEPT !.connection = None]]
  BY DEF ClientDown
<1>4. client[f] \in ClientState /\ client \in [Client -> ClientState]
  BY <1>1 DEF Types
<1>5. [client[f] EXCEPT !.connection = None] \in ClientState
  BY <1>4, ConnectionType
<1>6. client' \in [Client -> ClientState]
  BY <1>1, <1>3, <1>4, <1>5, RowType
<1>7. toClient' \in [Link -> Seq(Byte)]
  BY EmptyTypes DEF ClientDown, Types, NetworkTypes
<1>q. QED BY <1>2, <1>6, <1>7 DEF ClientDown, server, Types, NetworkTypes, ServerTypes

\* The answers that a promise of c waits for, and what it is left with.
Hits(c, answers) == {k \in DOMAIN answers : \E p \in c.pending : p[1] = answers[k].id}
Unhit(c, answers) == {p \in c.pending : \A k \in Hits(c, answers) : p[1] # answers[k].id}

LEMMA ResolvedFacts ==
  ASSUME NEW c \in ClientState, NEW answers \in Seq(Message)
  PROVE  \/ Hits(c, answers) = {} /\ Resolved(c, answers) = c
         \/ \E k \in Hits(c, answers) :
              Resolved(c, answers) = [c EXCEPT !.answer = answers[k], !.pending = Unhit(c, answers)]
<1> DEFINE hit == Hits(c, answers)
<1>1. CASE hit = {}
  BY <1>1 DEF Resolved, Hits
<1>2. CASE hit # {}
  <2> DEFINE first == CHOOSE k \in hit : \A j \in hit : k <= j
  <2>1. \E k \in hit : \A j \in hit : k <= j
    <3>1. hit \in SUBSET Nat
      BY DEF Hits
    <3> HIDE DEF hit
    <3>q. QED BY <1>2, <3>1, LeastNumber
  <2>2. first \in hit
    <3> HIDE DEF hit
    <3>q. QED BY <2>1
  <2>3. Resolved(c, answers) = [c EXCEPT !.answer = answers[first], !.pending = Unhit(c, answers)]
    BY <1>2 DEF Resolved, Hits, Unhit
  <2> HIDE DEF first, hit
  <2>q. QED BY <2>2, <2>3 DEF hit
<1>q. QED BY <1>1, <1>2

LEMMA ResolvedType ==
  ASSUME NEW c \in ClientState, NEW answers \in Seq(Message), NEW b \in Seq(Byte)
  PROVE  [Resolved(c, answers) EXCEPT !.buffer = b] \in ClientState
<1>1. ASSUME NEW d \in ClientState PROVE [d EXCEPT !.buffer = b] \in ClientState
  BY DEF ClientState
<1>2. ASSUME NEW k \in Hits(c, answers)
      PROVE  [c EXCEPT !.answer = answers[k], !.pending = Unhit(c, answers)] \in ClientState
  <2>1. answers[k] \in Message
    BY DEF Hits
  <2>2. Unhit(c, answers) \in SUBSET (Nat \X Nat)
    BY DEF Unhit, ClientState
  <2>q. QED BY <2>1, <2>2 DEF ClientState
<1>3. Resolved(c, answers) \in ClientState
  <2>1. CASE Resolved(c, answers) = c
    BY <2>1, Zenon
  <2>2. CASE \E k \in Hits(c, answers) :
               Resolved(c, answers) = [c EXCEPT !.answer = answers[k], !.pending = Unhit(c, answers)]
    BY <1>2, <2>2, Zenon
  <2>q. QED BY <2>1, <2>2, ResolvedFacts, Zenon
<1>q. QED BY <1>1, <1>3

LEMMA MessageTypes == ASSUME Types, NEW l \in Link, NEW n \in Nat, ClientMessage(l, n), Structure PROVE Types'
<1> DEFINE f == link[l].client
           piece == SubSeq(toClient[l], 1, n)
           fed == Feed(client[f].buffer, piece)
           r == [Resolved(client[f], fed.out) EXCEPT !.buffer = fed.buffer]
<1>1. f \in Client
  BY DEF ClientMessage, Structure, Stages
<1>2. client[f] \in ClientState /\ client \in [Client -> ClientState] /\ toClient[l] \in Seq(Byte)
  BY <1>1 DEF Types, NetworkTypes
<1>3. client[f].buffer \in Seq(Byte)
  BY <1>2 DEF ClientState
<1>4. n \in 0 .. Len(toClient[l])
  BY <1>2 DEF ClientMessage
<1>5. piece \in Seq(Byte) /\ SubSeq(toClient[l], n + 1, Len(toClient[l])) \in Seq(Byte)
  <2>1. piece \in Seq(Byte)
    BY <1>2, <1>4, TakenFacts
  <2>2. After(toClient[l], n) \in Seq(Byte)
    BY <1>2, <1>4, AfterFacts
  <2>q. QED BY <2>1, <2>2 DEF After
<1>6. fed.out \in Seq(Message) /\ fed.buffer \in Seq(Byte)
  <2> HIDE DEF piece
  <2>q. QED BY <1>3, <1>5, FeedTypes
<1>7. client' = [client EXCEPT ![f] = r]
  BY DEF ClientMessage
<1>8. r \in ClientState
  <2> HIDE DEF fed
  <2>q. QED BY <1>2, <1>6, ResolvedType
<1> HIDE DEF r
<1>9. client' \in [Client -> ClientState]
  BY <1>1, <1>2, <1>7, <1>8, RowType
<1>10. toClient' \in [Link -> Seq(Byte)]
  BY <1>5 DEF ClientMessage, Types, NetworkTypes
<1>q. QED BY <1>9, <1>10 DEF ClientMessage, server, Types, NetworkTypes, ServerTypes

LEMMA SentTypes ==
  ASSUME Types, NEW l \in Link, NEW s \in Seq(Byte)
  PROVE  SentToServer(l, s) \in [Link -> Seq(Byte)] /\ SentToClient(l, s) \in [Link -> Seq(Byte)]
<1>1. toServer[l] \in Seq(Byte) /\ toClient[l] \in Seq(Byte)
  BY DEF Types, NetworkTypes
<1>2. toServer[l] \o s \in Seq(Byte) /\ toClient[l] \o s \in Seq(Byte)
  BY <1>1, ConcatAt
<1>q. QED BY <1>2 DEF SentToServer, SentToClient, Types, NetworkTypes

LEMMA PostFacts ==
  ASSUME Types, Structure, NEW f \in Client, Post(f)
  PROVE  /\ client[f].posted \in Seq(Message) /\ client[f].posted # <<>>
         /\ Head(client[f].posted) \in Message /\ Tail(client[f].posted) \in Seq(Message)
         /\ [client[f] EXCEPT !.posted = Tail(client[f].posted)] \in ClientState
         /\ client' = [client EXCEPT ![f] = [client[f] EXCEPT !.posted = Tail(client[f].posted)]]
         /\ client[f].connection # None => client[f].connection \in Link
<1>1. client[f] \in ClientState
  BY DEF Types
<1>2. client[f].posted \in Seq(Message) /\ client[f].posted # <<>>
  BY <1>1 DEF ClientState, Post
<1>3. Head(client[f].posted) \in Message /\ Tail(client[f].posted) \in Seq(Message)
  BY <1>2
<1>4. ASSUME NEW t \in Seq(Message) PROVE [client[f] EXCEPT !.posted = t] \in ClientState
  BY <1>1 DEF ClientState
<1>5. client' = [client EXCEPT ![f] = [client[f] EXCEPT !.posted = Tail(client[f].posted)]]
  BY DEF Post
<1>6. client[f].connection # None => client[f].connection \in Link
  BY <1>1 DEF ClientState
<1>q. QED BY <1>2, <1>3, <1>4, <1>5, <1>6

LEMMA PostTypes == ASSUME Types, Structure, NEW f \in Client, Post(f) PROVE Types'
<1>1. client' \in [Client -> ClientState]
  <2>1. client \in [Client -> ClientState]
    BY DEF Types
  <2>q. QED BY <2>1, PostFacts, RowType
<1>2. toServer' \in [Link -> Seq(Byte)]
  <2>1. CASE client[f].connection = None
    BY <2>1 DEF Post, Types, NetworkTypes
  <2>2. CASE client[f].connection # None
    <3>1. toServer' = SentToServer(client[f].connection, Encode(Head(client[f].posted)))
      BY <2>2 DEF Post
    <3>q. QED BY <2>2, <3>1, PostFacts, EncodeFacts, SentTypes
  <2>q. QED BY <2>1, <2>2
<1>q. QED BY <1>1, <1>2 DEF Post, server, Types, NetworkTypes, ServerTypes

\* The message that a call posts, and what the client object becomes.
Asked(f) == [kind |-> "request", client |-> f, call |-> client[f].calls + 1, id |-> client[f].next]

Calling(f) ==
  [client[f] EXCEPT !.pc = "waiting", !.calls = client[f].calls + 1, !.next = client[f].next + 1,
     !.posted = Append(client[f].posted, Asked(f)),
     !.pending = client[f].pending \cup {<<client[f].next, client[f].calls + 1>>}, !.answer = None]

LEMMA CallFacts ==
  ASSUME Types, NEW f \in Client, StartCall(f)
  PROVE  /\ Asked(f) \in Message /\ Calling(f) \in ClientState
         /\ client' = [client EXCEPT ![f] = Calling(f)]
<1>1. client[f] \in ClientState
  BY DEF Types
<1>2. Asked(f) \in Message
  BY <1>1 DEF Asked, Message, ClientState
<1>3. client[f].posted \in Seq(Message) /\ Append(client[f].posted, Asked(f)) \in Seq(Message)
  <2>1. client[f].posted \in Seq(Message)
    BY <1>1 DEF ClientState
  <2> HIDE DEF Asked
  <2>q. QED BY <1>2, <2>1, AppendProperties
<1>4. Calling(f) \in ClientState
  <2>1. client[f].pending \cup {<<client[f].next, client[f].calls + 1>>} \in SUBSET (Nat \X Nat)
    BY <1>1 DEF ClientState
  <2>2. ASSUME NEW c \in ClientState, NEW t \in Seq(Message), NEW d \in SUBSET (Nat \X Nat), NEW x \in Nat, NEW y \in Nat
        PROVE  [c EXCEPT !.pc = "waiting", !.calls = x, !.next = y, !.posted = t, !.pending = d, !.answer = None] \in ClientState
    BY DEF ClientState
  <2>3. client[f].calls + 1 \in Nat /\ client[f].next + 1 \in Nat
    BY <1>1 DEF ClientState
  <2>q. QED BY <1>1, <1>3, <2>1, <2>2, <2>3, Zenon DEF Calling
<1>5. client' = [client EXCEPT ![f] = Calling(f)]
  BY DEF StartCall, Called, Calling, Asked
<1>q. QED BY <1>2, <1>4, <1>5

LEMMA CallTypes == ASSUME Types, NEW f \in Client, StartCall(f) PROVE Types'
<1>1. client' \in [Client -> ClientState]
  <2>1. client \in [Client -> ClientState]
    BY DEF Types
  <2>q. QED BY <2>1, CallFacts, RowType
<1>q. QED BY <1>1 DEF StartCall, network, server, Types, NetworkTypes, ServerTypes

LEMMA LocalTypes == ASSUME Types, NEW f \in Client, NEW r \in ClientState, Local(f, r) PROVE Types'
<1>1. client' \in [Client -> ClientState]
  <2>1. client \in [Client -> ClientState] /\ client' = [client EXCEPT ![f] = r]
    BY DEF Types, Local
  <2>q. QED BY <2>1, RowType
<1>q. QED BY <1>1 DEF Local, network, server, Types, NetworkTypes, ServerTypes

LEMMA AbandonedType ==
  ASSUME Types, NEW f \in Client, NEW l \in Link
  PROVE  /\ Abandoned(f, l) \in LinkState
         /\ Abandoned(f, l).client = link[l].client /\ Abandoned(f, l).far = link[l].far
         /\ Abandoned(f, l).address = link[l].address
         /\ link[l].client # f => Abandoned(f, l) = link[l]
         /\ link[l].client = f => Abandoned(f, l).near =
              CASE link[l].near = "up" -> "closing" [] link[l].near = "opening" -> "gone" [] OTHER -> link[l].near
<1>1. link[l] \in LinkState
  BY DEF Types, NetworkTypes
<1>2. CASE link[l].client # f
  BY <1>1, <1>2 DEF Abandoned
<1>3. CASE link[l].client = f
  <2>1. Abandoned(f, l) = [link[l] EXCEPT !.near = CASE link[l].near = "up" -> "closing"
                             [] link[l].near = "opening" -> "gone" [] OTHER -> link[l].near]
    BY <1>3 DEF Abandoned
  <2>q. QED BY <1>1, <1>3, <2>1 DEF LinkState
<1>q. QED BY <1>2, <1>3

\* The connection that Opened opens.
NewLink == CHOOSE l \in Near({"no"}) : \A k \in Near({"no"}) : l <= k
NewLinkState(f, host) == [Unused EXCEPT !.client = f, !.to = host, !.near = "opening"]

LEMMA OpenedFacts ==
  ASSUME Types, NEW f \in Client, NEW host \in Instances \cup {None}, Near({"no"}) # {}
  PROVE  /\ NewLink \in Link /\ link[NewLink].near = "no"
         /\ NewLinkState(f, host) \in LinkState
         /\ NewLinkState(f, host).client = f /\ NewLinkState(f, host).to = host
         /\ NewLinkState(f, host).near = "opening" /\ NewLinkState(f, host).far = "no"
         /\ NewLinkState(f, host).address = None
         /\ Opened(f, host) = [l \in Link |-> IF l = NewLink THEN NewLinkState(f, host) ELSE Abandoned(f, l)]
<1>1. Near({"no"}) \in SUBSET Nat /\ Near({"no"}) \in SUBSET Link
  BY RequestsAssumption DEF Near, Link, RequestsAssumption
<1>2. \E l \in Near({"no"}) : \A k \in Near({"no"}) : l <= k
  BY <1>1, LeastNumber
<1>3. NewLink \in Near({"no"})
  BY <1>2 DEF NewLink
<1>4. NewLink \in Link /\ link[NewLink].near = "no"
  BY <1>3 DEF Near
<1>5. NewLinkState(f, host) \in LinkState
  BY DEF NewLinkState, LinkState, Unused
<1>6. Opened(f, host) = [l \in Link |-> IF l = NewLink THEN NewLinkState(f, host) ELSE Abandoned(f, l)]
  <2>1. Opened(f, host) = [l \in Link |-> IF l # NewLink THEN Abandoned(f, l) ELSE NewLinkState(f, host)]
    BY DEF Opened, NewLink, NewLinkState
  <2>q. QED BY <2>1
<1>7. /\ NewLinkState(f, host).client = f /\ NewLinkState(f, host).to = host
      /\ NewLinkState(f, host).near = "opening" /\ NewLinkState(f, host).far = "no"
      /\ NewLinkState(f, host).address = None
  BY DEF NewLinkState, Unused
<1>q. QED BY <1>4, <1>5, <1>6, <1>7

LEMMA OpensTypes ==
  ASSUME Types, NEW f \in Client, NEW r \in ClientState, NEW host \in Instances \cup {None}, Opens(f, host, r)
  PROVE  Types'
<1>1. client' \in [Client -> ClientState]
  <2>1. client \in [Client -> ClientState] /\ client' = [client EXCEPT ![f] = r]
    BY DEF Types, Opens
  <2>q. QED BY <2>1, RowType
<1>2. link' \in [Link -> LinkState]
  <2>1. Near({"no"}) # {} /\ link' = Opened(f, host)
    BY DEF Opens
  <2>2. NewLinkState(f, host) \in LinkState /\ link' = [l \in Link |-> IF l = NewLink THEN NewLinkState(f, host) ELSE Abandoned(f, l)]
    BY <2>1, OpenedFacts
  <2>3. \A l \in Link : Abandoned(f, l) \in LinkState
    BY AbandonedType
  <2>q. QED BY <2>2, <2>3
<1>q. QED BY <1>1, <1>2 DEF Opens, server, Types, NetworkTypes, ServerTypes

LEMMA LeavesTypes ==
  ASSUME Types, NEW f \in Client, NEW r \in ClientState, Leaves(f, r)
  PROVE  Types'
<1>1. client' \in [Client -> ClientState]
  <2>1. client \in [Client -> ClientState] /\ client' = [client EXCEPT ![f] = r]
    BY DEF Types, Leaves
  <2>q. QED BY <2>1, RowType
<1>2. link' \in [Link -> LinkState]
  <2>1. \A l \in Link : Abandoned(f, l) \in LinkState
    BY AbandonedType
  <2>q. QED BY <2>1 DEF Leaves
<1>q. QED BY <1>1, <1>2 DEF Leaves, server, Types, NetworkTypes, ServerTypes

\* What a step of the server's OnMessage is about.
Piece(l, n) == SubSeq(toServer[l], 1, n)
Fed(l, n) == Feed(Rest(l), Piece(l, n))

LEMMA FedFacts ==
  ASSUME Types, Structure, NEW l \in Link, NEW n \in Nat, ServerMessage(l, n, Rest(l))
  PROVE  /\ link[l].far = "up" /\ link[l].address \in Address /\ toServer[l] \in Seq(Byte) /\ n \in 1 .. Len(toServer[l])
         /\ Rest(l) \in Seq(Byte)
         /\ Piece(l, n) \in Seq(Byte) /\ Len(Piece(l, n)) = n /\ \A i \in 1 .. n : Piece(l, n)[i] = toServer[l][i]
         /\ After(toServer[l], n) \in Seq(Byte) /\ Len(After(toServer[l], n)) = Len(toServer[l]) - n
         /\ \A i \in 1 .. (Len(toServer[l]) - n) : After(toServer[l], n)[i] = toServer[l][n + i]
         /\ Fed(l, n).out \in Seq(Message) /\ Fed(l, n).buffer \in Seq(Byte)
         /\ decoder' = [decoder EXCEPT ![link[l].address] = Fed(l, n).buffer]
         /\ job' = job \cup {[link |-> l, request |-> Fed(l, n).out[k]] : k \in 1 .. Len(Fed(l, n).out)}
         /\ received' = [received EXCEPT ![l] = received[l] \o Piece(l, n)]
         /\ submitted' = [submitted EXCEPT ![l] = submitted[l] \o Fed(l, n).out]
         /\ toServer' = [toServer EXCEPT ![l] = After(toServer[l], n)]
<1>1. link[l].far = "up" /\ link[l].address \in Address /\ toServer[l] \in Seq(Byte) /\ n \in 1 .. Len(toServer[l])
  BY DEF ServerMessage, Types, NetworkTypes, Structure, Stages
<1>2. n \in 0 .. Len(toServer[l])
  BY <1>1
<1>3. Piece(l, n) \in Seq(Byte) /\ Len(Piece(l, n)) = n /\ \A i \in 1 .. n : Piece(l, n)[i] = toServer[l][i]
  BY <1>1, <1>2, TakenFacts DEF Piece
<1>4. /\ After(toServer[l], n) \in Seq(Byte) /\ Len(After(toServer[l], n)) = Len(toServer[l]) - n
      /\ \A i \in 1 .. (Len(toServer[l]) - n) : After(toServer[l], n)[i] = toServer[l][n + i]
  BY <1>1, <1>2, AfterFacts
<1>5. Rest(l) \in Seq(Byte)
  BY <1>1, EmptyTypes DEF Rest, Types, ServerTypes
<1>6. Fed(l, n).out \in Seq(Message) /\ Fed(l, n).buffer \in Seq(Byte)
  BY <1>3, <1>5, FeedTypes DEF Fed
<1>7. DOMAIN Fed(l, n).out = 1 .. Len(Fed(l, n).out)
  BY <1>6
<1>8. /\ decoder' = [decoder EXCEPT ![link[l].address] = Fed(l, n).buffer]
      /\ job' = job \cup {[link |-> l, request |-> Fed(l, n).out[k]] : k \in DOMAIN Fed(l, n).out}
      /\ received' = [received EXCEPT ![l] = received[l] \o Piece(l, n)]
      /\ submitted' = [submitted EXCEPT ![l] = submitted[l] \o Fed(l, n).out]
      /\ toServer' = [toServer EXCEPT ![l] = After(toServer[l], n)]
  BY DEF ServerMessage, Submits, Fed, Piece, After
<1>q. QED BY <1>1, <1>3, <1>4, <1>5, <1>6, <1>7, <1>8, Zenon

LEMMA ReadTypes ==
  ASSUME Types, Structure, NEW l \in Link, NEW n \in Nat, ServerMessage(l, n, Rest(l))
  PROVE  Types'
<1> DEFINE fed == Fed(l, n)
<1>1. toServer' \in [Link -> Seq(Byte)]
  <2>1. toServer' = [toServer EXCEPT ![l] = After(toServer[l], n)] /\ After(toServer[l], n) \in Seq(Byte)
    BY FedFacts, Zenon
  <2>q. QED BY <2>1 DEF Types, NetworkTypes
<1>2. decoder' \in [Address -> Seq(Byte) \cup {None}]
  <2>1. decoder' = [decoder EXCEPT ![link[l].address] = Fed(l, n).buffer] /\ Fed(l, n).buffer \in Seq(Byte)
    BY FedFacts, Zenon
  <2>q. QED BY <2>1 DEF Types, ServerTypes
<1>3. job' \in SUBSET [link : Link, request : Message]
  <2>1. /\ fed.out \in Seq(Message)
        /\ job' = job \cup {[link |-> l, request |-> fed.out[k]] : k \in 1 .. Len(fed.out)}
    BY FedFacts, Zenon
  <2>2. job \in SUBSET [link : Link, request : Message]
    BY DEF Types, ServerTypes
  <2> HIDE DEF fed
  <2>3. \A k \in 1 .. Len(fed.out) : fed.out[k] \in Message
    BY <2>1
  <2>q. QED BY <2>1, <2>2, <2>3
<1>4. received' \in [Link -> Seq(Byte)]
  <2>1. Piece(l, n) \in Seq(Byte) /\ received' = [received EXCEPT ![l] = received[l] \o Piece(l, n)]
    BY FedFacts, Zenon
  <2>2. received \in [Link -> Seq(Byte)] /\ received[l] \in Seq(Byte)
    BY DEF Types, ServerTypes
  <2>3. received[l] \o Piece(l, n) \in Seq(Byte)
    BY <2>1, <2>2, ConcatAt
  <2>q. QED BY <2>1, <2>2, <2>3
<1>5. submitted' \in [Link -> Seq(Message)]
  <2>1. fed.out \in Seq(Message) /\ submitted' = [submitted EXCEPT ![l] = submitted[l] \o fed.out]
    BY FedFacts, Zenon
  <2>2. submitted \in [Link -> Seq(Message)] /\ submitted[l] \in Seq(Message)
    BY DEF Types, ServerTypes
  <2>3. submitted[l] \o fed.out \in Seq(Message)
    <3> HIDE DEF fed
    <3>q. QED BY <2>1, <2>2, ConcatAt
  <2>q. QED BY <2>1, <2>2, <2>3
<1>q. QED BY <1>1, <1>2, <1>3, <1>4, <1>5 DEF ServerMessage, Types, NetworkTypes, ServerTypes

LEMMA WorkTypes == ASSUME Types, Structure, NEW j \in job, Work(j) PROVE Types'
<1>1. j \in [link : Link, request : Message]
  BY DEF Types, ServerTypes
<1>2. toClient' \in [Link -> Seq(Byte)]
  <2>1. CASE link[j.link].far = "up"
    <3>1. Response(j.request) \in Message
      BY <1>1 DEF Response, Message
    <3>2. SentToClient(j.link, Encode(Response(j.request))) \in [Link -> Seq(Byte)]
      BY <1>1, <3>1, EncodeFacts, SentTypes
    <3>q. QED BY <2>1, <3>2 DEF Work
  <2>2. CASE link[j.link].far # "up"
    BY <2>2 DEF Work, Types, NetworkTypes
  <2>q. QED BY <2>1, <2>2
<1>3. job' \in SUBSET [link : Link, request : Message]
  BY DEF Work, Types, ServerTypes
<1>4. done' \in [Call -> Nat]
  <2> DEFINE c == <<j.request.client, j.request.call>>
  <2>1. done \in [Call -> Nat] /\ done' = [done EXCEPT ![c] = done[c] + 1]
    BY DEF Work, Types, ServerTypes
  <2> HIDE DEF c
  <2>2. CASE c \in Call
    BY <2>1, <2>2
  <2>3. CASE c \notin Call
    <3>1. done' = done
      BY <2>1, <2>3
    <3>q. QED BY <2>1, <3>1
  <2>q. QED BY <2>2, <2>3
<1>q. QED BY <1>2, <1>3, <1>4 DEF Work, Types, NetworkTypes, ServerTypes

LEMMA AcceptsTypes == ASSUME Types, NEW l \in Link, NEW a \in Address, Accepts(l, a) PROVE Types'
<1>1. link' \in [Link -> LinkState]
  <2>1. ASSUME NEW s \in LinkState PROVE [s EXCEPT !.far = "up", !.address = a] \in LinkState
    BY DEF LinkState
  <2>2. link' = [link EXCEPT ![l] = [link[l] EXCEPT !.far = "up", !.address = a]] /\ link \in [Link -> LinkState]
    BY DEF Accepts, Types, NetworkTypes
  <2>3. [link[l] EXCEPT !.far = "up", !.address = a] \in LinkState
    BY <2>1, <2>2
  <2>q. QED BY <2>2, <2>3
<1>2. decoder' \in [Address -> Seq(Byte) \cup {None}] /\ stale' \in SUBSET Link
  BY EmptyTypes DEF Accepts, Types, ServerTypes
<1>q. QED BY <1>1, <1>2 DEF Accepts, Types, NetworkTypes, ServerTypes

LEMMA CutTypes == ASSUME Types, NEW D \in SUBSET Link, Cut(D) PROVE Types'
<1>1. link' \in [Link -> LinkState]
  <2>1. ASSUME NEW s \in LinkState PROVE [s EXCEPT !.far = "down"] \in LinkState
    BY DEF LinkState
  <2>2. link' = [l \in Link |-> IF l \in D THEN [link[l] EXCEPT !.far = "down"] ELSE link[l]] /\ link \in [Link -> LinkState]
    BY DEF Cut, Types, NetworkTypes
  <2>q. QED BY <2>1, <2>2
<1>2. toServer' \in [Link -> Seq(Byte)]
  BY EmptyTypes DEF Cut, Types, NetworkTypes
<1>3. job' \in SUBSET [link : Link, request : Message]
  BY DEF Cut, Types, ServerTypes
<1>q. QED BY <1>1, <1>2, <1>3 DEF Cut, Types, NetworkTypes, ServerTypes

LEMMA EffectTypes == ASSUME Types, Structure, Effect PROVE Types'
<1>1. CASE UNCHANGED <<network, client, server>>
  BY <1>1 DEF network, server, Types, NetworkTypes, ServerTypes
<1>q. QED BY <1>1, UpTypes, DownTypes, MessageTypes, PostTypes, CallTypes, LocalTypes, OpensTypes, LeavesTypes,
            ReadTypes, WorkTypes, AcceptsTypes, CutTypes DEF Effect

-----------------------------------------------------------------------------
(***************************************************************************)
(* What each step does to the connections and to the client objects.       *)
(***************************************************************************)
\* All fields of a client object but `connection`.
SameButConnection(c, d) ==
  /\ d.pc = c.pc /\ d.calls = c.calls /\ d.next = c.next /\ d.posted = c.posted
  /\ d.buffer = c.buffer /\ d.pending = c.pending /\ d.answer = c.answer

SameButNear(s, t) == t.client = s.client /\ t.far = s.far /\ t.address = s.address

LEMMA UpFacts ==
  ASSUME Types, Structure, NEW l \in Link, ClientUp(l)
  PROVE  /\ link[l].client \in Client /\ link[l].near = "opening"
         /\ \A k \in Link : SameButNear(link[k], link'[k]) /\ link'[k].near = IF k = l THEN "up" ELSE link[k].near
         /\ \A g \in Client : /\ SameButConnection(client[g], client'[g])
                              /\ client'[g].connection = IF g = link[l].client THEN l ELSE client[g].connection
         /\ UNCHANGED <<toServer, toClient, server>>
<1>1. link[l].client \in Client /\ link[l].near = "opening"
  BY DEF ClientUp, Structure, Stages
<1>2. link' = [link EXCEPT ![l].near = "up"] /\ link \in [Link -> LinkState]
  BY DEF ClientUp, Types, NetworkTypes
<1>3. \A k \in Link : SameButNear(link[k], link'[k]) /\ link'[k].near = IF k = l THEN "up" ELSE link[k].near
  BY <1>2 DEF LinkState, SameButNear
<1>4. client' = [client EXCEPT ![link[l].client].connection = l] /\ client \in [Client -> ClientState]
  BY DEF ClientUp, Types
<1>5. \A g \in Client : /\ SameButConnection(client[g], client'[g])
                        /\ client'[g].connection = IF g = link[l].client THEN l ELSE client[g].connection
  BY <1>1, <1>4 DEF SameButConnection, ClientState
<1>q. QED BY <1>1, <1>3, <1>5 DEF ClientUp

LEMMA DownFacts ==
  ASSUME Types, Structure, NEW l \in Link, ClientDown(l)
  PROVE  /\ link[l].client \in Client /\ link[l].near \in {"up", "closing"}
         /\ \A k \in Link : SameButNear(link[k], link'[k]) /\ link'[k].near = IF k = l THEN "down" ELSE link[k].near
         /\ \A g \in Client : /\ SameButConnection(client[g], client'[g])
                              /\ client'[g].connection = IF g = link[l].client THEN None ELSE client[g].connection
         /\ \A k \in Link : toClient'[k] = IF k = l THEN Empty ELSE toClient[k]
         /\ UNCHANGED <<toServer, server>>
<1>1. link[l].client \in Client /\ link[l].near \in {"up", "closing"}
  BY DEF ClientDown, Structure, Stages
<1>2. link' = [link EXCEPT ![l].near = "down"] /\ link \in [Link -> LinkState]
  BY DEF ClientDown, Types, NetworkTypes
<1>3. \A k \in Link : SameButNear(link[k], link'[k]) /\ link'[k].near = IF k = l THEN "down" ELSE link[k].near
  BY <1>2 DEF LinkState, SameButNear
<1>4. client' = [client EXCEPT ![link[l].client].connection = None] /\ client \in [Client -> ClientState]
  BY DEF ClientDown, Types
<1>5. \A g \in Client : /\ SameButConnection(client[g], client'[g])
                        /\ client'[g].connection = IF g = link[l].client THEN None ELSE client[g].connection
  BY <1>1, <1>4 DEF SameButConnection, ClientState
<1>6. \A k \in Link : toClient'[k] = IF k = l THEN Empty ELSE toClient[k]
  BY DEF ClientDown, Types, NetworkTypes
<1>q. QED BY <1>1, <1>3, <1>5, <1>6 DEF ClientDown

\* The fields of an answered client object.
LEMMA AnsweredFields ==
  ASSUME NEW c \in ClientState, NEW answers \in Seq(Message), NEW b \in Seq(Byte)
  PROVE  LET r == [Resolved(c, answers) EXCEPT !.buffer = b]
         IN  /\ r.pc = c.pc /\ r.calls = c.calls /\ r.next = c.next /\ r.connection = c.connection
             /\ r.posted = c.posted /\ r.buffer = b
             /\ \/ r.answer = c.answer /\ r.pending = c.pending
                \/ \E k \in Hits(c, answers) : r.answer = answers[k] /\ r.pending = Unhit(c, answers)
<1>1. CASE Resolved(c, answers) = c
  BY <1>1 DEF ClientState
<1>2. ASSUME NEW k \in Hits(c, answers),
             Resolved(c, answers) = [c EXCEPT !.answer = answers[k], !.pending = Unhit(c, answers)]
      PROVE  LET r == [Resolved(c, answers) EXCEPT !.buffer = b]
             IN  /\ r.pc = c.pc /\ r.calls = c.calls /\ r.next = c.next /\ r.connection = c.connection
                 /\ r.posted = c.posted /\ r.buffer = b
                 /\ r.answer = answers[k] /\ r.pending = Unhit(c, answers)
  BY <1>2 DEF ClientState
<1>q. QED BY <1>1, <1>2, ResolvedFacts

AnswerPiece(l, n) == SubSeq(toClient[l], 1, n)
AnswerFed(l, n) == Feed(client[link[l].client].buffer, AnswerPiece(l, n))

LEMMA MessageFacts ==
  ASSUME Types, Structure, NEW l \in Link, NEW n \in Nat, ClientMessage(l, n)
  PROVE  LET f == link[l].client
             fed == AnswerFed(l, n)
         IN  /\ f \in Client /\ link[l].near \in {"up", "closing"} /\ client[f].pc # "leaving"
             /\ client[f] \in ClientState /\ client[f].buffer \in Seq(Byte)
             /\ toClient[l] \in Seq(Byte) /\ n \in 0 .. Len(toClient[l])
             /\ AnswerPiece(l, n) \in Seq(Byte)
             /\ fed.out \in Seq(Message) /\ fed.buffer \in Seq(Byte)
             /\ client' = [client EXCEPT ![f] = [Resolved(client[f], fed.out) EXCEPT !.buffer = fed.buffer]]
             /\ [Resolved(client[f], fed.out) EXCEPT !.buffer = fed.buffer] \in ClientState
             /\ toClient' = [toClient EXCEPT ![l] = After(toClient[l], n)]
             /\ UNCHANGED <<link, toServer, server>>
<1> DEFINE f == link[l].client
           fed == AnswerFed(l, n)
<1>1. f \in Client /\ link[l].near \in {"up", "closing"} /\ client[f].pc # "leaving"
  BY DEF ClientMessage, Structure, Stages
<1>2. client[f] \in ClientState /\ toClient[l] \in Seq(Byte)
  BY <1>1 DEF Types, NetworkTypes
<1>3. client[f].buffer \in Seq(Byte)
  BY <1>2 DEF ClientState
<1>4. n \in 0 .. Len(toClient[l])
  BY <1>2 DEF ClientMessage
<1>5. AnswerPiece(l, n) \in Seq(Byte)
  BY <1>2, <1>4, TakenFacts DEF AnswerPiece
<1>6. fed.out \in Seq(Message) /\ fed.buffer \in Seq(Byte)
  BY <1>3, <1>5, FeedTypes DEF AnswerFed
<1>7. client' = [client EXCEPT ![f] = [Resolved(client[f], fed.out) EXCEPT !.buffer = fed.buffer]]
  BY DEF ClientMessage, AnswerFed, AnswerPiece
<1>8. [Resolved(client[f], fed.out) EXCEPT !.buffer = fed.buffer] \in ClientState
  <2> HIDE DEF fed
  <2>q. QED BY <1>2, <1>6, ResolvedType
<1>9. toClient' = [toClient EXCEPT ![l] = After(toClient[l], n)] /\ UNCHANGED <<link, toServer, server>>
  BY DEF ClientMessage, After
<1> HIDE DEF fed, f
<1>10. /\ f \in Client /\ link[l].near \in {"up", "closing"} /\ client[f].pc # "leaving"
       /\ client[f] \in ClientState /\ client[f].buffer \in Seq(Byte)
       /\ toClient[l] \in Seq(Byte) /\ n \in 0 .. Len(toClient[l])
       /\ AnswerPiece(l, n) \in Seq(Byte)
       /\ fed.out \in Seq(Message) /\ fed.buffer \in Seq(Byte)
       /\ client' = [client EXCEPT ![f] = [Resolved(client[f], fed.out) EXCEPT !.buffer = fed.buffer]]
       /\ [Resolved(client[f], fed.out) EXCEPT !.buffer = fed.buffer] \in ClientState
       /\ toClient' = [toClient EXCEPT ![l] = After(toClient[l], n)]
       /\ UNCHANGED <<link, toServer, server>>
  BY <1>1, <1>2, <1>3, <1>4, <1>5, <1>6, <1>7, <1>8, <1>9, Zenon
<1>q. QED BY <1>10 DEF f, fed

LEMMA OpensFacts ==
  ASSUME Types, NEW f \in Client, NEW r \in ClientState, NEW host \in Instances \cup {None}, Opens(f, host, r)
  PROVE  /\ NewLink \in Link /\ link[NewLink].near = "no"
         /\ link'[NewLink].client = f /\ link'[NewLink].near = "opening" /\ link'[NewLink].far = "no"
         /\ link'[NewLink].address = None
         /\ \A l \in Link \ {NewLink} :
              /\ SameButNear(link[l], link'[l])
              /\ link[l].client # f => link'[l].near = link[l].near
              /\ link[l].client = f => link'[l].near =
                   CASE link[l].near = "up" -> "closing" [] link[l].near = "opening" -> "gone" [] OTHER -> link[l].near
         /\ \A g \in Client : client'[g] = IF g = f THEN r ELSE client[g]
         /\ UNCHANGED <<toServer, toClient, server>>
<1>1. Near({"no"}) # {} /\ link' = Opened(f, host) /\ UNCHANGED <<toServer, toClient, server>>
      /\ client' = [client EXCEPT ![f] = r] /\ client \in [Client -> ClientState]
  BY DEF Opens, Types
<1>2. /\ NewLink \in Link /\ link[NewLink].near = "no"
      /\ NewLinkState(f, host).client = f /\ NewLinkState(f, host).to = host
      /\ NewLinkState(f, host).near = "opening" /\ NewLinkState(f, host).far = "no"
      /\ NewLinkState(f, host).address = None
      /\ link' = [l \in Link |-> IF l = NewLink THEN NewLinkState(f, host) ELSE Abandoned(f, l)]
  BY <1>1, OpenedFacts
<1>3. link'[NewLink] = NewLinkState(f, host) /\ \A l \in Link \ {NewLink} : link'[l] = Abandoned(f, l)
  BY <1>2
<1>4. ASSUME NEW l \in Link \ {NewLink}
      PROVE  /\ SameButNear(link[l], link'[l])
             /\ link[l].client # f => link'[l].near = link[l].near
             /\ link[l].client = f => link'[l].near =
                  CASE link[l].near = "up" -> "closing" [] link[l].near = "opening" -> "gone" [] OTHER -> link[l].near
  BY <1>3, AbandonedType DEF SameButNear
<1>5. \A g \in Client : client'[g] = IF g = f THEN r ELSE client[g]
  BY <1>1
<1>q. QED BY <1>1, <1>2, <1>3, <1>4, <1>5

LEMMA LeavesFacts ==
  ASSUME Types, NEW f \in Client, NEW r \in ClientState, Leaves(f, r)
  PROVE  /\ \A l \in Link :
              /\ SameButNear(link[l], link'[l])
              /\ link[l].client # f => link'[l].near = link[l].near
              /\ link[l].client = f => link'[l].near =
                   CASE link[l].near = "up" -> "closing" [] link[l].near = "opening" -> "gone" [] OTHER -> link[l].near
         /\ \A g \in Client : client'[g] = IF g = f THEN r ELSE client[g]
         /\ UNCHANGED <<toServer, toClient, server>>
<1>1. link' = [l \in Link |-> Abandoned(f, l)] /\ UNCHANGED <<toServer, toClient, server>>
      /\ client' = [client EXCEPT ![f] = r] /\ client \in [Client -> ClientState]
  BY DEF Leaves, Types
<1>2. ASSUME NEW l \in Link
      PROVE  /\ SameButNear(link[l], link'[l])
             /\ link[l].client # f => link'[l].near = link[l].near
             /\ link[l].client = f => link'[l].near =
                  CASE link[l].near = "up" -> "closing" [] link[l].near = "opening" -> "gone" [] OTHER -> link[l].near
  <2>1. link'[l] = Abandoned(f, l)
    BY <1>1
  <2>q. QED BY <2>1, AbandonedType DEF SameButNear
<1>3. \A g \in Client : client'[g] = IF g = f THEN r ELSE client[g]
  BY <1>1
<1>q. QED BY <1>1, <1>2, <1>3

LEMMA AcceptsFacts ==
  ASSUME Types, NEW l \in Link, NEW a \in Address, Accepts(l, a)
  PROVE  /\ link[l].near \in {"up", "closing", "down"} /\ link[l].far = "no"
         /\ \A k \in Link : /\ link'[k].client = link[k].client /\ link'[k].near = link[k].near
                            /\ link'[k].far = IF k = l THEN "up" ELSE link[k].far
                            /\ link'[k].address = IF k = l THEN a ELSE link[k].address
         /\ \A k \in Link : link[k].far = "up" => link[k].address # a
         /\ \A b \in Address : decoder'[b] = decoder[b] \/ (b = a /\ decoder'[b] = Empty)
         /\ (decoder'[a] \in {None, Empty} /\ stale' = stale) \/ (stale' = stale \cup {l} /\ decoder' = decoder)
         /\ UNCHANGED <<toServer, toClient, client, job, done, received, submitted>>
<1>1. link' = [link EXCEPT ![l] = [link[l] EXCEPT !.far = "up", !.address = a]] /\ link \in [Link -> LinkState]
  BY DEF Accepts, Types, NetworkTypes
<1>2. \A k \in Link : /\ link'[k].client = link[k].client /\ link'[k].near = link[k].near
                      /\ link'[k].far = IF k = l THEN "up" ELSE link[k].far
                      /\ link'[k].address = IF k = l THEN a ELSE link[k].address
  BY <1>1 DEF LinkState
<1>3. \A k \in Link : link[k].far = "up" => link[k].address # a
  <2>1. a \notin Allocated
    BY DEF Accepts, FreeAddress
  <2>q. QED BY <2>1 DEF Allocated, Far
<1>4. decoder \in [Address -> Seq(Byte) \cup {None}]
  BY DEF Types, ServerTypes
<1>5. \A b \in Address : decoder'[b] = decoder[b] \/ (b = a /\ decoder'[b] = Empty)
  BY <1>4 DEF Accepts
<1>6. (decoder'[a] \in {None, Empty} /\ stale' = stale) \/ (stale' = stale \cup {l} /\ decoder' = decoder)
  BY <1>4 DEF Accepts
<1>7. /\ link[l].near \in {"up", "closing", "down"} /\ link[l].far = "no"
      /\ UNCHANGED <<toServer, toClient, client, job, done, received, submitted>>
  BY DEF Accepts
<1>q. QED BY <1>2, <1>3, <1>5, <1>6, <1>7

LEMMA CutFacts ==
  ASSUME Types, NEW D \in SUBSET Link, Cut(D)
  PROVE  /\ \A l \in D : link[l].near \notin {"no", "opening", "gone"}
         /\ \A k \in Link : /\ link'[k].client = link[k].client /\ link'[k].near = link[k].near
                            /\ link'[k].far = IF k \in D THEN "down" ELSE link[k].far
                            /\ link'[k].address = link[k].address
         /\ \A k \in Link : toServer'[k] = IF k \in D THEN Empty ELSE toServer[k]
         /\ \A a \in Address :
              \/ decoder'[a] = decoder[a]
              \/ decoder'[a] = None /\ \E l \in D : link[l].address = a /\ link[l].far # "down"
         /\ job' \in SUBSET job
         /\ UNCHANGED <<toClient, client, done, received, submitted, stale>>
<1>1. /\ link' = [l \in Link |-> IF l \in D THEN [link[l] EXCEPT !.far = "down"] ELSE link[l]]
      /\ link \in [Link -> LinkState]
  BY DEF Cut, Types, NetworkTypes
<1>2. \A k \in Link : /\ link'[k].client = link[k].client /\ link'[k].near = link[k].near
                      /\ link'[k].far = IF k \in D THEN "down" ELSE link[k].far
                      /\ link'[k].address = link[k].address
  BY <1>1 DEF LinkState
<1>q. QED BY <1>2 DEF Cut

-----------------------------------------------------------------------------
(***************************************************************************)
(* Connections.                                                            *)
(***************************************************************************)
LEMMA UpStructure == ASSUME Types, Structure, NEW l \in Link, ClientUp(l) PROVE Structure'
<1>1. /\ link[l].client \in Client /\ link[l].near = "opening"
      /\ \A k \in Link : SameButNear(link[k], link'[k]) /\ link'[k].near = IF k = l THEN "up" ELSE link[k].near
      /\ \A g \in Client : /\ SameButConnection(client[g], client'[g])
                           /\ client'[g].connection = IF g = link[l].client THEN l ELSE client[g].connection
      /\ UNCHANGED <<toServer, toClient, server>>
  BY UpFacts
<1>2. Stages'
  BY <1>1 DEF Structure, Stages, SameButNear, server
<1>3. OwnAddress'
  BY <1>1 DEF Structure, OwnAddress, SameButNear
<1>4. OwnConnection'
  <2>1. ASSUME NEW g \in Client, client'[g].connection # None
        PROVE  link'[client'[g].connection].near = "up" /\ link'[client'[g].connection].client = g
    <3>1. CASE g = link[l].client
      BY <1>1, <3>1 DEF SameButNear
    <3>2. CASE g # link[l].client
      <4>1. client'[g].connection = client[g].connection
        BY <1>1, <3>2
      <4>2. client[g].connection \in Link
        BY <2>1, <4>1 DEF Types, ClientState
      <4>3. link[client[g].connection].near = "up" /\ link[client[g].connection].client = g
        BY <2>1, <4>1 DEF Structure, OwnConnection
      <4>q. QED BY <1>1, <4>1, <4>2, <4>3 DEF SameButNear
    <3>q. QED BY <3>1, <3>2
  <2>q. QED BY <2>1 DEF OwnConnection
<1>q. QED BY <1>2, <1>3, <1>4 DEF Structure

LEMMA DownStructure == ASSUME Types, Structure, NEW l \in Link, ClientDown(l) PROVE Structure'
<1>1. /\ link[l].client \in Client /\ link[l].near \in {"up", "closing"}
      /\ \A k \in Link : SameButNear(link[k], link'[k]) /\ link'[k].near = IF k = l THEN "down" ELSE link[k].near
      /\ \A g \in Client : /\ SameButConnection(client[g], client'[g])
                           /\ client'[g].connection = IF g = link[l].client THEN None ELSE client[g].connection
      /\ \A k \in Link : toClient'[k] = IF k = l THEN Empty ELSE toClient[k]
      /\ UNCHANGED <<toServer, server>>
  BY DownFacts
<1>2. Stages'
  BY <1>1 DEF Structure, Stages, SameButNear, server
<1>3. OwnAddress'
  BY <1>1 DEF Structure, OwnAddress, SameButNear
<1>4. OwnConnection'
  <2>1. ASSUME NEW g \in Client, client'[g].connection # None
        PROVE  link'[client'[g].connection].near = "up" /\ link'[client'[g].connection].client = g
    <3>1. g # link[l].client /\ client'[g].connection = client[g].connection
      BY <1>1, <2>1
    <3>2. client[g].connection \in Link
      BY <2>1, <3>1 DEF Types, ClientState
    <3>3. link[client[g].connection].near = "up" /\ link[client[g].connection].client = g
      BY <2>1, <3>1 DEF Structure, OwnConnection
    <3>q. QED BY <1>1, <3>1, <3>2, <3>3 DEF SameButNear
  <2>q. QED BY <2>1 DEF OwnConnection
<1>q. QED BY <1>2, <1>3, <1>4 DEF Structure

\* Clients that keep their connections, and connections that keep their clients.
LEMMA ConnectionsKept ==
  ASSUME Types, Structure,
         \A g \in Client : client'[g].connection \in {None, client[g].connection},
         \A g \in Client : client'[g].connection # None => link'[client'[g].connection] = link[client'[g].connection]
  PROVE  OwnConnection'
BY DEF Structure, OwnConnection

LEMMA MessageStructure == ASSUME Types, Structure, NEW l \in Link, NEW n \in Nat, ClientMessage(l, n) PROVE Structure'
<1> DEFINE f == link[l].client
           fed == AnswerFed(l, n)
           r == [Resolved(client[f], fed.out) EXCEPT !.buffer = fed.buffer]
<1>1. /\ f \in Client /\ link[l].near \in {"up", "closing"} /\ client[f] \in ClientState
      /\ fed.out \in Seq(Message) /\ fed.buffer \in Seq(Byte)
      /\ client' = [client EXCEPT ![f] = r]
      /\ toClient' = [toClient EXCEPT ![l] = After(toClient[l], n)]
      /\ toClient[l] \in Seq(Byte) /\ n \in 0 .. Len(toClient[l])
      /\ UNCHANGED <<link, toServer, server>>
  BY MessageFacts
<1>2. r.connection = client[f].connection
  <2> HIDE DEF fed
  <2>q. QED BY <1>1, AnsweredFields
<1> HIDE DEF r
<1>3. \A g \in Client : client'[g].connection = client[g].connection
  BY <1>1, <1>2 DEF Types
<1>4. OwnConnection'
  BY <1>1, <1>3, ConnectionsKept
<1>5. link[l].far = "no" => FALSE
  <2>1. ASSUME link[l].far = "no" PROVE Len(toClient[l]) = 0
    BY <2>1, EmptyTypes DEF Structure, Stages
  <2>2. n \in 1 .. Len(toClient[l])
    BY DEF ClientMessage
  <2>q. QED BY <2>1, <2>2
<1>6. \A k \in Link : k # l => toClient'[k] = toClient[k]
  BY <1>1 DEF Types, NetworkTypes
<1>7. Stages'
  BY <1>1, <1>5, <1>6 DEF Structure, Stages, server
<1>8. OwnAddress'
  BY <1>1 DEF Structure, OwnAddress
<1>q. QED BY <1>4, <1>7, <1>8 DEF Structure

\* What a function that Call has posted does.
LEMMA PostedFacts ==
  ASSUME Types, Structure, NEW f \in Client, Post(f)
  PROVE  LET l == client[f].connection
             m == Head(client[f].posted)
         IN  /\ client[f].posted \in Seq(Message) /\ client[f].posted # <<>> /\ m \in Message
             /\ \A g \in Client : client'[g] = IF g = f THEN [client[f] EXCEPT !.posted = Tail(client[f].posted)] ELSE client[g]
             /\ UNCHANGED <<link, toClient, server>>
             /\ \/ toServer' = toServer
                \/ /\ l \in Link /\ link[l].near = "up" /\ link[l].client = f /\ link[l].far # "down"
                   /\ toServer' = [toServer EXCEPT ![l] = toServer[l] \o Encode(m)]
<1> DEFINE l == client[f].connection
           m == Head(client[f].posted)
<1>1. /\ client[f].posted \in Seq(Message) /\ client[f].posted # <<>> /\ m \in Message
      /\ [client[f] EXCEPT !.posted = Tail(client[f].posted)] \in ClientState
      /\ client' = [client EXCEPT ![f] = [client[f] EXCEPT !.posted = Tail(client[f].posted)]]
      /\ l # None => l \in Link
  BY PostFacts, Zenon
<1>2. \A g \in Client : client'[g] = IF g = f THEN [client[f] EXCEPT !.posted = Tail(client[f].posted)] ELSE client[g]
  <2>1. client \in [Client -> ClientState]
    BY DEF Types
  <2>q. QED BY <1>1, <2>1, RowType
<1>3. UNCHANGED <<link, toClient, server>>
  BY DEF Post
<1>4. CASE l = None
  <2>1. toServer' = toServer
    BY <1>4 DEF Post
  <2>q. QED BY <1>1, <1>2, <1>3, <2>1, Zenon
<1>5. CASE l # None
  <2>1. l \in Link /\ link[l].near = "up" /\ link[l].client = f
    BY <1>1, <1>5 DEF Structure, OwnConnection
  <2>2. toServer' = [toServer EXCEPT ![l] = IF link[l].far = "down" THEN toServer[l] ELSE toServer[l] \o Encode(m)]
    BY <1>5 DEF Post, SentToServer
  <2>3. CASE link[l].far = "down"
    <3>1. toServer' = toServer
      BY <2>2, <2>3 DEF Types, NetworkTypes
    <3>q. QED BY <1>1, <1>2, <1>3, <3>1, Zenon
  <2>4. CASE link[l].far # "down"
    <3>1. toServer' = [toServer EXCEPT ![l] = toServer[l] \o Encode(m)]
      BY <2>2, <2>4
    <3>q. QED BY <1>1, <1>2, <1>3, <2>1, <2>4, <3>1, Zenon
  <2>q. QED BY <2>3, <2>4
<1>q. QED BY <1>4, <1>5

LEMMA PostStructure == ASSUME Types, Structure, NEW f \in Client, Post(f) PROVE Structure'
<1> DEFINE l == client[f].connection
           m == Head(client[f].posted)
<1>1. /\ \A g \in Client : client'[g] = IF g = f THEN [client[f] EXCEPT !.posted = Tail(client[f].posted)] ELSE client[g]
      /\ UNCHANGED <<link, toClient, server>>
      /\ \/ toServer' = toServer
         \/ /\ l \in Link /\ link[l].near = "up" /\ link[l].client = f /\ link[l].far # "down"
            /\ toServer' = [toServer EXCEPT ![l] = toServer[l] \o Encode(m)]
  BY PostedFacts, Zenon
<1>2. \A g \in Client : client'[g].connection = client[g].connection
  <2>1. client[f] \in ClientState
    BY DEF Types
  <2>q. QED BY <1>1, <2>1 DEF ClientState
<1>3. OwnConnection'
  BY <1>1, <1>2, ConnectionsKept
<1>4. \A k \in Link : toServer'[k] = toServer[k] \/ (link[k].near = "up" /\ link[k].far # "down")
  BY <1>1 DEF Types, NetworkTypes
<1>5. Stages'
  BY <1>1, <1>4 DEF Structure, Stages, server
<1>6. OwnAddress'
  BY <1>1 DEF Structure, OwnAddress
<1>q. QED BY <1>3, <1>5, <1>6 DEF Structure

\* Steps that leave the network and the server alone.
LEMMA SameStructure ==
  ASSUME Types, Structure, UNCHANGED <<network, server>>,
         \A g \in Client : client'[g].connection = client[g].connection
  PROVE  Structure'
<1>1. OwnConnection'
  BY ConnectionsKept DEF network
<1>2. Stages' /\ OwnAddress'
  BY DEF Structure, Stages, OwnAddress, network, server
<1>q. QED BY <1>1, <1>2 DEF Structure

LEMMA CallStructure == ASSUME Types, Structure, NEW f \in Client, StartCall(f) PROVE Structure'
<1>1. client' = [client EXCEPT ![f] = Calling(f)] /\ Calling(f) \in ClientState
  BY CallFacts
<1>2. Calling(f).connection = client[f].connection
  <2>1. client[f] \in ClientState
    BY DEF Types
  <2>q. QED BY <2>1 DEF Calling, ClientState
<1>3. \A g \in Client : client'[g].connection = client[g].connection
  BY <1>1, <1>2 DEF Types
<1>4. UNCHANGED <<network, server>>
  BY DEF StartCall
<1>q. QED BY <1>3, <1>4, SameStructure

LEMMA LocalStructure == ASSUME Types, Structure, NEW f \in Client, NEW r \in ClientState, Local(f, r) PROVE Structure'
<1>1. \A g \in Client : client'[g].connection = client[g].connection
  BY DEF Types, Local
<1>q. QED BY <1>1, SameStructure DEF Local

LEMMA OpensStructure ==
  ASSUME Types, Structure, NEW f \in Client, NEW r \in ClientState, NEW host \in Instances \cup {None}, Opens(f, host, r)
  PROVE  Structure'
<1>1. /\ NewLink \in Link /\ link[NewLink].near = "no"
      /\ link'[NewLink].client = f /\ link'[NewLink].near = "opening" /\ link'[NewLink].far = "no"
      /\ link'[NewLink].address = None
      /\ \A l \in Link \ {NewLink} :
           /\ SameButNear(link[l], link'[l])
           /\ link[l].client # f => link'[l].near = link[l].near
           /\ link[l].client = f => link'[l].near =
                CASE link[l].near = "up" -> "closing" [] link[l].near = "opening" -> "gone" [] OTHER -> link[l].near
      /\ \A g \in Client : client'[g] = IF g = f THEN r ELSE client[g]
      /\ UNCHANGED <<toServer, toClient, server>>
  BY OpensFacts
<1>2. link[NewLink].far = "no" /\ toServer[NewLink] = Empty
  BY <1>1 DEF Structure, Stages
<1>3. Stages'
  <2>1. ASSUME NEW l \in Link \ {NewLink}
        PROVE  /\ link'[l].near # "no" => link[l].near # "no"
               /\ link'[l].near \in {"no", "opening", "gone"} => link[l].near \in {"no", "opening", "gone"}
    BY <1>1
  <2>2. ASSUME NEW l \in Link
        PROVE  /\ link'[l].near # "no" => link'[l].client \in Client
               /\ link'[l].near \in {"no", "opening", "gone"} => link'[l].far = "no" /\ toServer'[l] = Empty
               /\ link'[l].far = "no" =>
                    /\ link'[l].address = None /\ toClient'[l] = Empty
                    /\ received'[l] = Empty /\ submitted'[l] = <<>> /\ \A j \in job' : j.link # l
               /\ link'[l].far = "up" => link'[l].address \in Address
               /\ link'[l].far = "down" => toServer'[l] = Empty
    <3>1. CASE l = NewLink
      BY <1>1, <1>2, <3>1 DEF Structure, Stages, server
    <3>2. CASE l # NewLink
      <4>1. SameButNear(link[l], link'[l])
        BY <1>1, <3>2
      <4>2. link'[l].near # "no" => link'[l].client \in Client
        BY <2>1, <3>2, <4>1 DEF Structure, Stages, SameButNear
      <4>3. link'[l].near \in {"no", "opening", "gone"} => link'[l].far = "no" /\ toServer'[l] = Empty
        BY <1>1, <2>1, <3>2, <4>1 DEF Structure, Stages, SameButNear
      <4>4. link'[l].far = "no" =>
              /\ link'[l].address = None /\ toClient'[l] = Empty
              /\ received'[l] = Empty /\ submitted'[l] = <<>> /\ \A j \in job' : j.link # l
        BY <1>1, <4>1 DEF Structure, Stages, SameButNear, server
      <4>5. link'[l].far = "up" => link'[l].address \in Address
        BY <4>1 DEF Structure, Stages, SameButNear
      <4>6. link'[l].far = "down" => toServer'[l] = Empty
        BY <1>1, <4>1 DEF Structure, Stages, SameButNear
      <4>q. QED BY <4>2, <4>3, <4>4, <4>5, <4>6
    <3>q. QED BY <3>1, <3>2
  <2>q. QED BY <2>2 DEF Stages
<1>4. OwnAddress'
  <2>1. ASSUME NEW k \in Link, link'[k].far = "up"
        PROVE  k # NewLink /\ link[k].far = "up" /\ link'[k].address = link[k].address
    BY <1>1, <2>1 DEF SameButNear
  <2>q. QED BY <2>1 DEF Structure, OwnAddress
<1>5. OwnConnection'
  <2>1. ASSUME NEW g \in Client, client'[g].connection # None
        PROVE  link'[client'[g].connection].near = "up" /\ link'[client'[g].connection].client = g
    <3>1. g # f /\ client'[g] = client[g]
      BY <1>1, <2>1 DEF Opens
    <3>2. client[g].connection \in Link
      BY <2>1, <3>1 DEF Types, ClientState
    <3>3. link[client[g].connection].near = "up" /\ link[client[g].connection].client = g
      BY <2>1, <3>1 DEF Structure, OwnConnection
    <3>4. client[g].connection # NewLink
      BY <1>1, <3>3
    <3>q. QED BY <1>1, <3>1, <3>2, <3>3, <3>4 DEF SameButNear
  <2>q. QED BY <2>1 DEF OwnConnection
<1>q. QED BY <1>3, <1>4, <1>5 DEF Structure

LEMMA LeavesStructure ==
  ASSUME Types, Structure, NEW f \in Client, NEW r \in ClientState, Leaves(f, r)
  PROVE  Structure'
<1>1. /\ \A l \in Link :
           /\ SameButNear(link[l], link'[l])
           /\ link[l].client # f => link'[l].near = link[l].near
           /\ link[l].client = f => link'[l].near =
                CASE link[l].near = "up" -> "closing" [] link[l].near = "opening" -> "gone" [] OTHER -> link[l].near
      /\ \A g \in Client : client'[g] = IF g = f THEN r ELSE client[g]
      /\ UNCHANGED <<toServer, toClient, server>>
  BY LeavesFacts
<1>2. Stages'
  <2>1. \A l \in Link :
          /\ link'[l].near # "no" => link[l].near # "no"
          /\ link'[l].near \in {"no", "opening", "gone"} => link[l].near \in {"no", "opening", "gone"}
    BY <1>1
  <2>2. \A l \in Link : SameButNear(link[l], link'[l])
    BY <1>1
  <2>q. QED BY <1>1, <2>1, <2>2 DEF Structure, Stages, SameButNear, server
<1>3. OwnAddress'
  BY <1>1 DEF Structure, OwnAddress, SameButNear
<1>4. OwnConnection'
  <2>1. ASSUME NEW g \in Client, client'[g].connection # None
        PROVE  link'[client'[g].connection].near = "up" /\ link'[client'[g].connection].client = g
    <3>1. g # f /\ client'[g] = client[g]
      BY <1>1, <2>1 DEF Leaves
    <3>2. client[g].connection \in Link
      BY <2>1, <3>1 DEF Types, ClientState
    <3>3. link[client[g].connection].near = "up" /\ link[client[g].connection].client = g
      BY <2>1, <3>1 DEF Structure, OwnConnection
    <3>q. QED BY <1>1, <3>1, <3>2, <3>3 DEF SameButNear
  <2>q. QED BY <2>1 DEF OwnConnection
<1>q. QED BY <1>2, <1>3, <1>4 DEF Structure

LEMMA ReadStructure ==
  ASSUME Types, Structure, NEW l \in Link, NEW n \in Nat, ServerMessage(l, n, Rest(l))
  PROVE  Structure'
<1>1. /\ link[l].far = "up"
      /\ job' = job \cup {[link |-> l, request |-> Fed(l, n).out[k]] : k \in 1 .. Len(Fed(l, n).out)}
      /\ received' = [received EXCEPT ![l] = received[l] \o Piece(l, n)]
      /\ submitted' = [submitted EXCEPT ![l] = submitted[l] \o Fed(l, n).out]
      /\ toServer' = [toServer EXCEPT ![l] = After(toServer[l], n)]
  BY FedFacts, Zenon
<1>2. UNCHANGED <<link, toClient, client>>
  BY DEF ServerMessage
<1>3. \A k \in Link : k # l => toServer'[k] = toServer[k] /\ received'[k] = received[k] /\ submitted'[k] = submitted[k]
  BY <1>1 DEF Types, NetworkTypes, ServerTypes
<1>4. \A j \in job' : j \in job \/ j.link = l
  BY <1>1
<1>5. link[l].near \notin {"no", "opening", "gone"}
  BY <1>1 DEF Structure, Stages
<1>6. Stages'
  <2>1. ASSUME NEW k \in Link, k # l
        PROVE  /\ link'[k].near # "no" => link'[k].client \in Client
               /\ link'[k].near \in {"no", "opening", "gone"} => link'[k].far = "no" /\ toServer'[k] = Empty
               /\ link'[k].far = "no" =>
                    /\ link'[k].address = None /\ toClient'[k] = Empty
                    /\ received'[k] = Empty /\ submitted'[k] = <<>> /\ \A j \in job' : j.link # k
               /\ link'[k].far = "up" => link'[k].address \in Address
               /\ link'[k].far = "down" => toServer'[k] = Empty
    BY <1>2, <1>3, <1>4, <2>1 DEF Structure, Stages
  <2>2. /\ link'[l].near # "no" => link'[l].client \in Client
        /\ link'[l].far = "up" => link'[l].address \in Address
    BY <1>2 DEF Structure, Stages
  <2>q. QED BY <1>1, <1>2, <1>5, <2>1, <2>2 DEF Stages
<1>7. OwnAddress' /\ OwnConnection'
  BY <1>2 DEF Structure, OwnAddress, OwnConnection
<1>q. QED BY <1>6, <1>7 DEF Structure

\* What a worker does.
LEMMA WorkFacts ==
  ASSUME Types, Structure, NEW j \in job, Work(j)
  PROVE  LET l == j.link
             m == j.request
         IN  /\ l \in Link /\ m \in Message /\ Response(m) \in Message
             /\ Response(m).client = m.client /\ Response(m).call = m.call /\ Response(m).id = m.id
             /\ job' = job \ {j} /\ done' = [done EXCEPT ![Of(m)] = done[Of(m)] + 1]
             /\ link[l].far # "no"
             /\ \A k \in Link : toClient'[k] = toClient[k] \/ (k = l /\ toClient'[l] = toClient[l] \o Encode(Response(m)))
             /\ UNCHANGED <<link, toServer, client, decoder, received, submitted, stale>>
<1> DEFINE l == j.link
           m == j.request
<1>1. j \in [link : Link, request : Message]
  BY DEF Types, ServerTypes
<1>2. l \in Link /\ m \in Message
  BY <1>1
<1>3. Response(m) \in Message /\ Response(m).client = m.client /\ Response(m).call = m.call /\ Response(m).id = m.id
  <2> HIDE DEF m
  <2>q. QED BY <1>2 DEF Response, Message
<1>4. link[l].far # "no"
  BY <1>2 DEF Structure, Stages
<1>5. \A k \in Link : toClient'[k] = toClient[k] \/ (k = l /\ toClient'[l] = toClient[l] \o Encode(Response(m)))
  <2>1. toClient \in [Link -> Seq(Byte)]
    BY DEF Types, NetworkTypes
  <2>2. CASE link[l].far = "up"
    <3>1. toClient' = [toClient EXCEPT ![l] = IF l \in Near({"down"}) THEN toClient[l] ELSE toClient[l] \o Encode(Response(m))]
      BY <2>2 DEF Work, SentToClient
    <3> HIDE DEF l, m
    <3>q. QED BY <2>1, <3>1
  <2>3. CASE link[l].far # "up"
    BY <2>3 DEF Work
  <2>q. QED BY <2>2, <2>3
<1>6. /\ job' = job \ {j} /\ done' = [done EXCEPT ![Of(m)] = done[Of(m)] + 1]
      /\ UNCHANGED <<link, toServer, client, decoder, received, submitted, stale>>
  BY DEF Work, Of
<1>q. QED BY <1>2, <1>3, <1>4, <1>5, <1>6, Zenon

LEMMA WorkStructure == ASSUME Types, Structure, NEW j \in job, Work(j) PROVE Structure'
<1>1. /\ j.link \in Link /\ link[j.link].far # "no" /\ job' = job \ {j}
      /\ \A k \in Link : toClient'[k] = toClient[k] \/ (k = j.link /\ toClient'[j.link] = toClient[j.link] \o Encode(Response(j.request)))
      /\ UNCHANGED <<link, toServer, client, decoder, received, submitted, stale>>
  BY WorkFacts, Zenon
<1>2. \A k \in Link : link[k].far = "no" => toClient'[k] = toClient[k]
  BY <1>1
<1>3. Stages'
  BY <1>1, <1>2 DEF Structure, Stages
<1>4. OwnAddress' /\ OwnConnection'
  BY <1>1 DEF Structure, OwnAddress, OwnConnection
<1>q. QED BY <1>3, <1>4 DEF Structure

LEMMA AcceptsStructure == ASSUME Types, Structure, NEW l \in Link, NEW a \in Address, Accepts(l, a) PROVE Structure'
<1>1. /\ link[l].near \in {"up", "closing", "down"} /\ link[l].far = "no"
      /\ \A k \in Link : /\ link'[k].client = link[k].client /\ link'[k].near = link[k].near
                         /\ link'[k].far = IF k = l THEN "up" ELSE link[k].far
                         /\ link'[k].address = IF k = l THEN a ELSE link[k].address
      /\ \A k \in Link : link[k].far = "up" => link[k].address # a
      /\ UNCHANGED <<toServer, toClient, client, job, done, received, submitted>>
  BY AcceptsFacts
<1>2. Stages'
  <2>1. ASSUME NEW k \in Link
        PROVE  /\ link'[k].near # "no" => link'[k].client \in Client
               /\ link'[k].near \in {"no", "opening", "gone"} => link'[k].far = "no" /\ toServer'[k] = Empty
               /\ link'[k].far = "no" =>
                    /\ link'[k].address = None /\ toClient'[k] = Empty
                    /\ received'[k] = Empty /\ submitted'[k] = <<>> /\ \A j \in job' : j.link # k
               /\ link'[k].far = "up" => link'[k].address \in Address
               /\ link'[k].far = "down" => toServer'[k] = Empty
    BY <1>1 DEF Structure, Stages
  <2>q. QED BY <2>1 DEF Stages
<1>3. OwnAddress'
  <2>1. ASSUME NEW j \in Link, NEW k \in Link, link'[j].far = "up", link'[k].far = "up", link'[j].address = link'[k].address
        PROVE  j = k
    <3>1. CASE j = l /\ k # l
      BY <1>1, <2>1, <3>1
    <3>2. CASE j # l /\ k = l
      BY <1>1, <2>1, <3>2
    <3>3. CASE j # l /\ k # l
      BY <1>1, <2>1, <3>3 DEF Structure, OwnAddress
    <3>q. QED BY <3>1, <3>2, <3>3
  <2>q. QED BY <2>1 DEF OwnAddress
<1>4. OwnConnection'
  <2>1. ASSUME NEW g \in Client, client[g].connection # None PROVE client[g].connection \in Link
    BY <2>1 DEF Types, ClientState
  <2>q. QED BY <1>1, <2>1 DEF Structure, OwnConnection
<1>q. QED BY <1>2, <1>3, <1>4 DEF Structure

LEMMA CutStructure == ASSUME Types, Structure, NEW D \in SUBSET Link, Cut(D) PROVE Structure'
<1>1. /\ \A l \in D : link[l].near \notin {"no", "opening", "gone"}
      /\ \A k \in Link : /\ link'[k].client = link[k].client /\ link'[k].near = link[k].near
                         /\ link'[k].far = IF k \in D THEN "down" ELSE link[k].far
                         /\ link'[k].address = link[k].address
      /\ \A k \in Link : toServer'[k] = IF k \in D THEN Empty ELSE toServer[k]
      /\ job' \in SUBSET job
      /\ UNCHANGED <<toClient, client, done, received, submitted, stale>>
  BY CutFacts, Zenon
<1>2. Stages'
  <2>1. ASSUME NEW k \in Link
        PROVE  /\ link'[k].near # "no" => link'[k].client \in Client
               /\ link'[k].near \in {"no", "opening", "gone"} => link'[k].far = "no" /\ toServer'[k] = Empty
               /\ link'[k].far = "no" =>
                    /\ link'[k].address = None /\ toClient'[k] = Empty
                    /\ received'[k] = Empty /\ submitted'[k] = <<>> /\ \A j \in job' : j.link # k
               /\ link'[k].far = "up" => link'[k].address \in Address
               /\ link'[k].far = "down" => toServer'[k] = Empty
    BY <1>1 DEF Structure, Stages
  <2>q. QED BY <2>1 DEF Stages
<1>3. OwnAddress'
  BY <1>1 DEF Structure, OwnAddress
<1>4. OwnConnection'
  <2>1. ASSUME NEW g \in Client, client[g].connection # None PROVE client[g].connection \in Link
    BY <2>1 DEF Types, ClientState
  <2>q. QED BY <1>1, <2>1 DEF Structure, OwnConnection
<1>q. QED BY <1>2, <1>3, <1>4 DEF Structure

LEMMA EffectStructure == ASSUME Types, Structure, Effect PROVE Structure'
<1>1. CASE UNCHANGED <<network, client, server>>
  BY <1>1, SameStructure
<1>q. QED BY <1>1, UpStructure, DownStructure, MessageStructure, PostStructure, CallStructure, LocalStructure, OpensStructure,
            LeavesStructure, ReadStructure, WorkStructure, AcceptsStructure, CutStructure DEF Effect

-----------------------------------------------------------------------------
(***************************************************************************)
(* Promises.                                                               *)
(***************************************************************************)
LEMMA HitFacts ==
  ASSUME NEW c \in ClientState, NEW answers \in Seq(Message), Promise(c), NEW k \in Hits(c, answers)
  PROVE  /\ k \in 1 .. Len(answers) /\ answers[k] \in Message /\ answers[k].id = c.next - 1
         /\ c.pc \in {"waiting", "expired"} /\ Unhit(c, answers) = {}
<1>1. k \in 1 .. Len(answers) /\ answers[k] \in Message
  BY DEF Hits
<1>2. PICK p \in c.pending : p[1] = answers[k].id
  BY DEF Hits
<1>3. p = <<c.next - 1, c.calls>> /\ c.pc \in {"waiting", "expired"}
  BY DEF Promise
<1>4. answers[k].id = c.next - 1
  BY <1>2, <1>3
<1>5. \A q \in c.pending : q[1] = answers[k].id
  BY <1>4 DEF Promise
<1>6. Unhit(c, answers) = {}
  BY <1>5 DEF Unhit
<1>q. QED BY <1>1, <1>3, <1>4, <1>6

LEMMA MessagePromises ==
  ASSUME Types, Structure, Promises, NEW l \in Link, NEW n \in Nat, ClientMessage(l, n)
  PROVE  Promises'
<1> DEFINE f == link[l].client
           out == AnswerFed(l, n).out
           buffer == AnswerFed(l, n).buffer
           r == [Resolved(client[f], out) EXCEPT !.buffer = buffer]
<1>1. /\ f \in Client /\ client[f] \in ClientState
      /\ out \in Seq(Message) /\ buffer \in Seq(Byte)
      /\ client' = [client EXCEPT ![f] = r]
  BY MessageFacts
<1>2. Promise(client[f])
  BY <1>1 DEF Promises
<1> HIDE DEF out, buffer
<1>3. /\ r.pc = client[f].pc /\ r.calls = client[f].calls /\ r.next = client[f].next
      /\ \/ r.answer = client[f].answer /\ r.pending = client[f].pending
         \/ \E k \in Hits(client[f], out) : r.answer = out[k] /\ r.pending = Unhit(client[f], out)
  BY <1>1, AnsweredFields
<1> HIDE DEF r
<1>4. Promise(r)
  <2>1. CASE r.answer = client[f].answer /\ r.pending = client[f].pending
    BY <1>2, <1>3, <2>1 DEF Promise
  <2>2. ASSUME NEW k \in Hits(client[f], out), r.answer = out[k], r.pending = Unhit(client[f], out)
        PROVE  Promise(r)
    <3>1. out[k] \in Message /\ Unhit(client[f], out) = {}
      BY <1>1, <1>2, HitFacts
    <3>q. QED BY <2>2, <3>1, NoneIsNone DEF Promise
  <2>q. QED BY <1>3, <2>1, <2>2
<1>q. QED BY <1>1, <1>4 DEF Promises, Types

LEMMA CallPromises ==
  ASSUME Types, Promises, NEW f \in Client, client[f].pc \in {"idle", "connecting"}, StartCall(f)
  PROVE  Promises'
<1>1. client' = [client EXCEPT ![f] = Calling(f)] /\ Calling(f) \in ClientState
  BY CallFacts
<1>2. client[f] \in ClientState /\ client[f].pending = {}
  BY DEF Types, Promises, Promise
<1>3. /\ Calling(f).pc = "waiting" /\ Calling(f).calls = client[f].calls + 1 /\ Calling(f).next = client[f].next + 1
      /\ Calling(f).pending = {<<client[f].next, client[f].calls + 1>>} /\ Calling(f).answer = None
  BY <1>2 DEF Calling, ClientState
<1>4. client[f].next \in Nat
  BY <1>2 DEF ClientState
<1>5. Promise(Calling(f))
  <2>1. ASSUME NEW r, NEW n \in Nat, NEW k, r.pc = "waiting", r.calls = k, r.next = n + 1, r.pending = {<<n, k>>}, r.answer = None
        PROVE  Promise(r)
    <3>1. r.next - 1 = n /\ r.calls = k
      BY <2>1
    <3>2. <<r.next - 1, r.calls>> = <<n, k>>
      BY <3>1, Zenon
    <3>q. QED BY <2>1, <3>2 DEF Promise
  <2>q. QED BY <1>3, <1>4, <2>1, Zenon
<1>q. QED BY <1>1, <1>5 DEF Promises, Types

LEMMA EffectPromises == ASSUME Types, Structure, Promises, Effect PROVE Promises'
<1>1. ASSUME UNCHANGED client PROVE Promises'
  BY <1>1 DEF Promises
<1>2. ASSUME \A g \in Client : SameButConnection(client[g], client'[g]) PROVE Promises'
  BY <1>2 DEF SameButConnection, Promises, Promise
<1>3. ASSUME NEW l \in Link, ClientUp(l) PROVE Promises'
  BY <1>2, <1>3, UpFacts
<1>4. ASSUME NEW l \in Link, ClientDown(l) PROVE Promises'
  BY <1>2, <1>4, DownFacts
<1>5. ASSUME NEW f \in Client, Post(f) PROVE Promises'
  <2>1. \A g \in Client : client'[g] = IF g = f THEN [client[f] EXCEPT !.posted = Tail(client[f].posted)] ELSE client[g]
    BY <1>5, PostedFacts
  <2>2. client[f] \in ClientState
    BY DEF Types
  <2>3. Promise([client[f] EXCEPT !.posted = Tail(client[f].posted)])
    BY <2>2 DEF Promises, Promise, ClientState
  <2>q. QED BY <2>1, <2>3 DEF Promises
<1>6. ASSUME NEW f \in Client, NEW r \in ClientState, Promise(r), client' = [client EXCEPT ![f] = r] PROVE Promises'
  BY <1>6 DEF Promises, Types
<1>7. ASSUME NEW f \in Client, NEW r \in ClientState, Local(f, r) PROVE Promises'
  BY <1>6, <1>7 DEF Local
<1>8. ASSUME NEW f \in Client, NEW r \in ClientState, NEW host \in Instances \cup {None}, Opens(f, host, r) PROVE Promises'
  BY <1>6, <1>8 DEF Opens
<1>9. ASSUME NEW f \in Client, NEW r \in ClientState, Leaves(f, r) PROVE Promises'
  BY <1>6, <1>9 DEF Leaves
<1>10. ASSUME NEW l \in Link, NEW n \in Nat, ServerMessage(l, n, Rest(l)) PROVE Promises'
  BY <1>1, <1>10 DEF ServerMessage
<1>11. ASSUME NEW j \in job, Work(j) PROVE Promises'
  BY <1>1, <1>11 DEF Work
<1>12. ASSUME NEW l \in Link, NEW a \in Address, Accepts(l, a) PROVE Promises'
  BY <1>1, <1>12 DEF Accepts
<1>13. ASSUME NEW D \in SUBSET Link, Cut(D) PROVE Promises'
  BY <1>1, <1>13 DEF Cut
<1>q. QED BY <1>1, <1>3, <1>4, <1>5, <1>7, <1>8, <1>9, <1>10, <1>11, <1>12, <1>13, MessagePromises, CallPromises DEF Effect

-----------------------------------------------------------------------------
(***************************************************************************)
(* Messages of the client object that a client has now.                    *)
(***************************************************************************)
\* Client objects for which the same messages fit.
SameFit(c, d) == d.next + c.calls = c.next + d.calls

LEMMA FitKept ==
  ASSUME NEW f, NEW c \in ClientState, NEW d \in ClientState, SameFit(c, d), NEW m \in Message, Fit(f, c, m)
  PROVE  Fit(f, d, m)
<1>1. c.next \in Nat /\ c.calls \in Nat /\ d.next \in Nat /\ d.calls \in Nat
  BY DEF ClientState
<1>2. m.call \in Nat /\ m.id \in Nat
  BY DEF Message
<1>q. QED BY <1>1, <1>2 DEF Fit, SameFit

LEMMA FitBytesKept ==
  ASSUME NEW f, NEW c \in ClientState, NEW d \in ClientState, SameFit(c, d), NEW s \in Seq(Byte), FitBytes(f, c, s)
  PROVE  FitBytes(f, d, s)
<1>1. \A i \in 1 .. Len(s) : s[i][1] \in Message
  BY DEF Byte
<1>q. QED BY <1>1, FitKept DEF FitBytes

LEMMA FitEmpty == ASSUME NEW f, NEW c PROVE FitBytes(f, c, Empty)
<1>1. \A i \in 1 .. Len(Empty) : FALSE
  BY EmptyTypes
<1>q. QED BY <1>1 DEF FitBytes

LEMMA FitConcat ==
  ASSUME NEW f, NEW c, NEW s \in Seq(Byte), NEW t \in Seq(Byte), FitBytes(f, c, s), FitBytes(f, c, t)
  PROVE  FitBytes(f, c, s \o t)
<1>1. /\ Len(s \o t) = Len(s) + Len(t)
      /\ \A i \in 1 .. Len(s) : (s \o t)[i] = s[i]
      /\ \A i \in 1 .. Len(t) : (s \o t)[Len(s) + i] = t[i]
  BY ConcatAt
<1>2. Len(s) \in Nat /\ Len(t) \in Nat
  OBVIOUS
<1>3. ASSUME NEW i \in 1 .. Len(s \o t) PROVE Fit(f, c, (s \o t)[i][1])
  <2>1. CASE i <= Len(s)
    <3>1. i \in 1 .. Len(s)
      BY <1>2, <2>1
    <3>q. QED BY <1>1, <3>1 DEF FitBytes
  <2>2. CASE ~ (i <= Len(s))
    <3>1. i - Len(s) \in 1 .. Len(t) /\ Len(s) + (i - Len(s)) = i
      BY <1>1, <1>2, <2>2
    <3>2. (s \o t)[Len(s) + (i - Len(s))] = t[i - Len(s)]
      BY <1>1, <3>1
    <3>q. QED BY <3>1, <3>2 DEF FitBytes
  <2>q. QED BY <2>1, <2>2
<1>q. QED BY <1>3 DEF FitBytes

LEMMA FitParts ==
  ASSUME NEW f, NEW c, NEW s \in Seq(Byte), NEW n \in 0 .. Len(s), FitBytes(f, c, s)
  PROVE  FitBytes(f, c, After(s, n)) /\ FitBytes(f, c, SubSeq(s, 1, n))
<1>1. Len(s) \in Nat
  OBVIOUS
<1>2. Len(After(s, n)) = Len(s) - n /\ \A i \in 1 .. (Len(s) - n) : After(s, n)[i] = s[n + i]
  BY AfterFacts
<1>3. Len(SubSeq(s, 1, n)) = n /\ \A i \in 1 .. n : SubSeq(s, 1, n)[i] = s[i]
  BY TakenFacts
<1>4. ASSUME NEW i \in 1 .. (Len(s) - n) PROVE Fit(f, c, After(s, n)[i][1])
  <2>1. n + i \in 1 .. Len(s)
    BY <1>1
  <2>q. QED BY <1>2, <2>1 DEF FitBytes
<1>5. ASSUME NEW i \in 1 .. n PROVE Fit(f, c, SubSeq(s, 1, n)[i][1])
  <2>1. i \in 1 .. Len(s)
    BY <1>1
  <2>q. QED BY <1>3, <2>1 DEF FitBytes
<1>q. QED BY <1>2, <1>3, <1>4, <1>5 DEF FitBytes

LEMMA FitEncode == ASSUME NEW f, NEW c, NEW m \in Message, Fit(f, c, m) PROVE FitBytes(f, c, Encode(m))
<1>1. Len(Encode(m)) = 3 /\ Encode(m)[1] = <<m, 1>> /\ Encode(m)[2] = <<m, 2>> /\ Encode(m)[3] = <<m, 3>>
  BY EncodedFrame
<1>2. \A i \in 1 .. 3 : i = 1 \/ i = 2 \/ i = 3
  OBVIOUS
<1>3. \A i \in 1 .. 3 : Encode(m)[i][1] = m
  BY <1>1, <1>2
<1>q. QED BY <1>1, <1>3, Zenon DEF FitBytes

\* What a decoder returns and keeps fits when what it has got does.
LEMMA FitFeed ==
  ASSUME NEW f, NEW c, NEW b \in Seq(Byte), NEW s \in Seq(Byte), FitBytes(f, c, b), FitBytes(f, c, s)
  PROVE  /\ \A k \in 1 .. Len(Feed(b, s).out) : Fit(f, c, Feed(b, s).out[k])
         /\ FitBytes(f, c, Feed(b, s).buffer)
<1> DEFINE all == b \o s
           out == Feed(b, s).out
           buffer == Feed(b, s).buffer
<1>1. \E r \in 0 .. Len(all) : buffer = After(all, r) /\ FramesIn(all, out, 0, r)
  BY FeedSound, Zenon DEF Byte
<1>2. all \in Seq(Byte)
  BY ConcatAt
<1>3. FitBytes(f, c, all)
  BY FitConcat
<1>4. out \in Seq(Message)
  BY FeedTypes
<1> HIDE DEF all, out, buffer
<1>5. PICK r \in 0 .. Len(all) : buffer = After(all, r) /\ FramesIn(all, out, 0, r)
  BY <1>1
<1>6. PICK q \in [1 .. Len(out) -> Nat] : \A k \in 1 .. Len(out) : 0 <= q[k] /\ q[k] + 3 <= r /\ FrameAt(all, q[k], out[k])
  BY <1>5 DEF FramesIn
<1>7. ASSUME NEW k \in 1 .. Len(out) PROVE Fit(f, c, out[k])
  <2>1. q[k] \in Nat /\ q[k] + 3 <= r /\ FrameAt(all, q[k], out[k])
    BY <1>6
  <2>2. Len(all) \in Nat
    BY <1>2
  <2>3. q[k] + 1 \in 1 .. Len(all)
    BY <2>1, <2>2
  <2>4. all[q[k] + 1] = <<out[k], 1>>
    BY <2>1, Zenon DEF FrameAt
  <2>5. Fit(f, c, all[q[k] + 1][1])
    BY <1>3, <2>3, Zenon DEF FitBytes
  <2>q. QED BY <2>4, <2>5
<1>8. FitBytes(f, c, buffer)
  BY <1>2, <1>3, <1>5, FitParts
<1>q. QED BY <1>7, <1>8 DEF out, buffer

\* A connection that carries nothing, and one that carries no more than before.
Blank(l) == toServer[l] = Empty /\ toClient[l] = Empty /\ link[l].far = "no" /\ \A j \in job : j.link # l

LEMMA BlankFits == ASSUME NEW f, NEW c, NEW l \in Link, Blank(l) PROVE FitLink(f, c, l)
BY FitEmpty DEF Blank, FitLink


\* What a step leaves of a client object, or of a connection: no message comes in.
RowShrinks(c, d) ==
  /\ d.posted = <<>> \/ (SameFit(c, d) /\ d.posted = c.posted)
  /\ d.buffer = Empty \/ (SameFit(c, d) /\ d.buffer = c.buffer)
  /\ d.answer = None \/ (d.answer = c.answer /\ d.calls = c.calls)

LinkShrinks(l) ==
  /\ toServer'[l] \in {toServer[l], Empty} /\ toClient'[l] \in {toClient[l], Empty} /\ job' \in SUBSET job
  /\ link'[l].far = "up" =>
       \/ decoder'[link'[l].address] \in {None, Empty}
       \/ link[l].far = "up" /\ decoder'[link'[l].address] = decoder[link[l].address]

LiveShrinks(g, l) ==
  \/ Blank(l)'
  \/ SameFit(client[g], client'[g]) /\ client[g].pc # "leaving" /\ l \in Live(g) /\ LinkShrinks(l)

LEMMA LinkFits ==
  ASSUME Types, Types', Structure, NEW g \in Client, NEW l \in Link, FitLink(g, client[g], l),
         SameFit(client[g], client'[g]), LinkShrinks(l)
  PROVE  FitLink(g, client[g], l)'
<1> DEFINE c == client[g]
           d == client'[g]
<1>1. c \in ClientState /\ d \in ClientState /\ SameFit(c, d)
  BY DEF Types
<1>2. ASSUME NEW s \in Seq(Byte), FitBytes(g, c, s) PROVE FitBytes(g, d, s)
  <2> HIDE DEF c, d
  <2>q. QED BY <1>1, <1>2, FitBytesKept
<1>3. toServer[l] \in Seq(Byte) /\ toClient[l] \in Seq(Byte)
  BY DEF Types, NetworkTypes
<1>4. FitBytes(g, c, toServer[l]) /\ FitBytes(g, c, toClient[l])
  BY DEF FitLink
<1>5. FitBytes(g, d, toServer'[l]) /\ FitBytes(g, d, toClient'[l])
  BY <1>2, <1>3, <1>4, FitEmpty DEF LinkShrinks
<1>6. ASSUME link'[l].far = "up", decoder'[link'[l].address] # None
      PROVE  FitBytes(g, d, decoder'[link'[l].address])
  <2>1. CASE decoder'[link'[l].address] \in {None, Empty}
    BY <1>6, <2>1, FitEmpty
  <2>2. ASSUME link[l].far = "up", decoder'[link'[l].address] = decoder[link[l].address]
        PROVE  FitBytes(g, d, decoder'[link'[l].address])
    <3>1. FitBytes(g, c, decoder[link[l].address])
      BY <1>6, <2>2 DEF FitLink
    <3>2. decoder'[link'[l].address] \in Seq(Byte)
      <4>1. link[l].address \in Address
        BY <2>2 DEF Structure, Stages
      <4>2. decoder[link[l].address] \in Seq(Byte) \cup {None}
        BY <4>1 DEF Types, ServerTypes
      <4>q. QED BY <1>6, <2>2, <4>2
    <3>q. QED BY <1>2, <2>2, <3>1, <3>2
  <2>q. QED BY <1>6, <2>1, <2>2 DEF LinkShrinks
<1>7. ASSUME NEW j \in job', j.link = l PROVE Fit(g, d, j.request)
  <2>1. j \in job
    BY DEF LinkShrinks
  <2>2. j.request \in Message /\ Fit(g, c, j.request)
    BY <1>7, <2>1 DEF FitLink, Types, ServerTypes
  <2> HIDE DEF c, d
  <2>q. QED BY <1>1, <2>2, FitKept
<1>q. QED BY <1>5, <1>6, <1>7 DEF FitLink

LEMMA ShrinkClient ==
  ASSUME Types, Types', Structure, NEW g \in Client, FitClient(g), RowShrinks(client[g], client'[g]),
         client'[g].pc # "leaving" => \A l \in Live(g)' : LiveShrinks(g, l) \/ FitLink(g, client[g], l)'
  PROVE  FitClient(g)'
<1> DEFINE c == client[g]
           d == client'[g]
<1>1. RowShrinks(c, d) /\ (d.pc # "leaving" => \A l \in Live(g)' : LiveShrinks(g, l) \/ FitLink(g, client[g], l)')
  OBVIOUS
<1>2. FitClient(g)
  OBVIOUS
<1>3. c \in ClientState /\ d \in ClientState
  BY DEF Types
<1>4. c.posted \in Seq(Message) /\ c.buffer \in Seq(Byte) /\ FitPosted(g, c) /\ FitBytes(g, c, c.buffer)
  BY <1>2, <1>3 DEF ClientState, FitClient
<1>5. FitPosted(g, d)
  <2> HIDE DEF c, d
  <2>1. CASE d.posted = <<>>
    <3>1. \A i \in 1 .. Len(d.posted) : FALSE
      BY <2>1
    <3>q. QED BY <3>1 DEF FitPosted
  <2>2. ASSUME SameFit(c, d), d.posted = c.posted PROVE FitPosted(g, d)
    <3>1. \A i \in 1 .. Len(c.posted) : c.posted[i] \in Message /\ Fit(g, c, c.posted[i])
      BY <1>4 DEF FitPosted
    <3>2. \A i \in 1 .. Len(c.posted) : Fit(g, d, c.posted[i])
      BY <1>3, <2>2, <3>1, FitKept
    <3>q. QED BY <2>2, <3>2 DEF FitPosted
  <2>q. QED BY <1>1, <2>1, <2>2 DEF RowShrinks
<1>6. FitBytes(g, d, d.buffer)
  <2> HIDE DEF c, d
  <2>q. QED BY <1>1, <1>3, <1>4, FitBytesKept, FitEmpty DEF RowShrinks
<1>7. d.answer # None => d.answer.client = g /\ d.answer.call = d.calls
  BY <1>1, <1>2 DEF RowShrinks, FitClient
<1>8. ASSUME d.pc # "leaving", NEW l \in Live(g)' PROVE FitLink(g, client[g], l)'
  <2>1. l \in Link
    BY DEF Live
  <2>2. CASE Blank(l)'
    BY <2>1, <2>2, FitEmpty DEF Blank, FitLink
  <2>3. ASSUME SameFit(c, d), c.pc # "leaving", l \in Live(g), LinkShrinks(l) PROVE FitLink(g, client[g], l)'
    <3>1. FitLink(g, client[g], l)
      BY <1>2, <2>3 DEF FitClient
    <3>q. QED BY <2>1, <2>3, <3>1, LinkFits
  <2>q. QED BY <1>1, <1>8, <2>2, <2>3 DEF LiveShrinks
<1>q. QED BY <1>5, <1>6, <1>7, <1>8 DEF FitClient

LEMMA ShrinkFits ==
  ASSUME Types, Types', Structure, Fits, stale \subseteq stale',
         ASSUME stale' = {}, NEW g \in Client
         PROVE  /\ RowShrinks(client[g], client'[g])
                /\ client'[g].pc # "leaving" => \A l \in Live(g)' : LiveShrinks(g, l)
  PROVE  Fits'
<1>1. ASSUME stale' = {}, NEW g \in Client PROVE FitClient(g)'
  <2>1. FitClient(g)
    <3>1. stale = {}
      BY <1>1
    <3>q. QED BY <3>1 DEF Fits
  <2>q. QED BY <1>1, <2>1, ShrinkClient
<1>q. QED BY <1>1 DEF Fits

LEMMA SameFitSelf == ASSUME NEW c \in ClientState, NEW d, d.next = c.next, d.calls = c.calls PROVE SameFit(c, d)
BY DEF SameFit, ClientState

LEMMA UpFits == ASSUME Types, Types', Structure, Fits, NEW l \in Link, ClientUp(l) PROVE Fits'
<1>1. /\ link[l].client \in Client /\ link[l].near = "opening"
      /\ \A k \in Link : SameButNear(link[k], link'[k]) /\ link'[k].near = IF k = l THEN "up" ELSE link[k].near
      /\ \A g \in Client : SameButConnection(client[g], client'[g])
      /\ UNCHANGED <<toServer, toClient, server>>
  BY UpFacts
<1>2. \A g \in Client : SameFit(client[g], client'[g])
  BY <1>1, SameFitSelf DEF Types, SameButConnection
<1>3. \A k \in Link : LinkShrinks(k)
  BY <1>1 DEF LinkShrinks, SameButNear, server
<1>4. \A g \in Client : RowShrinks(client[g], client'[g])
  BY <1>1, <1>2 DEF RowShrinks, SameButConnection
<1>5. \A g \in Client : Live(g)' \subseteq Live(g)
  BY <1>1 DEF Live, SameButNear
<1>6. \A g \in Client : client'[g].pc = client[g].pc
  BY <1>1 DEF SameButConnection
<1>7. \A g \in Client : client'[g].pc # "leaving" => \A k \in Live(g)' : LiveShrinks(g, k)
  BY <1>2, <1>3, <1>5, <1>6 DEF LiveShrinks, Live
<1>q. QED BY <1>1, <1>4, <1>7, ShrinkFits DEF server

LEMMA DownFits == ASSUME Types, Types', Structure, Fits, NEW l \in Link, ClientDown(l) PROVE Fits'
<1>1. /\ link[l].client \in Client /\ link[l].near \in {"up", "closing"}
      /\ \A k \in Link : SameButNear(link[k], link'[k]) /\ link'[k].near = IF k = l THEN "down" ELSE link[k].near
      /\ \A g \in Client : SameButConnection(client[g], client'[g])
      /\ \A k \in Link : toClient'[k] = IF k = l THEN Empty ELSE toClient[k]
      /\ UNCHANGED <<toServer, server>>
  BY DownFacts
<1>2. \A g \in Client : SameFit(client[g], client'[g])
  BY <1>1, SameFitSelf DEF Types, SameButConnection
<1>3. \A k \in Link : LinkShrinks(k)
  BY <1>1 DEF LinkShrinks, SameButNear, server
<1>4. \A g \in Client : RowShrinks(client[g], client'[g])
  BY <1>1, <1>2 DEF RowShrinks, SameButConnection
<1>5. \A g \in Client : Live(g)' \subseteq Live(g)
  BY <1>1 DEF Live, SameButNear
<1>6. \A g \in Client : client'[g].pc = client[g].pc
  BY <1>1 DEF SameButConnection
<1>7. \A g \in Client : client'[g].pc # "leaving" => \A k \in Live(g)' : LiveShrinks(g, k)
  BY <1>2, <1>3, <1>5, <1>6 DEF LiveShrinks, Live
<1>q. QED BY <1>1, <1>4, <1>7, ShrinkFits DEF server

LEMMA LocalFits ==
  ASSUME Types, Types', Structure, Fits, NEW f \in Client, NEW r \in ClientState, Local(f, r)
  PROVE  Fits'
<1>1. /\ \A g \in Client : client'[g] = IF g = f THEN r ELSE client[g]
      /\ UNCHANGED <<network, server>>
      /\ r.calls = client[f].calls /\ r.next = client[f].next /\ r.posted = client[f].posted
      /\ r.buffer = client[f].buffer /\ r.answer \in {None, client[f].answer}
      /\ r.pc # "leaving" /\ client[f].pc = "leaving" => Live(f) = {}
  BY DEF Local, Types
<1>2. \A g \in Client : SameFit(client[g], client'[g])
  BY <1>1, SameFitSelf DEF Types
<1>3. \A k \in Link : LinkShrinks(k)
  BY <1>1 DEF LinkShrinks, network, server
<1>4. \A g \in Client : RowShrinks(client[g], client'[g])
  BY <1>1, <1>2 DEF RowShrinks
<1>5. \A g \in Client : Live(g)' = Live(g)
  BY <1>1 DEF Live, network
<1>7. ASSUME NEW g \in Client, client'[g].pc # "leaving", NEW k \in Live(g)' PROVE LiveShrinks(g, k)
  <2>1. k \in Live(g) /\ k \in Link
    BY <1>5 DEF Live
  <2>2. client[g].pc # "leaving"
    BY <1>1, <1>7, <2>1
  <2>q. QED BY <1>2, <1>3, <2>1, <2>2 DEF LiveShrinks
<1>q. QED BY <1>1, <1>4, <1>7, ShrinkFits DEF server

LEMMA OpensFits ==
  ASSUME Types, Types', Structure, Fits, NEW f \in Client, NEW r \in ClientState, NEW host \in Instances \cup {None}, Opens(f, host, r)
  PROVE  Fits'
<1>1. PICK new \in Link :
      /\ link[new].near = "no"
      /\ link'[new].client = f /\ link'[new].near = "opening" /\ link'[new].far = "no"
      /\ \A l \in Link \ {new} :
           /\ SameButNear(link[l], link'[l])
           /\ link[l].client # f => link'[l].near = link[l].near
           /\ link[l].client = f => link'[l].near =
                CASE link[l].near = "up" -> "closing" [] link[l].near = "opening" -> "gone" [] OTHER -> link[l].near
      /\ \A g \in Client : client'[g] = IF g = f THEN r ELSE client[g]
      /\ UNCHANGED <<toServer, toClient, server>>
  BY OpensFacts
<1>2. /\ r.calls = client[f].calls /\ r.answer \in {None, client[f].answer} /\ client[f].pc # "leaving"
      /\ \/ r.next = client[f].next /\ r.posted = client[f].posted /\ r.buffer = client[f].buffer
         \/ Live(f) = {} /\ r.posted = <<>> /\ r.buffer = Empty
  BY DEF Opens
<1>3. Blank(new)'
  BY <1>1 DEF Blank, Structure, Stages, server
<1>4. \A l \in Link \ {new} : LinkShrinks(l)
  BY <1>1 DEF LinkShrinks, SameButNear, server
<1>5. ASSUME NEW g \in Client, NEW l \in Live(g)', l # new PROVE l \in Live(g) /\ l \in Link
  <2>1. l \in Link /\ link'[l].client = g /\ link'[l].near \in {"opening", "up", "closing"}
    BY DEF Live
  <2>2. link[l].near \in {"opening", "up", "closing"} /\ link[l].client = g
    BY <1>1, <1>5, <2>1 DEF SameButNear
  <2>q. QED BY <2>1, <2>2 DEF Live
<1>6. \A g \in Client : client[g] \in ClientState
  BY DEF Types
<1>7. ASSUME NEW g \in Client PROVE RowShrinks(client[g], client'[g])
  <2>1. CASE g # f
    BY <1>1, <1>6, <2>1, SameFitSelf DEF RowShrinks
  <2>2. CASE g = f
    <3>1. client'[g] = r
      BY <1>1, <2>2
    <3>2. r.next = client[f].next => SameFit(client[f], r)
      BY <1>2, <1>6, SameFitSelf
    <3>q. QED BY <1>2, <2>2, <3>1, <3>2 DEF RowShrinks
  <2>q. QED BY <2>1, <2>2
<1>8. ASSUME NEW g \in Client, client'[g].pc # "leaving", NEW l \in Live(g)' PROVE LiveShrinks(g, l)
  <2>1. CASE l = new
    BY <1>3, <2>1 DEF LiveShrinks
  <2>2. CASE l # new
    <3>1. l \in Live(g) /\ LinkShrinks(l)
      BY <1>4, <1>5, <2>2
    <3>2. client[g].pc # "leaving"
      BY <1>1, <1>2, <1>8
    <3>3. SameFit(client[g], client'[g])
      <4>1. CASE g # f
        BY <1>1, <1>6, <4>1, SameFitSelf
      <4>2. CASE g = f
        <5>1. client'[g] = r /\ r.next = client[f].next
          BY <1>1, <1>2, <3>1, <4>2
        <5>q. QED BY <1>2, <1>6, <4>2, <5>1, SameFitSelf
      <4>q. QED BY <4>1, <4>2
    <3>q. QED BY <3>1, <3>2, <3>3 DEF LiveShrinks
  <2>q. QED BY <2>1, <2>2
<1>q. QED BY <1>1, <1>7, <1>8, ShrinkFits DEF server

LEMMA LeavesFits ==
  ASSUME Types, Types', Structure, Fits, NEW f \in Client, NEW r \in ClientState, Leaves(f, r)
  PROVE  Fits'
<1>1. /\ \A l \in Link :
           /\ SameButNear(link[l], link'[l])
           /\ link[l].client # f => link'[l].near = link[l].near
           /\ link[l].client = f => link'[l].near =
                CASE link[l].near = "up" -> "closing" [] link[l].near = "opening" -> "gone" [] OTHER -> link[l].near
      /\ \A g \in Client : client'[g] = IF g = f THEN r ELSE client[g]
      /\ UNCHANGED <<toServer, toClient, server>>
  BY LeavesFacts
<1>2. r.posted = <<>> /\ r.buffer = Empty /\ r.answer = None /\ r.pc = "leaving"
  BY DEF Leaves
<1>3. \A l \in Link : LinkShrinks(l)
  BY <1>1 DEF LinkShrinks, SameButNear, server
<1>4. \A g \in Client : g # f => client'[g] = client[g] /\ SameFit(client[g], client'[g])
  BY <1>1, SameFitSelf DEF Types
<1>5. \A g \in Client : RowShrinks(client[g], client'[g])
  BY <1>1, <1>2, <1>4 DEF RowShrinks
<1>6. ASSUME NEW g \in Client, client'[g].pc # "leaving", NEW l \in Live(g)' PROVE LiveShrinks(g, l)
  <2>1. g # f
    BY <1>1, <1>2, <1>6
  <2>2. l \in Link /\ link'[l].client = g /\ link'[l].near \in {"opening", "up", "closing"}
    BY DEF Live
  <2>3. l \in Live(g)
    BY <1>1, <2>1, <2>2 DEF Live, SameButNear
  <2>q. QED BY <1>3, <1>4, <1>6, <2>1, <2>2, <2>3 DEF LiveShrinks
<1>q. QED BY <1>1, <1>5, <1>6, ShrinkFits DEF server

LEMMA AcceptsFits == ASSUME Types, Types', Structure, Fits, NEW l \in Link, NEW a \in Address, Accepts(l, a) PROVE Fits'
<1>1. /\ link[l].near \in {"up", "closing", "down"} /\ link[l].far = "no"
      /\ \A k \in Link : /\ link'[k].client = link[k].client /\ link'[k].near = link[k].near
                         /\ link'[k].far = IF k = l THEN "up" ELSE link[k].far
                         /\ link'[k].address = IF k = l THEN a ELSE link[k].address
      /\ \A k \in Link : link[k].far = "up" => link[k].address # a
      /\ \A b \in Address : decoder'[b] = decoder[b] \/ (b = a /\ decoder'[b] = Empty)
      /\ (decoder'[a] \in {None, Empty} /\ stale' = stale) \/ (stale' = stale \cup {l} /\ decoder' = decoder)
      /\ UNCHANGED <<toServer, toClient, client, job, done, received, submitted>>
  BY AcceptsFacts
<1>2. \A g \in Client : RowShrinks(client[g], client'[g]) /\ SameFit(client[g], client'[g])
  BY <1>1, SameFitSelf DEF Types, RowShrinks
<1>3. ASSUME stale' = {}, NEW k \in Link PROVE LinkShrinks(k)
  <2>1. decoder'[a] \in {None, Empty}
    BY <1>1, <1>3
  <2>2. link'[k].far = "up" =>
          \/ decoder'[link'[k].address] \in {None, Empty}
          \/ link[k].far = "up" /\ decoder'[link'[k].address] = decoder[link[k].address]
    <3>1. CASE k = l
      BY <1>1, <2>1, <3>1
    <3>2. ASSUME k # l, link'[k].far = "up" PROVE link[k].far = "up" /\ decoder'[link'[k].address] = decoder[link[k].address]
      <4>1. link[k].far = "up" /\ link'[k].address = link[k].address /\ link[k].address # a
        BY <1>1, <3>2
      <4>2. link[k].address \in Address
        BY <4>1 DEF Structure, Stages
      <4>q. QED BY <1>1, <4>1, <4>2
    <3>q. QED BY <3>1, <3>2
  <2>q. QED BY <1>1, <2>2 DEF LinkShrinks
<1>4. \A g \in Client : Live(g)' \subseteq Live(g)
  BY <1>1 DEF Live
<1>5. ASSUME stale' = {}, NEW g \in Client
      PROVE  /\ RowShrinks(client[g], client'[g])
             /\ client'[g].pc # "leaving" => \A k \in Live(g)' : LiveShrinks(g, k)
  BY <1>1, <1>2, <1>3, <1>4, <1>5 DEF LiveShrinks, Live
<1>6. stale \subseteq stale'
  BY <1>1
<1>q. QED BY <1>5, <1>6, ShrinkFits

LEMMA CutFits == ASSUME Types, Types', Structure, Fits, NEW D \in SUBSET Link, Cut(D) PROVE Fits'
<1>1. /\ \A k \in Link : /\ link'[k].client = link[k].client /\ link'[k].near = link[k].near
                         /\ link'[k].far = IF k \in D THEN "down" ELSE link[k].far
                         /\ link'[k].address = link[k].address
      /\ \A k \in Link : toServer'[k] = IF k \in D THEN Empty ELSE toServer[k]
      /\ \A a \in Address :
           \/ decoder'[a] = decoder[a]
           \/ decoder'[a] = None /\ \E l \in D : link[l].address = a /\ link[l].far # "down"
      /\ job' \in SUBSET job
      /\ UNCHANGED <<toClient, client, done, received, submitted, stale>>
  BY CutFacts, Zenon
<1>2. \A g \in Client : RowShrinks(client[g], client'[g]) /\ SameFit(client[g], client'[g])
  BY <1>1, SameFitSelf DEF Types, RowShrinks
<1>3. ASSUME NEW k \in Link PROVE LinkShrinks(k)
  <2>1. ASSUME link'[k].far = "up"
        PROVE  \/ decoder'[link'[k].address] \in {None, Empty}
               \/ link[k].far = "up" /\ decoder'[link'[k].address] = decoder[link[k].address]
    <3>1. link[k].far = "up" /\ link'[k].address = link[k].address
      BY <1>1, <2>1
    <3>2. link[k].address \in Address
      BY <3>1 DEF Structure, Stages
    <3>q. QED BY <1>1, <3>1, <3>2
  <2>q. QED BY <1>1, <2>1 DEF LinkShrinks
<1>4. \A g \in Client : Live(g)' \subseteq Live(g)
  BY <1>1 DEF Live
<1>5. ASSUME NEW g \in Client PROVE client'[g].pc # "leaving" => \A k \in Live(g)' : LiveShrinks(g, k)
  BY <1>1, <1>2, <1>3, <1>4, <1>5 DEF LiveShrinks, Live
<1>q. QED BY <1>1, <1>2, <1>5, ShrinkFits

\* Steps that leave client objects, connections and messages alone.
LEMMA SameFits == ASSUME Fits, UNCHANGED <<network, client, server>> PROVE Fits'
BY DEF Fits, FitClient, Live, FitLink, network, server

\* What a client object was asked to keep fits, and so does what it has got.
RowFits(f, c) == FitPosted(f, c) /\ (c.answer # None => c.answer.client = f /\ c.answer.call = c.calls)
OutFits(f, c, out) == \A k \in 1 .. Len(out) : Fit(f, c, out[k])

\* It resolves a promise, or not.
Answered(c, out, b, r) ==
  /\ r.pc = c.pc /\ r.calls = c.calls /\ r.next = c.next /\ r.posted = c.posted /\ r.buffer = b
  /\ r.answer = c.answer \/ \E k \in Hits(c, out) : r.answer = out[k]

LEMMA AnsweredRow ==
  ASSUME NEW f, NEW c \in ClientState, Promise(c), NEW out \in Seq(Message), NEW b \in Seq(Byte),
         OutFits(f, c, out), FitBytes(f, c, b), RowFits(f, c), NEW r, r \in ClientState, Answered(c, out, b, r)
  PROVE  r.pc = c.pc /\ SameFit(c, r) /\ RowFits(f, r) /\ FitBytes(f, r, r.buffer)
<1>1. /\ r.pc = c.pc /\ r.calls = c.calls /\ r.next = c.next /\ r.posted = c.posted /\ r.buffer = b
      /\ r.answer = c.answer \/ \E k \in Hits(c, out) : r.answer = out[k]
  BY DEF Answered
<1>2. SameFit(c, r)
  BY <1>1, SameFitSelf
<1>3. FitPosted(f, r)
  <2>1. c.posted \in Seq(Message)
    BY DEF ClientState
  <2>2. \A k \in 1 .. Len(c.posted) : c.posted[k] \in Message /\ Fit(f, c, c.posted[k])
    BY <2>1 DEF RowFits, FitPosted
  <2>3. \A k \in 1 .. Len(c.posted) : Fit(f, r, c.posted[k])
    BY <1>2, <2>2, FitKept
  <2>q. QED BY <1>1, <2>3 DEF FitPosted
<1>4. FitBytes(f, r, r.buffer)
  BY <1>1, <1>2, FitBytesKept
<1>5. r.answer # None => r.answer.client = f /\ r.answer.call = r.calls
  <2>1. CASE r.answer = c.answer
    BY <1>1, <2>1 DEF RowFits
  <2>2. ASSUME NEW k \in Hits(c, out), r.answer = out[k]
        PROVE  r.answer.client = f /\ r.answer.call = r.calls
    <3>1. k \in 1 .. Len(out) /\ out[k] \in Message /\ out[k].id = c.next - 1
      BY HitFacts
    <3>2. out[k].client = f /\ out[k].call + c.next = out[k].id + c.calls + 1
      BY <3>1 DEF Fit, OutFits
    <3>3. out[k].call \in Nat /\ c.next \in Nat /\ c.calls \in Nat
      BY <3>1 DEF Message, ClientState
    <3>4. out[k].call + c.next = c.next - 1 + c.calls + 1
      BY <3>1, <3>2, Zenon
    <3>5. out[k].call = c.calls
      <4>1. ASSUME NEW x \in Nat, NEW y \in Nat, NEW z \in Nat, x + y = y - 1 + z + 1 PROVE x = z
        BY <4>1
      <4>q. QED BY <3>3, <3>4, <4>1
    <3>q. QED BY <1>1, <2>2, <3>2, <3>5
  <2>q. QED BY <1>1, <2>1, <2>2
<1>q. QED BY <1>1, <1>2, <1>3, <1>4, <1>5 DEF RowFits

LEMMA AnsweredFits ==
  ASSUME Types, Types', Structure, Promises, NEW l \in Link, NEW n \in Nat, ClientMessage(l, n),
         NEW f \in Client, link[l].client = f, FitClient(f),
         \A k \in Link : k # l => LinkShrinks(k)
  PROVE  FitClient(f)'
<1> DEFINE out == AnswerFed(l, n).out
           buffer == AnswerFed(l, n).buffer
           piece == AnswerPiece(l, n)
           c == client[f]
           r == [Resolved(client[f], out) EXCEPT !.buffer = buffer]
<1>1. /\ link[l].near \in {"up", "closing"} /\ c.pc # "leaving"
      /\ c \in ClientState /\ c.buffer \in Seq(Byte)
      /\ toClient[l] \in Seq(Byte) /\ n \in 0 .. Len(toClient[l])
      /\ piece \in Seq(Byte) /\ out \in Seq(Message) /\ buffer \in Seq(Byte)
      /\ client' = [client EXCEPT ![f] = r] /\ r \in ClientState
      /\ toClient' = [toClient EXCEPT ![l] = After(toClient[l], n)]
      /\ UNCHANGED <<link, toServer, server>>
  BY MessageFacts, Zenon
<1>2. l \in Live(f)
  BY <1>1 DEF Live
<1>3. FitLink(f, c, l) /\ FitBytes(f, c, c.buffer) /\ FitBytes(f, c, toClient[l]) /\ RowFits(f, c)
  BY <1>1, <1>2 DEF FitClient, FitLink, RowFits
<1>4. FitBytes(f, c, piece) /\ FitBytes(f, c, After(toClient[l], n))
  BY <1>1, <1>3, FitParts DEF AnswerPiece
<1>5. OutFits(f, c, out) /\ FitBytes(f, c, buffer)
  <2>1. AnswerFed(l, n) = Feed(c.buffer, piece)
    BY DEF AnswerFed
  <2>2. ASSUME NEW a \in Seq(Byte), NEW b \in Seq(Byte), NEW d, FitBytes(f, d, a), FitBytes(f, d, b)
        PROVE  /\ \A k \in 1 .. Len(Feed(a, b).out) : Fit(f, d, Feed(a, b).out[k])
               /\ FitBytes(f, d, Feed(a, b).buffer)
    BY <2>2, FitFeed
  <2>3. /\ \A k \in 1 .. Len(Feed(c.buffer, piece).out) : Fit(f, c, Feed(c.buffer, piece).out[k])
        /\ FitBytes(f, c, Feed(c.buffer, piece).buffer)
    BY <1>1, <1>3, <1>4, <2>2, Zenon
  <2>q. QED BY <2>1, <2>3, Zenon DEF OutFits
<1>6. client'[f] = r
  BY <1>1 DEF Types
<1>7. Promise(c)
  BY DEF Promises
<1>8. r.pc = c.pc /\ SameFit(c, r) /\ RowFits(f, r) /\ FitBytes(f, r, r.buffer)
  <2>1. Answered(c, out, buffer, r)
    <3> HIDE DEF c, out, buffer
    <3>1. c \in ClientState /\ out \in Seq(Message) /\ buffer \in Seq(Byte)
      BY <1>1
    <3>q. QED BY <3>1, AnsweredFields DEF c, Answered
  <2> HIDE DEF r, c, out, buffer
  <2>2. c \in ClientState /\ out \in Seq(Message) /\ buffer \in Seq(Byte) /\ r \in ClientState /\ RowFits(f, c)
    BY <1>1, <1>3
  <2>q. QED BY <1>5, <1>7, <2>1, <2>2, AnsweredRow
<1> HIDE DEF r, out, buffer, piece
<1>9. ASSUME NEW k \in Live(f)' PROVE FitLink(f, client[f], k)'
  <2>1. k \in Live(f) /\ k \in Link
    BY <1>1 DEF Live
  <2>2. FitLink(f, c, k)
    BY <1>1, <2>1 DEF FitClient
  <2>3. CASE k # l
    <3>1. LinkShrinks(k)
      BY <2>1, <2>3
    <3>q. QED BY <1>6, <1>8, <2>1, <2>2, <3>1, LinkFits
  <2>4. CASE k = l
    <3>1. FitBytes(f, r, toServer[l]) /\ FitBytes(f, r, After(toClient[l], n))
      <4>1. toServer[l] \in Seq(Byte) /\ FitBytes(f, c, toServer[l])
        BY <1>3 DEF Types, NetworkTypes, FitLink
      <4>2. After(toClient[l], n) \in Seq(Byte)
        BY <1>1, AfterFacts
      <4> HIDE DEF c
      <4>q. QED BY <1>1, <1>4, <1>8, <4>1, <4>2, FitBytesKept
    <3>2. link[l].far = "up" /\ decoder[link[l].address] # None => FitBytes(f, r, decoder[link[l].address])
      <4>1. link[l].far = "up" /\ decoder[link[l].address] # None =>
              decoder[link[l].address] \in Seq(Byte) /\ FitBytes(f, c, decoder[link[l].address])
        BY <1>3 DEF Types, ServerTypes, FitLink, Structure, Stages
      <4> HIDE DEF c
      <4>q. QED BY <1>1, <1>8, <4>1, FitBytesKept
    <3>3. \A j \in job : j.link = l => Fit(f, r, j.request)
      <4>1. \A j \in job : j.link = l => j.request \in Message /\ Fit(f, c, j.request)
        BY <1>3 DEF Types, ServerTypes, FitLink
      <4> HIDE DEF c
      <4>q. QED BY <1>1, <1>8, <4>1, FitKept
    <3>4. toClient'[l] = After(toClient[l], n)
      BY <1>1 DEF Types, NetworkTypes
    <3>q. QED BY <1>1, <1>6, <2>4, <3>1, <3>2, <3>3, <3>4 DEF FitLink, server
  <2>q. QED BY <2>3, <2>4
<1>q. QED BY <1>6, <1>8, <1>9 DEF FitClient, RowFits

LEMMA MessageFits ==
  ASSUME Types, Types', Structure, Promises, Fits, NEW l \in Link, NEW n \in Nat, ClientMessage(l, n)
  PROVE  Fits'
<1> SUFFICES ASSUME stale' = {}, NEW g \in Client PROVE FitClient(g)'
  BY DEF Fits
<1> DEFINE f == link[l].client
           r == [Resolved(client[f], AnswerFed(l, n).out) EXCEPT !.buffer = AnswerFed(l, n).buffer]
<1>1. /\ f \in Client /\ client' = [client EXCEPT ![f] = r]
      /\ toClient' = [toClient EXCEPT ![l] = After(toClient[l], n)]
      /\ UNCHANGED <<link, toServer, server>>
  BY MessageFacts, Zenon
<1>2. FitClient(g)
  BY <1>1 DEF Fits, server
<1>3. \A k \in Link : k # l => LinkShrinks(k)
  BY <1>1 DEF LinkShrinks, server, Types, NetworkTypes
<1>6. CASE g # f
  <2>1. client'[g] = client[g] /\ SameFit(client[g], client'[g]) /\ RowShrinks(client[g], client'[g])
    BY <1>1, <1>6, SameFitSelf DEF Types, RowShrinks
  <2>2. \A k \in Live(g)' : k \in Live(g) /\ k \in Link /\ k # l
    BY <1>1, <1>6 DEF Live
  <2>3. client'[g].pc # "leaving" => \A k \in Live(g)' : LiveShrinks(g, k)
    BY <1>3, <2>1, <2>2 DEF LiveShrinks
  <2>q. QED BY <1>2, <2>1, <2>3, ShrinkClient
<1>7. CASE g = f
  <2> HIDE DEF r
  <2>q. QED BY <1>2, <1>3, <1>7, AnsweredFits
<1>q. QED BY <1>6, <1>7

\* Posted requests fit, and so does the next one.
LEMMA PostFits == ASSUME Types, Types', Structure, Fits, NEW f \in Client, Post(f) PROVE Fits'
<1> SUFFICES ASSUME stale' = {}, NEW g \in Client PROVE FitClient(g)'
  BY DEF Fits
<1> DEFINE l == client[f].connection
           m == Head(client[f].posted)
           t == Tail(client[f].posted)
<1>1. /\ client[f].posted \in Seq(Message) /\ client[f].posted # <<>> /\ m \in Message
      /\ \A h \in Client : client'[h] = IF h = f THEN [client[f] EXCEPT !.posted = t] ELSE client[h]
      /\ UNCHANGED <<link, toClient, server>>
      /\ \/ toServer' = toServer
         \/ /\ l \in Link /\ link[l].near = "up" /\ link[l].client = f
            /\ toServer' = [toServer EXCEPT ![l] = toServer[l] \o Encode(m)]
  BY PostedFacts, Zenon
<1>2. FitClient(g) /\ FitClient(f)
  BY <1>1 DEF Fits, server
<1>3. \A h \in Client : /\ client'[h].pc = client[h].pc /\ client'[h].buffer = client[h].buffer
                        /\ client'[h].answer = client[h].answer /\ client'[h].calls = client[h].calls
                        /\ client'[h].next = client[h].next
  <2>2. \A h \in Client : client[h] \in ClientState
    BY DEF Types
  <2> HIDE DEF t
  <2>3. ASSUME NEW h \in Client, h # f PROVE client'[h] = client[h]
    BY <1>1, <2>3
  <2>4. client'[f] = [client[f] EXCEPT !.posted = t]
    BY <1>1
  <2>5. /\ client'[f].pc = client[f].pc /\ client'[f].buffer = client[f].buffer
        /\ client'[f].answer = client[f].answer /\ client'[f].calls = client[f].calls
        /\ client'[f].next = client[f].next
    BY <2>2, <2>4 DEF ClientState
  <2>q. QED BY <2>3, <2>5
<1>4. \A h \in Client : SameFit(client[h], client'[h])
  BY <1>3, SameFitSelf DEF Types
<1>5. Live(g)' = Live(g)
  BY <1>1 DEF Live
<1>6. FitPosted(f, client[f])
  BY <1>2 DEF FitClient
<1>7. FitPosted(f, client'[f])
  <2>1. client'[f].posted = t
    BY <1>1 DEF Types, ClientState
  <2>2. Len(t) \in Nat /\ \A i \in 1 .. Len(t) : i + 1 \in 1 .. Len(client[f].posted) /\ t[i] = client[f].posted[i + 1]
    BY <1>1
  <2>3. \A i \in 1 .. Len(t) : t[i] \in Message /\ Fit(f, client[f], t[i])
    BY <1>1, <1>6, <2>2 DEF FitPosted
  <2> HIDE DEF t
  <2>4. \A i \in 1 .. Len(t) : Fit(f, client'[f], t[i])
    BY <1>4, <2>3, FitKept DEF Types
  <2>q. QED BY <2>1, <2>4 DEF FitPosted
<1>8. FitBytes(f, client[f], Encode(m))
  <2>1. 1 \in 1 .. Len(client[f].posted) /\ m = client[f].posted[1]
    BY <1>1
  <2>2. Fit(f, client[f], m)
    BY <1>6, <2>1 DEF FitPosted
  <2> HIDE DEF m
  <2>q. QED BY <1>1, <2>2, FitEncode
<1> HIDE DEF m, t
<1>9. ASSUME client[g].pc # "leaving", NEW k \in Live(g) PROVE FitLink(g, client[g], k)'
  <2>1. k \in Link /\ link[k].client = g
    BY DEF Live
  <2>2. FitLink(g, client[g], k)
    BY <1>2, <1>9 DEF FitClient
  <2>3. CASE toServer'[k] = toServer[k]
    <3>1. LinkShrinks(k)
      BY <1>1, <2>3 DEF LinkShrinks, server
    <3>q. QED BY <1>4, <2>1, <2>2, <3>1, LinkFits
  <2>4. ASSUME toServer'[k] # toServer[k] PROVE FitLink(g, client[g], k)'
    <3>1. k = l /\ g = f /\ toServer'[k] = toServer[k] \o Encode(m)
      BY <1>1, <2>1, <2>4 DEF Types, NetworkTypes
    <3>2. FitBytes(g, client[g], toServer[k]) /\ toServer[k] \in Seq(Byte) /\ Encode(m) \in Seq(Byte)
      BY <1>1, <2>1, <2>2, EncodeFacts DEF FitLink, Types, NetworkTypes
    <3>3. FitBytes(g, client[g], toServer'[k])
      BY <1>8, <3>1, <3>2, FitConcat
    <3>4. client[g] \in ClientState /\ client'[g] \in ClientState /\ SameFit(client[g], client'[g])
      BY <1>4 DEF Types
    <3>5. FitBytes(g, client'[g], toServer'[k])
      BY <3>3, <3>4, FitBytesKept, <2>1 DEF Types, NetworkTypes
    <3>6. FitBytes(g, client'[g], toClient[k])
      BY <2>1, <2>2, <3>4, FitBytesKept DEF FitLink, Types, NetworkTypes
    <3>7. link[k].far = "up" /\ decoder[link[k].address] # None => FitBytes(g, client'[g], decoder[link[k].address])
      <4>1. link[k].far = "up" /\ decoder[link[k].address] # None =>
              decoder[link[k].address] \in Seq(Byte) /\ FitBytes(g, client[g], decoder[link[k].address])
        BY <2>1, <2>2 DEF Types, ServerTypes, FitLink, Structure, Stages
      <4>q. QED BY <3>4, <4>1, FitBytesKept
    <3>8. \A j \in job : j.link = k => Fit(g, client'[g], j.request)
      <4>1. \A j \in job : j.link = k => j.request \in Message /\ Fit(g, client[g], j.request)
        BY <2>2 DEF Types, ServerTypes, FitLink
      <4>q. QED BY <3>4, <4>1, FitKept
    <3>q. QED BY <1>1, <3>5, <3>6, <3>7, <3>8 DEF FitLink, server
  <2>q. QED BY <2>3, <2>4
<1>10. CASE g # f
  <2>1. client'[g] = client[g] /\ RowShrinks(client[g], client'[g])
    BY <1>1, <1>4, <1>10 DEF RowShrinks
  <2>2. client'[g].pc # "leaving" => \A k \in Live(g)' : FitLink(g, client[g], k)'
    BY <1>5, <1>9, <2>1
  <2>q. QED BY <1>2, <2>1, <2>2, ShrinkClient
<1>11. CASE g = f
  <2>1. FitBytes(f, client'[f], client'[f].buffer)
    <3>1. FitBytes(f, client[f], client[f].buffer) /\ client[f].buffer \in Seq(Byte)
      BY <1>2 DEF FitClient, Types, ClientState
    <3>q. QED BY <1>3, <1>4, <3>1, FitBytesKept DEF Types
  <2>2. client'[f].pc # "leaving" => \A k \in Live(f)' : FitLink(f, client[f], k)'
    BY <1>3, <1>5, <1>9, <1>11
  <2>3. client'[f].answer # None => client'[f].answer.client = f /\ client'[f].answer.call = client'[f].calls
    BY <1>2, <1>3 DEF FitClient
  <2>4. FitClient(f)'
    BY <1>7, <2>1, <2>2, <2>3 DEF FitClient
  <2>q. QED BY <1>11, <2>4
<1>q. QED BY <1>10, <1>11

LEMMA CallFits ==
  ASSUME Types, Types', Structure, Fits, NEW f \in Client, client[f].pc \in {"idle", "connecting"}, StartCall(f)
  PROVE  Fits'
<1> SUFFICES ASSUME stale' = {}, NEW g \in Client PROVE FitClient(g)'
  BY DEF Fits
<1>1. /\ Asked(f) \in Message /\ Calling(f) \in ClientState /\ client' = [client EXCEPT ![f] = Calling(f)]
      /\ UNCHANGED <<network, server>>
  <2>1. Asked(f) \in Message /\ Calling(f) \in ClientState /\ client' = [client EXCEPT ![f] = Calling(f)]
    BY CallFacts
  <2>q. QED BY <2>1 DEF StartCall
<1>2. client'[f] = Calling(f) /\ \A h \in Client : h # f => client'[h] = client[h]
  BY <1>1 DEF Types
<1>3. client[f] \in ClientState
  BY DEF Types
<1>4. /\ Calling(f).calls = client[f].calls + 1 /\ Calling(f).next = client[f].next + 1
      /\ Calling(f).posted = Append(client[f].posted, Asked(f)) /\ Calling(f).answer = None
      /\ Calling(f).buffer = client[f].buffer
  BY <1>3 DEF Calling, ClientState
<1>5. SameFit(client[f], Calling(f))
  BY <1>3, <1>4 DEF SameFit, ClientState
<1>6. \A h \in Client : SameFit(client[h], client'[h])
  BY <1>2, <1>5, SameFitSelf DEF Types
<1>7. \A k \in Link : LinkShrinks(k)
  BY <1>1 DEF LinkShrinks, network, server
<1>8. FitClient(g) /\ Live(g)' = Live(g)
  BY <1>1 DEF Fits, Live, network, server
<1>9. ASSUME client[g].pc # "leaving", NEW k \in Live(g) PROVE FitLink(g, client[g], k)'
  <2>1. k \in Link /\ FitLink(g, client[g], k)
    BY <1>8, <1>9 DEF FitClient, Live
  <2>q. QED BY <1>6, <1>7, <2>1, LinkFits
<1>10. CASE g # f
  <2>1. client'[g] = client[g] /\ RowShrinks(client[g], client'[g])
    BY <1>2, <1>6, <1>10 DEF RowShrinks
  <2>2. client'[g].pc # "leaving" => \A k \in Live(g)' : FitLink(g, client[g], k)'
    BY <1>8, <1>9, <2>1
  <2>q. QED BY <1>8, <2>1, <2>2, ShrinkClient
<1>11. CASE g = f
  <2>1. FitPosted(f, Calling(f))
    <3>1. Fit(f, Calling(f), Asked(f))
      BY <1>3, <1>4 DEF Fit, Asked, ClientState
    <3>2. client[f].posted \in Seq(Message) /\ FitPosted(f, client[f])
      BY <1>3, <1>8, <1>11 DEF ClientState, FitClient
    <3>3. \A i \in 1 .. Len(client[f].posted) : client[f].posted[i] \in Message /\ Fit(f, client[f], client[f].posted[i])
      BY <3>2 DEF FitPosted
    <3>4. \A i \in 1 .. Len(client[f].posted) : Fit(f, Calling(f), client[f].posted[i])
      BY <1>1, <1>3, <1>5, <3>3, FitKept
    <3>5. ASSUME NEW s \in Seq(Message), NEW m \in Message, NEW i \in 1 .. Len(Append(s, m))
          PROVE  (i \in 1 .. Len(s) /\ Append(s, m)[i] = s[i]) \/ Append(s, m)[i] = m
      OBVIOUS
    <3>6. \A i \in 1 .. Len(Append(client[f].posted, Asked(f))) : Fit(f, Calling(f), Append(client[f].posted, Asked(f))[i])
      BY <1>1, <3>1, <3>2, <3>4, <3>5
    <3>q. QED BY <1>4, <3>6 DEF FitPosted
  <2>2. FitBytes(f, Calling(f), Calling(f).buffer)
    <3>1. FitBytes(f, client[f], client[f].buffer) /\ client[f].buffer \in Seq(Byte)
      BY <1>3, <1>8, <1>11 DEF FitClient, ClientState
    <3>q. QED BY <1>1, <1>3, <1>4, <1>5, <3>1, FitBytesKept
  <2>3. \A k \in Live(f)' : FitLink(f, client[f], k)'
    BY <1>8, <1>9, <1>11
  <2>4. FitClient(f)'
    BY <1>2, <1>4, <2>1, <2>2, <2>3 DEF FitClient
  <2>q. QED BY <1>11, <2>4
<1>q. QED BY <1>10, <1>11

\* Steps of the server.
LEMMA ReadFits ==
  ASSUME Types, Types', Structure, Fits, NEW l \in Link, NEW n \in Nat, ServerMessage(l, n, Rest(l))
  PROVE  Fits'
<1> SUFFICES ASSUME stale' = {}, NEW g \in Client PROVE FitClient(g)'
  BY DEF Fits
<1> DEFINE out == Fed(l, n).out
           buffer == Fed(l, n).buffer
<1>1. /\ link[l].far = "up" /\ link[l].address \in Address /\ toServer[l] \in Seq(Byte) /\ n \in 1 .. Len(toServer[l])
      /\ Rest(l) \in Seq(Byte) /\ Piece(l, n) \in Seq(Byte) /\ After(toServer[l], n) \in Seq(Byte)
      /\ out \in Seq(Message) /\ buffer \in Seq(Byte)
      /\ decoder' = [decoder EXCEPT ![link[l].address] = buffer]
      /\ job' = job \cup {[link |-> l, request |-> out[k]] : k \in 1 .. Len(out)}
      /\ toServer' = [toServer EXCEPT ![l] = After(toServer[l], n)]
  BY FedFacts, Zenon
<1>2. UNCHANGED <<link, toClient, client, stale>>
  BY DEF ServerMessage
<1>3. FitClient(g) /\ Live(g)' = Live(g)
  BY <1>2 DEF Fits, Live
<1>4. client'[g] = client[g] /\ SameFit(client[g], client'[g]) /\ RowShrinks(client[g], client'[g])
  BY <1>2, SameFitSelf DEF Types, RowShrinks
<1>5. ASSUME client[g].pc # "leaving", NEW k \in Live(g), k # l PROVE FitLink(g, client[g], k)'
  <2>1. k \in Link /\ FitLink(g, client[g], k)
    BY <1>3, <1>5 DEF FitClient, Live
  <2>2. toServer'[k] = toServer[k]
    BY <1>1, <1>5, <2>1 DEF Types, NetworkTypes
  <2>3. ASSUME link[k].far = "up" PROVE decoder'[link[k].address] = decoder[link[k].address]
    <3>1. link[k].address # link[l].address /\ link[k].address \in Address
      BY <1>1, <1>5, <2>1, <2>3 DEF Structure, OwnAddress, Stages
    <3>q. QED BY <1>1, <3>1 DEF Types, ServerTypes
  <2>4. \A j \in job' : j.link = k => j \in job
    BY <1>1, <1>5
  <2>q. QED BY <1>2, <2>1, <2>2, <2>3, <2>4 DEF FitLink
<1>6. ASSUME client[g].pc # "leaving", l \in Live(g) PROVE FitLink(g, client[g], l)'
  <2>1. FitLink(g, client[g], l)
    BY <1>3, <1>6 DEF FitClient
  <2>2. FitBytes(g, client[g], toServer[l]) /\ FitBytes(g, client[g], toClient[l]) /\ FitBytes(g, client[g], Rest(l))
    BY <1>1, <2>1, FitEmpty DEF FitLink, Rest
  <2>3. FitBytes(g, client[g], After(toServer[l], n)) /\ FitBytes(g, client[g], Piece(l, n))
    <3>1. n \in 0 .. Len(toServer[l])
      BY <1>1
    <3>q. QED BY <1>1, <2>2, <3>1, FitParts DEF Piece
  <2>4. (\A k \in 1 .. Len(out) : Fit(g, client[g], out[k])) /\ FitBytes(g, client[g], buffer)
    <3>1. Fed(l, n) = Feed(Rest(l), Piece(l, n))
      BY DEF Fed
    <3>2. ASSUME NEW a \in Seq(Byte), NEW b \in Seq(Byte), NEW d, FitBytes(g, d, a), FitBytes(g, d, b)
          PROVE  /\ \A k \in 1 .. Len(Feed(a, b).out) : Fit(g, d, Feed(a, b).out[k])
                 /\ FitBytes(g, d, Feed(a, b).buffer)
      BY <3>2, FitFeed
    <3>3. /\ \A k \in 1 .. Len(Feed(Rest(l), Piece(l, n)).out) : Fit(g, client[g], Feed(Rest(l), Piece(l, n)).out[k])
          /\ FitBytes(g, client[g], Feed(Rest(l), Piece(l, n)).buffer)
      BY <1>1, <2>2, <2>3, <3>2, Zenon
    <3>q. QED BY <3>1, <3>3, Zenon
  <2> HIDE DEF out, buffer
  <2>5. toServer'[l] = After(toServer[l], n) /\ decoder'[link[l].address] = buffer
    BY <1>1 DEF Types, NetworkTypes, ServerTypes
  <2>6. ASSUME NEW j \in job', j.link = l PROVE Fit(g, client[g], j.request)
    <3>1. CASE j \in job
      BY <2>1, <2>6, <3>1 DEF FitLink
    <3>2. CASE j \notin job
      <4>1. PICK k \in 1 .. Len(out) : j = [link |-> l, request |-> out[k]]
        BY <1>1, <3>2
      <4>q. QED BY <2>4, <4>1
    <3>q. QED BY <3>1, <3>2
  <2>7. FitBytes(g, client[g], toServer'[l]) /\ FitBytes(g, client[g], decoder'[link[l].address])
    BY <2>3, <2>4, <2>5
  <2>q. QED BY <1>2, <2>2, <2>6, <2>7 DEF FitLink
<1>7. client'[g].pc # "leaving" => \A k \in Live(g)' : FitLink(g, client[g], k)'
  BY <1>3, <1>4, <1>5, <1>6
<1>q. QED BY <1>3, <1>4, <1>7, ShrinkClient

LEMMA WorkFits == ASSUME Types, Types', Structure, Fits, NEW j \in job, Work(j) PROVE Fits'
<1> SUFFICES ASSUME stale' = {}, NEW g \in Client PROVE FitClient(g)'
  BY DEF Fits
<1> DEFINE l == j.link
           m == j.request
<1>1. /\ l \in Link /\ m \in Message /\ job' = job \ {j}
      /\ \A k \in Link : toClient'[k] = toClient[k] \/ (k = l /\ toClient'[l] = toClient[l] \o Encode(Response(m)))
      /\ UNCHANGED <<link, toServer, client, decoder, received, submitted, stale>>
  <2>1. /\ l \in Link /\ job' = job \ {j}
        /\ \A k \in Link : toClient'[k] = toClient[k] \/ (k = l /\ toClient'[l] = toClient[l] \o Encode(Response(m)))
        /\ UNCHANGED <<link, toServer, client, decoder, received, submitted, stale>>
    BY WorkFacts, Zenon
  <2>2. m \in Message
    BY DEF Types, ServerTypes
  <2>q. QED BY <2>1, <2>2
<1>2. FitClient(g) /\ Live(g)' = Live(g)
  BY <1>1 DEF Fits, Live
<1>3. client'[g] = client[g] /\ SameFit(client[g], client'[g]) /\ RowShrinks(client[g], client'[g])
  BY <1>1, SameFitSelf DEF Types, RowShrinks
<1>4. ASSUME client[g].pc # "leaving", NEW k \in Live(g) PROVE FitLink(g, client[g], k)'
  <2>1. k \in Link /\ FitLink(g, client[g], k)
    BY <1>2, <1>4 DEF FitClient, Live
  <2>2. FitBytes(g, client[g], toClient'[k])
    <3>1. FitBytes(g, client[g], toClient[k]) /\ toClient[k] \in Seq(Byte)
      BY <2>1 DEF FitLink, Types, NetworkTypes
    <3>2. ASSUME k = l, toClient'[l] = toClient[l] \o Encode(Response(m)) PROVE FitBytes(g, client[g], toClient'[k])
      <4>1. Fit(g, client[g], m)
        BY <2>1, <3>2 DEF FitLink
      <4>2. Response(m) \in Message /\ Response(m).client = m.client /\ Response(m).call = m.call /\ Response(m).id = m.id
        BY <1>1 DEF Response, Message
      <4>3. Fit(g, client[g], Response(m))
        BY <4>1, <4>2 DEF Fit
      <4>4. FitBytes(g, client[g], Encode(Response(m))) /\ Encode(Response(m)) \in Seq(Byte)
        BY <4>2, <4>3, FitEncode, EncodeFacts
      <4> HIDE DEF m, l
      <4>q. QED BY <3>1, <3>2, <4>4, FitConcat
    <3>q. QED BY <1>1, <2>1, <3>1, <3>2
  <2>3. \A i \in job' : i \in job
    BY <1>1
  <2>q. QED BY <1>1, <2>1, <2>2, <2>3 DEF FitLink
<1>5. client'[g].pc # "leaving" => \A k \in Live(g)' : FitLink(g, client[g], k)'
  BY <1>2, <1>3, <1>4
<1>q. QED BY <1>2, <1>3, <1>5, ShrinkClient

LEMMA EffectFits == ASSUME Types, Types', Structure, Promises, Fits, Effect PROVE Fits'
BY SameFits, UpFits, DownFits, MessageFits, PostFits, CallFits, LocalFits, OpensFits, LeavesFits, ReadFits, WorkFits,
   AcceptsFits, CutFits DEF Effect

-----------------------------------------------------------------------------
(***************************************************************************)
(* Streams.                                                                *)
(***************************************************************************)
LEMMA BytesConcat ==
  ASSUME NEW s \in Seq(Byte), NEW t \in Seq(Byte), NEW u \in Seq(Byte)
  PROVE  (s \o t) \o u = s \o (t \o u)
BY ConcatAssociative, SMTT(30)

LEMMA TakeDrop ==
  ASSUME NEW S, NEW s \in Seq(S), NEW n \in 0 .. Len(s)
  PROVE  SubSeq(s, 1, n) \o After(s, n) = s
<1>1. Len(s) \in Nat
  OBVIOUS
<1>2. 1 \in 1 .. Len(s) + 1 /\ n \in 1 - 1 .. Len(s) /\ Len(s) \in n .. Len(s)
  BY <1>1
<1>3. SubSeq(s, 1, n) \o SubSeq(s, n + 1, Len(s)) = SubSeq(s, 1, Len(s))
  BY <1>2, ConcatAdjacentSubSeq
<1>4. SubSeq(s, 1, Len(s)) = s
  OBVIOUS
<1>q. QED BY <1>3, <1>4 DEF After

LEMMA AfterConcat ==
  ASSUME NEW S, NEW s \in Seq(S), NEW t \in Seq(S), NEW p \in 0 .. Len(s)
  PROVE  After(s, p) \o t = After(s \o t, p)
<1> DEFINE u == After(s, p)
           v == s \o t
           w == After(v, p)
<1>1. Len(s) \in Nat /\ Len(t) \in Nat
  OBVIOUS
<1>2. u \in Seq(S) /\ Len(u) = Len(s) - p /\ \A i \in 1 .. (Len(s) - p) : u[i] = s[p + i]
  BY AfterFacts
<1>3. /\ v \in Seq(S) /\ Len(v) = Len(s) + Len(t)
      /\ \A i \in 1 .. Len(s) : v[i] = s[i]
      /\ \A i \in 1 .. Len(t) : v[Len(s) + i] = t[i]
  BY ConcatAt
<1>9. u \in Seq(S)
  BY <1>2
<1> HIDE DEF u, v
<1>4. w \in Seq(S) /\ Len(w) = Len(v) - p /\ \A i \in 1 .. (Len(v) - p) : w[i] = v[p + i]
  <2>1. p \in 0 .. Len(v)
    BY <1>1, <1>3
  <2>q. QED BY <1>3, <2>1, AfterFacts
<1>5. /\ u \o t \in Seq(S) /\ Len(u \o t) = Len(u) + Len(t)
      /\ \A i \in 1 .. Len(u) : (u \o t)[i] = u[i]
      /\ \A i \in 1 .. Len(t) : (u \o t)[Len(u) + i] = t[i]
  BY <1>9, ConcatAt
<1> HIDE DEF w
<1>6. Len(u \o t) = Len(w) /\ Len(w) = Len(s) + Len(t) - p
  BY <1>1, <1>2, <1>3, <1>4, <1>5
<1>7. ASSUME NEW i \in 1 .. Len(w) PROVE (u \o t)[i] = w[i]
  <2>0. w[i] = v[p + i]
    BY <1>1, <1>3, <1>4, <1>6
  <2>1. CASE i <= Len(s) - p
    <3>1. p + i \in 1 .. Len(s) /\ i \in 1 .. (Len(s) - p) /\ i \in 1 .. Len(u)
      BY <1>1, <1>2, <2>1
    <3>q. QED BY <1>2, <1>3, <1>5, <2>0, <3>1
  <2>2. CASE ~ (i <= Len(s) - p)
    <3>1. i - (Len(s) - p) \in 1 .. Len(t) /\ Len(s) + (i - (Len(s) - p)) = p + i /\ Len(u) + (i - (Len(s) - p)) = i
      BY <1>1, <1>2, <1>6, <2>2
    <3>2. v[Len(s) + (i - (Len(s) - p))] = t[i - (Len(s) - p)]
      BY <1>3, <3>1
    <3>3. (u \o t)[Len(u) + (i - (Len(s) - p))] = t[i - (Len(s) - p)]
      BY <1>5, <3>1
    <3>q. QED BY <2>0, <3>1, <3>2, <3>3
  <2>q. QED BY <2>1, <2>2
<1>8. u \o t = w
  BY <1>4, <1>5, <1>6, <1>7, SeqEqual
<1>q. QED BY <1>8 DEF u, v, w

LEMMA AfterAfter ==
  ASSUME NEW S, NEW s \in Seq(S), NEW p \in Nat, NEW q \in Nat, p + q <= Len(s)
  PROVE  After(After(s, p), q) = After(s, p + q)
<1> DEFINE u == After(s, p)
           v == After(u, q)
           w == After(s, p + q)
<1>1. Len(s) \in Nat /\ p \in 0 .. Len(s) /\ p + q \in 0 .. Len(s)
  OBVIOUS
<1>2. u \in Seq(S) /\ Len(u) = Len(s) - p /\ \A i \in 1 .. (Len(s) - p) : u[i] = s[p + i]
  BY <1>1, AfterFacts
<1>3. w \in Seq(S) /\ Len(w) = Len(s) - (p + q) /\ \A i \in 1 .. (Len(s) - (p + q)) : w[i] = s[p + q + i]
  BY <1>1, AfterFacts
<1> HIDE DEF u, w
<1>4. v \in Seq(S) /\ Len(v) = Len(u) - q /\ \A i \in 1 .. (Len(u) - q) : v[i] = u[q + i]
  <2>1. q \in 0 .. Len(u)
    BY <1>1, <1>2
  <2>q. QED BY <1>2, <2>1, AfterFacts
<1> HIDE DEF v
<1>5. Len(v) = Len(w)
  BY <1>1, <1>2, <1>3, <1>4
<1>6. ASSUME NEW i \in 1 .. Len(v) PROVE v[i] = w[i]
  <2>1. i \in 1 .. (Len(u) - q) /\ i \in 1 .. (Len(s) - (p + q)) /\ q + i \in 1 .. (Len(s) - p) /\ p + (q + i) = p + q + i
    BY <1>1, <1>2, <1>4
  <2>2. v[i] = u[q + i] /\ u[q + i] = s[p + (q + i)]
    BY <1>2, <1>4, <2>1
  <2>3. w[i] = s[p + q + i]
    BY <1>3, <2>1
  <2>q. QED BY <2>1, <2>2, <2>3
<1>7. v = w
  BY <1>3, <1>4, <1>5, <1>6, SeqEqual
<1>q. QED BY <1>7 DEF u, v, w

\* Whole messages, and one more.
LEMMA FramedEmpty == Framed(Empty \o Empty)
<1> DEFINE none == Empty \o Empty
<1>1. Len(none) = 0
  BY EmptyTypes, ConcatAt
<1> HIDE DEF none
<1>2. Aligned(none)
  <2>1. ASSUME NEW k \in Nat, NEW j \in 1 .. 3 PROVE ~ (3 * k + j <= Len(none))
    BY <1>1
  <2>q. QED BY <2>1 DEF Aligned
<1>3. Len(none) = 3 * 0
  BY <1>1
<1>4. Framed(none)
  BY <1>2, <1>3 DEF Framed
<1>q. QED BY <1>4 DEF none

LEMMA FramedMore ==
  ASSUME NEW t \in Seq(Byte), NEW m \in Message, Framed(t)
  PROVE  Framed(t \o Encode(m))
<1> DEFINE e == Encode(m)
           u == t \o e
<1>1. e \in Seq(Byte) /\ Len(e) = 3 /\ e[1] = <<m, 1>> /\ e[2] = <<m, 2>> /\ e[3] = <<m, 3>>
  BY EncodeFacts, EncodedFrame
<1>2. PICK n \in Nat : Len(t) = 3 * n
  BY DEF Framed
<1>3. ASSUME NEW s \in Seq(Byte)
      PROVE  /\ Len(t \o s) = Len(t) + Len(s)
             /\ \A i \in 1 .. Len(t) : (t \o s)[i] = t[i]
             /\ \A i \in 1 .. Len(s) : (t \o s)[Len(t) + i] = s[i]
  BY ConcatAt
<1> HIDE DEF e
<1>4. /\ Len(u) = Len(t) + Len(e)
      /\ \A i \in 1 .. Len(t) : u[i] = t[i]
      /\ \A i \in 1 .. Len(e) : u[Len(t) + i] = e[i]
  BY <1>1, <1>3
<1> HIDE DEF u
<1>5. Len(u) = 3 * (n + 1)
  BY <1>1, <1>2, <1>4
<1>6. ASSUME NEW k \in Nat, NEW j \in 1 .. 3, 3 * k + j <= Len(u) PROVE u[3 * k + j] = <<u[3 * k + 1][1], j>>
  <2>1. CASE k < n
    <3>1. 3 * k + j \in 1 .. Len(t) /\ 3 * k + 1 \in 1 .. Len(t) /\ 3 * k + j <= Len(t)
      BY <1>2, <2>1
    <3>2. t[3 * k + j] = <<t[3 * k + 1][1], j>>
      BY <3>1 DEF Framed, Aligned
    <3>3. u[3 * k + j] = t[3 * k + j] /\ u[3 * k + 1] = t[3 * k + 1]
      BY <1>4, <3>1
    <3>q. QED BY <3>2, <3>3
  <2>2. CASE ~ (k < n)
    <3>1. k = n
      BY <1>5, <1>6, <2>2
    <3>2. 3 * k + j = Len(t) + j /\ 3 * k + 1 = Len(t) + 1
      BY <1>2, <3>1
    <3>3. \A i \in 1 .. 3 : i = 1 \/ i = 2 \/ i = 3
      OBVIOUS
    <3>4. \A i \in 1 .. 3 : e[i] = <<m, i>>
      BY <1>1, <3>3
    <3>5. \A i \in 1 .. 3 : u[Len(t) + i] = e[i]
      BY <1>1, <1>4, Zenon
    <3>6. u[Len(t) + j] = <<m, j>> /\ u[Len(t) + 1] = <<m, 1>>
      BY <3>4, <3>5
    <3>q. QED BY <3>2, <3>6
  <2>q. QED BY <2>1, <2>2
<1>7. Framed(u)
  <2>1. n + 1 \in Nat
    OBVIOUS
  <2>q. QED BY <1>5, <1>6, <2>1 DEF Framed, Aligned
<1>q. QED BY <1>7 DEF u, e

LEMMA AlignedParts ==
  ASSUME NEW t \in Seq(Byte), NEW u \in Seq(Byte), Aligned(t \o u), NEW k \in Nat, 3 * k <= Len(t)
  PROVE  Aligned(t) /\ Aligned(After(t, 3 * k))
<1>1. Len(t) \in Nat /\ Len(u) \in Nat
  OBVIOUS
<1>2. Len(t \o u) = Len(t) + Len(u) /\ \A i \in 1 .. Len(t) : (t \o u)[i] = t[i]
  BY ConcatAt
<1>3. Aligned(t)
  <2>1. ASSUME NEW i \in Nat, NEW j \in 1 .. 3, 3 * i + j <= Len(t) PROVE t[3 * i + j] = <<t[3 * i + 1][1], j>>
    <3>1. 3 * i + j <= Len(t \o u) /\ 3 * i + j \in 1 .. Len(t) /\ 3 * i + 1 \in 1 .. Len(t)
      BY <1>1, <1>2, <2>1
    <3>2. (t \o u)[3 * i + j] = <<(t \o u)[3 * i + 1][1], j>>
      BY <3>1 DEF Aligned
    <3>3. (t \o u)[3 * i + j] = t[3 * i + j] /\ (t \o u)[3 * i + 1] = t[3 * i + 1]
      BY <1>2, <3>1
    <3>q. QED BY <3>2, <3>3
  <2>q. QED BY <2>1 DEF Aligned
<1> DEFINE v == After(t, 3 * k)
<1>4. Len(v) = Len(t) - 3 * k /\ \A i \in 1 .. (Len(t) - 3 * k) : v[i] = t[3 * k + i]
  <2>1. 3 * k \in 0 .. Len(t)
    BY <1>1
  <2>q. QED BY <2>1, AfterFacts
<1> HIDE DEF v
<1>5. Aligned(v)
  <2>1. ASSUME NEW i \in Nat, NEW j \in 1 .. 3, 3 * i + j <= Len(v) PROVE v[3 * i + j] = <<v[3 * i + 1][1], j>>
    <3>1. /\ 3 * i + j \in 1 .. (Len(t) - 3 * k) /\ 3 * i + 1 \in 1 .. (Len(t) - 3 * k)
          /\ 3 * k + (3 * i + j) = 3 * (k + i) + j /\ 3 * k + (3 * i + 1) = 3 * (k + i) + 1
          /\ 3 * (k + i) + j <= Len(t) /\ k + i \in Nat
      BY <1>1, <1>4, <2>1
    <3>2. v[3 * i + j] = t[3 * k + (3 * i + j)] /\ v[3 * i + 1] = t[3 * k + (3 * i + 1)]
      BY <1>4, <3>1
    <3>3. t[3 * (k + i) + j] = <<t[3 * (k + i) + 1][1], j>>
      BY <1>3, <3>1 DEF Aligned
    <3>q. QED BY <3>1, <3>2, <3>3
  <2>q. QED BY <2>1 DEF Aligned
<1>q. QED BY <1>3, <1>5 DEF v

\* The number of whole messages in so many bytes.
LEMMA Thirds == ASSUME NEW n \in Nat PROVE \E c \in Nat : 3 * c <= n /\ n < 3 * c + 3
<1>1. n \div 3 \in Nat /\ 3 * (n \div 3) <= n /\ n < 3 * (n \div 3) + 3
  OBVIOUS
<1>q. QED BY <1>1

LEMMA SameStreams ==
  ASSUME Streams, \A k \in Link : link'[k].far = link[k].far, \A k \in Link : link[k].far = "up" => link'[k].address = link[k].address,
         UNCHANGED <<toServer, decoder, received, submitted, stale>>
  PROVE  Streams'
BY DEF Streams, Stream, Kept, Rest

LEMMA PostStreams == ASSUME Types, Structure, Streams, NEW f \in Client, Post(f) PROVE Streams'
<1> DEFINE l == client[f].connection
           m == Head(client[f].posted)
<1>1. /\ m \in Message /\ UNCHANGED <<link, toClient, server>>
      /\ \/ toServer' = toServer
         \/ /\ l \in Link /\ link[l].far # "down"
            /\ toServer' = [toServer EXCEPT ![l] = toServer[l] \o Encode(m)]
  BY PostedFacts, Zenon
<1> HIDE DEF m, l
<1>2. ASSUME NEW k \in Link \ stale, Stream(k), toServer'[k] = toServer[k] PROVE Stream(k)'
  BY <1>1, <1>2 DEF Stream, Kept, Rest, server
<1>3. ASSUME l \in Link \ stale, toServer'[l] = toServer[l] \o Encode(m), link[l].far # "down", Stream(l)
      PROVE  \A k \in Link : k = l => Stream(k)'
  <2>1. received[l] \in Seq(Byte) /\ toServer[l] \in Seq(Byte) /\ Encode(m) \in Seq(Byte) /\ link[l].far \in {"no", "up"}
    BY <1>1, <1>3, EncodeFacts DEF Types, NetworkTypes, ServerTypes, LinkState
  <2>2. received[l] \o toServer[l] \in Seq(Byte) /\ Framed(received[l] \o toServer[l])
    BY <1>3, <2>1, ConcatAt DEF Stream
  <2>3. Framed((received[l] \o toServer[l]) \o Encode(m))
    BY <1>1, <2>2, FramedMore
  <2>4. (received[l] \o toServer[l]) \o Encode(m) = received[l] \o toServer'[l]
    <3>2. (received[l] \o toServer[l]) \o Encode(m) = received[l] \o (toServer[l] \o Encode(m))
      BY <2>1, BytesConcat
    <3>q. QED BY <1>3, <3>2, Zenon
  <2>5. Framed(received[l] \o toServer'[l])
    BY <2>3, <2>4
  <2>q. QED BY <1>1, <1>3, <2>5 DEF Stream, Kept, Rest, server
<1>4. ASSUME NEW k \in (Link \ stale)' PROVE Stream(k)'
  <2>1. k \in Link \ stale /\ Stream(k)
    BY <1>1, <1>4 DEF Streams, server
  <2>2. CASE toServer'[k] = toServer[k]
    BY <1>2, <2>1, <2>2
  <2>3. CASE toServer'[k] # toServer[k]
    <3>1. k = l /\ toServer'[l] = toServer[l] \o Encode(m) /\ link[l].far # "down"
      BY <1>1, <2>1, <2>3 DEF Types, NetworkTypes
    <3>q. QED BY <1>3, <2>1, <3>1
  <2>q. QED BY <2>2, <2>3
<1>q. QED BY <1>4 DEF Streams

LEMMA AcceptsStreams == ASSUME Types, Structure, Streams, NEW l \in Link, NEW a \in Address, Accepts(l, a) PROVE Streams'
<1>1. /\ link[l].far = "no"
      /\ \A k \in Link : /\ link'[k].far = IF k = l THEN "up" ELSE link[k].far
                         /\ link'[k].address = IF k = l THEN a ELSE link[k].address
      /\ \A k \in Link : link[k].far = "up" => link[k].address # a
      /\ \A b \in Address : decoder'[b] = decoder[b] \/ (b = a /\ decoder'[b] = Empty)
      /\ (decoder'[a] \in {None, Empty} /\ stale' = stale) \/ (stale' = stale \cup {l} /\ decoder' = decoder)
      /\ UNCHANGED <<toServer, toClient, client, job, done, received, submitted>>
  BY AcceptsFacts
<1>2. ASSUME NEW k \in (Link \ stale)' PROVE Stream(k)'
  <2>1. k \in Link \ stale /\ Stream(k)
    BY <1>1, <1>2 DEF Streams
  <2>2. CASE k # l
    <3>1. link'[k].far = link[k].far /\ link'[k].address = link[k].address
      BY <1>1, <2>1, <2>2
    <3>2. link[k].far = "up" => decoder'[link[k].address] = decoder[link[k].address]
      BY <1>1, <2>1 DEF Structure, Stages
    <3>q. QED BY <1>1, <2>1, <3>1, <3>2 DEF Stream, Kept, Rest
  <2>3. CASE k = l
    <3>1. link'[k].far = "up" /\ link'[k].address = a /\ decoder'[a] \in {None, Empty}
      BY <1>1, <1>2, <2>3
    <3>2. received[k] = Empty /\ submitted[k] = <<>> /\ link[k].far = "no"
      BY <1>1, <2>3 DEF Structure, Stages
    <3>3. Framed(received[k] \o toServer[k])
      BY <2>1, <3>2 DEF Stream
    <3>4. After(Empty, 3 * Len(Empty)) = Empty /\ Len(Empty) = 0 /\ \A i \in 1 .. Len(Empty) : FALSE
      <4>1. Empty \in Seq(Byte) /\ Len(Empty) = 0
        BY EmptyTypes
      <4>3. After(Empty, 0) = Empty
        BY DEF After, Empty
      <4>q. QED BY <4>1, <4>3
    <3>5. Kept(k)'
      <4>1. decoder'[link'[k].address] = None \/ decoder'[link'[k].address] = Empty
        BY <3>1
      <4>2. Rest(k)' = Empty
        BY <4>1 DEF Rest
      <4>3. received'[k] = Empty /\ submitted'[k] = Empty
        BY <1>1, <3>2 DEF Empty
      <4>q. QED BY <3>4, <4>2, <4>3 DEF Kept, Keeps
    <3>q. QED BY <1>1, <3>3, <3>5 DEF Stream
  <2>q. QED BY <2>2, <2>3
<1>q. QED BY <1>2 DEF Streams

LEMMA CutStreams == ASSUME Types, Structure, Streams, NEW D \in SUBSET Link, Cut(D) PROVE Streams'
<1>1. /\ \A k \in Link : /\ link'[k].far = IF k \in D THEN "down" ELSE link[k].far
                         /\ link'[k].address = link[k].address
      /\ \A k \in Link : toServer'[k] = IF k \in D THEN Empty ELSE toServer[k]
      /\ \A a \in Address :
           \/ decoder'[a] = decoder[a]
           \/ decoder'[a] = None /\ \E l \in D : link[l].address = a /\ link[l].far # "down"
      /\ UNCHANGED <<toClient, client, done, received, submitted, stale>>
  BY CutFacts
<1>2. ASSUME NEW k \in (Link \ stale)' PROVE Stream(k)'
  <2>1. k \in Link \ stale /\ Stream(k)
    BY <1>1, <1>2 DEF Streams
  <2>2. CASE k \in D
    BY <1>1, <2>1, <2>2 DEF Stream
  <2>3. CASE k \notin D
    <3>1. link'[k].far = link[k].far /\ link'[k].address = link[k].address /\ toServer'[k] = toServer[k]
      BY <1>1, <2>1, <2>3
    <3>2. ASSUME link[k].far = "up" PROVE decoder'[link[k].address] = decoder[link[k].address]
      <4>1. link[k].address \in Address
        BY <2>1, <3>2 DEF Structure, Stages
      <4>2. ASSUME NEW l \in D, link[l].address = link[k].address, link[l].far # "down" PROVE FALSE
        <5>1. l \in Link /\ link[l].far \in {"no", "up"}
          BY <4>2 DEF Types, NetworkTypes, LinkState
        <5>2. link[l].far = "up"
          BY <4>1, <4>2, <5>1, NoneIsNone DEF Structure, Stages
        <5>q. QED BY <2>1, <2>3, <3>2, <4>2, <5>1, <5>2 DEF Structure, OwnAddress
      <4>q. QED BY <1>1, <4>1, <4>2
    <3>q. QED BY <1>1, <2>1, <3>1, <3>2 DEF Stream, Kept, Rest
  <2>q. QED BY <2>2, <2>3
<1>q. QED BY <1>2 DEF Streams

LEMMA FeedWholeBytes ==
  ASSUME NEW b \in Seq(Byte), NEW p \in Seq(Byte), Aligned(b \o p),
         NEW c \in Nat, 3 * c <= Len(b \o p), Len(b \o p) < 3 * c + 3
  PROVE  Whole(b \o p, c, Feed(b, p), Message)
BY FeedWhole DEF Byte

\* What OnMessage submits and keeps of a stream of whole messages.
LEMMA ReadKept ==
  ASSUME NEW old \in Seq(Byte), NEW piece \in Seq(Byte), NEW rest \in Seq(Byte), NEW done0 \in Seq(Message),
         Aligned(old \o piece), Keeps(old, rest, done0)
  PROVE  Keeps(old \o piece, Feed(rest, piece).buffer, done0 \o Feed(rest, piece).out)
<1> DEFINE n == Len(done0)
           all == old \o piece
           part == rest \o piece
           out == Feed(rest, piece).out
           now == done0 \o out
<1>0. /\ 3 * n <= Len(old) /\ Len(old) < 3 * n + 3 /\ rest = After(old, 3 * n)
      /\ \A k \in 1 .. n : done0[k] = old[3 * (k - 1) + 1][1]
  BY DEF Keeps
<1>1. n \in Nat /\ Len(old) \in Nat /\ Len(piece) \in Nat /\ 3 * n \in 0 .. Len(old)
  BY <1>0
<1>2. /\ all \in Seq(Byte) /\ Len(all) = Len(old) + Len(piece)
      /\ \A i \in 1 .. Len(old) : all[i] = old[i]
  BY ConcatAt
<1>3. part = After(all, 3 * n)
  BY <1>0, <1>1, AfterConcat
<1>4. part \in Seq(Byte)
  BY ConcatAt
<1>5. Aligned(all)
  OBVIOUS
<1> HIDE DEF all
<1>6. 3 * n \in 0 .. Len(all)
  BY <1>1, <1>2
<1>7. Len(part) = Len(all) - 3 * n /\ \A i \in 1 .. (Len(all) - 3 * n) : part[i] = all[3 * n + i]
  <2> HIDE DEF part, n
  <2>q. QED BY <1>2, <1>3, <1>6, AfterFacts
<1>8. Aligned(part)
  <2>1. Empty \in Seq(Byte) /\ all \o Empty = all
    BY <1>2, EmptyTypes, ConcatEmptySeq DEF Empty
  <2>2. Aligned(all \o Empty) /\ 3 * n <= Len(all)
    BY <1>5, <1>6, <2>1
  <2> HIDE DEF part, n
  <2>q. QED BY <1>1, <1>2, <1>3, <2>1, <2>2, AlignedParts
<1>9. Len(part) \in Nat
  BY <1>4
<1>10. PICK c \in Nat : 3 * c <= Len(part) /\ Len(part) < 3 * c + 3
  <2> HIDE DEF part
  <2>q. QED BY <1>9, Thirds
<1>11. /\ out \in Seq(Message) /\ Len(out) = c
       /\ \A k \in 1 .. c : out[k] = part[3 * (k - 1) + 1][1]
       /\ Feed(rest, piece).buffer = After(part, 3 * c)
  BY <1>8, <1>10, FeedWholeBytes DEF Whole
<1> HIDE DEF part, out
<1>12. /\ Len(now) = n + Len(out)
       /\ \A i \in 1 .. n : now[i] = done0[i]
       /\ \A i \in 1 .. Len(out) : now[n + i] = out[i]
  <2>1. out \in Seq(Message)
    BY <1>11
  <2>q. QED BY <2>1, ConcatAt
<1> HIDE DEF now
<1>13. Len(now) = n + c
  BY <1>11, <1>12
<1>14. 3 * Len(now) <= Len(all) /\ Len(all) < 3 * Len(now) + 3
  BY <1>1, <1>2, <1>7, <1>10, <1>13
<1>15. ASSUME NEW k \in 1 .. Len(now) PROVE now[k] = all[3 * (k - 1) + 1][1]
  <2>1. CASE k <= n
    <3>1. k \in 1 .. n /\ 3 * (k - 1) + 1 \in 1 .. Len(old)
      BY <1>1, <1>13, <2>1
    <3>2. now[k] = done0[k] /\ done0[k] = old[3 * (k - 1) + 1][1]
      BY <1>0, <1>12, <3>1
    <3>q. QED BY <1>2, <3>1, <3>2
  <2>2. CASE ~ (k <= n)
    <3>1. k - n \in 1 .. c /\ n + (k - n) = k /\ 3 * (k - n - 1) + 1 \in 1 .. (Len(all) - 3 * n)
          /\ 3 * n + (3 * (k - n - 1) + 1) = 3 * (k - 1) + 1
      BY <1>1, <1>2, <1>7, <1>10, <1>13, <2>2
    <3>2. now[n + (k - n)] = out[k - n]
      BY <1>11, <1>12, <3>1
    <3>3. out[k - n] = part[3 * (k - n - 1) + 1][1]
      BY <1>11, <3>1
    <3>4. part[3 * (k - n - 1) + 1] = all[3 * n + (3 * (k - n - 1) + 1)]
      BY <1>7, <3>1
    <3>q. QED BY <3>1, <3>2, <3>3, <3>4
  <2>q. QED BY <2>1, <2>2
<1>16. Feed(rest, piece).buffer = After(all, 3 * Len(now))
  <2>1. 3 * n \in Nat /\ 3 * c \in Nat /\ 3 * n + 3 * c <= Len(all) /\ 3 * n + 3 * c = 3 * Len(now)
    BY <1>1, <1>2, <1>7, <1>10, <1>13
  <2>2. After(After(all, 3 * n), 3 * c) = After(all, 3 * n + 3 * c)
    <3> HIDE DEF n
    <3>q. QED BY <1>2, <2>1, AfterAfter
  <2>q. QED BY <1>3, <1>11, <2>1, <2>2
<1>17. /\ 3 * Len(now) <= Len(all) /\ Len(all) < 3 * Len(now) + 3
       /\ \A k \in 1 .. Len(now) : now[k] = all[3 * (k - 1) + 1][1]
       /\ Feed(rest, piece).buffer = After(all, 3 * Len(now))
  BY <1>14, <1>15, <1>16
<1>q. QED BY <1>17 DEF now, all, out, Keeps

LEMMA ReadStreams ==
  ASSUME Types, Structure, Streams, NEW l \in Link, NEW n \in Nat, ServerMessage(l, n, Rest(l))
  PROVE  Streams'
<1>1. /\ link[l].far = "up" /\ link[l].address \in Address /\ toServer[l] \in Seq(Byte) /\ n \in 1 .. Len(toServer[l])
      /\ Rest(l) \in Seq(Byte) /\ Piece(l, n) \in Seq(Byte) /\ After(toServer[l], n) \in Seq(Byte)
      /\ Fed(l, n).out \in Seq(Message) /\ Fed(l, n).buffer \in Seq(Byte)
      /\ decoder' = [decoder EXCEPT ![link[l].address] = Fed(l, n).buffer]
      /\ received' = [received EXCEPT ![l] = received[l] \o Piece(l, n)]
      /\ submitted' = [submitted EXCEPT ![l] = submitted[l] \o Fed(l, n).out]
      /\ toServer' = [toServer EXCEPT ![l] = After(toServer[l], n)]
  BY FedFacts, Zenon
<1>2. UNCHANGED <<link, stale>>
  BY DEF ServerMessage
<1>3. ASSUME NEW k \in Link \ stale, k # l, Stream(k) PROVE Stream(k)'
  <2>1. toServer'[k] = toServer[k] /\ received'[k] = received[k] /\ submitted'[k] = submitted[k]
    BY <1>1, <1>3 DEF Types, NetworkTypes, ServerTypes
  <2>2. link[k].far = "up" => decoder'[link[k].address] = decoder[link[k].address]
    BY <1>1, <1>3 DEF Types, ServerTypes, Structure, OwnAddress, Stages
  <2>q. QED BY <1>2, <1>3, <2>1, <2>2 DEF Stream, Kept, Rest
<1>4. /\ toServer'[l] = After(toServer[l], n) /\ received'[l] = received[l] \o Piece(l, n)
      /\ submitted'[l] = submitted[l] \o Fed(l, n).out /\ decoder'[link[l].address] = Fed(l, n).buffer
  BY <1>1 DEF Types, NetworkTypes, ServerTypes
<1>5. received[l] \in Seq(Byte) /\ submitted[l] \in Seq(Message)
  BY DEF Types, ServerTypes
<1>6. received'[l] \o toServer'[l] = received[l] \o toServer[l]
  <2>1. Piece(l, n) \o After(toServer[l], n) = toServer[l]
    <3>1. n \in 0 .. Len(toServer[l])
      BY <1>1
    <3>q. QED BY <1>1, <3>1, TakeDrop DEF Piece
  <2>3. (received[l] \o Piece(l, n)) \o After(toServer[l], n) = received[l] \o (Piece(l, n) \o After(toServer[l], n))
    <3>1. received[l] \in Seq(Byte) /\ Piece(l, n) \in Seq(Byte) /\ After(toServer[l], n) \in Seq(Byte)
      BY <1>1, <1>5
    <3>q. QED BY <3>1, BytesConcat
  <2>q. QED BY <1>4, <2>1, <2>3, Zenon
<1>7. ASSUME Stream(l) PROVE Stream(l)'
  <2>1. Framed(received[l] \o toServer[l]) /\ Kept(l)
    BY <1>1, <1>7 DEF Stream
  <2>2. received'[l] \in Seq(Byte)
    BY <1>1, <1>4, <1>5, ConcatAt
  <2>3. Aligned(received'[l])
    <3>1. Aligned(received'[l] \o toServer'[l]) /\ toServer'[l] \in Seq(Byte)
      BY <1>1, <1>4, <1>6, <2>1 DEF Framed
    <3>2. 3 * 0 <= Len(received'[l])
      BY <2>2
    <3>q. QED BY <2>2, <3>1, <3>2, AlignedParts
  <2>4. Keeps(received'[l], Fed(l, n).buffer, submitted'[l])
    <3>1. Keeps(received[l], Rest(l), submitted[l])
      BY <2>1 DEF Kept
    <3>2. Aligned(received[l] \o Piece(l, n))
      BY <1>4, <2>3
    <3>3. Keeps(received[l] \o Piece(l, n), Feed(Rest(l), Piece(l, n)).buffer, submitted[l] \o Feed(Rest(l), Piece(l, n)).out)
      BY <1>1, <1>5, <3>1, <3>2, ReadKept
    <3>q. QED BY <1>4, <3>3 DEF Fed
  <2>5. Rest(l)' = Fed(l, n).buffer
    <3>1. Fed(l, n).buffer # None
      BY <1>1, NoneIsNone
    <3>q. QED BY <1>2, <1>4, <3>1 DEF Rest
  <2>6. Kept(l)'
    BY <2>4, <2>5 DEF Kept
  <2>7. Framed(received'[l] \o toServer'[l])
    BY <1>6, <2>1
  <2>q. QED BY <2>6, <2>7 DEF Stream
<1>8. ASSUME NEW k \in (Link \ stale)' PROVE Stream(k)'
  <2>1. k \in Link \ stale /\ Stream(k)
    BY <1>2, <1>8 DEF Streams
  <2>q. QED BY <1>3, <1>7, <2>1
<1>q. QED BY <1>8 DEF Streams

LEMMA EffectStreams == ASSUME Types, Structure, Streams, Effect PROVE Streams'
<1>1. ASSUME NEW l \in Link, ClientUp(l) PROVE Streams'
  BY <1>1, UpFacts, SameStreams DEF SameButNear, server
<1>2. ASSUME NEW l \in Link, ClientDown(l) PROVE Streams'
  BY <1>2, DownFacts, SameStreams DEF SameButNear, server
<1>3. ASSUME NEW l \in Link, NEW n \in Nat, ClientMessage(l, n) PROVE Streams'
  BY <1>3, SameStreams DEF ClientMessage, server
<1>4. ASSUME UNCHANGED <<network, server>> PROVE Streams'
  BY <1>4, SameStreams DEF network, server
<1>5. ASSUME NEW f \in Client, StartCall(f) PROVE Streams'
  BY <1>4, <1>5 DEF StartCall
<1>6. ASSUME NEW f \in Client, NEW r \in ClientState, Local(f, r) PROVE Streams'
  BY <1>4, <1>6 DEF Local
<1>7. ASSUME NEW f \in Client, NEW r \in ClientState, NEW host \in Instances \cup {None}, Opens(f, host, r) PROVE Streams'
  <2>1. PICK new \in Link :
          /\ link[new].near = "no" /\ link'[new].far = "no"
          /\ \A l \in Link \ {new} : SameButNear(link[l], link'[l])
          /\ UNCHANGED <<toServer, toClient, server>>
    BY <1>7, OpensFacts
  <2>2. link[new].far = "no"
    BY <2>1 DEF Structure, Stages
  <2>3. \A k \in Link : link'[k].far = link[k].far /\ (link[k].far = "up" => link'[k].address = link[k].address)
    BY <2>1, <2>2 DEF SameButNear
  <2>q. QED BY <2>1, <2>3, SameStreams DEF server
<1>8. ASSUME NEW f \in Client, NEW r \in ClientState, Leaves(f, r) PROVE Streams'
  BY <1>8, LeavesFacts, SameStreams DEF SameButNear, server
<1>9. ASSUME NEW j \in job, Work(j) PROVE Streams'
  BY <1>9, SameStreams DEF Work
<1>q. QED BY <1>1, <1>2, <1>3, <1>4, <1>5, <1>6, <1>7, <1>8, <1>9, PostStreams, ReadStreams, AcceptsStreams, CutStreams DEF Effect
-----------------------------------------------------------------------------
(***************************************************************************)
(* Every step of the two paths is one of the steps above.                  *)
(***************************************************************************)
\* A client object with another pc, other promises and another answer.
Edited(c, x, m, p) == [c EXCEPT !.pc = x, !.answer = m, !.pending = p]

Edits(f, x, m, p) ==
  /\ x \in {"idle", "connecting", "waiting", "expired", "returned"} /\ m \in {None, client[f].answer}
  /\ p \in SUBSET (Nat \X Nat) /\ p \subseteq {<<client[f].next - 1, client[f].calls>>}
  /\ p # {} => x \in {"waiting", "expired"} /\ m = None
  /\ x = "waiting" /\ m = None => p # {}
  /\ client[f].pc = "leaving" => Live(f) = {}

LEMMA LocalEdit ==
  ASSUME Types, NEW f \in Client, NEW x, NEW p, NEW m, Edits(f, x, m, p),
         client' = [client EXCEPT ![f] = Edited(client[f], x, m, p)],
         UNCHANGED <<network, server>>
  PROVE  Effect
<1>1. client[f] \in ClientState
  BY DEF Types
<1>0. /\ x \in {"idle", "connecting", "waiting", "expired", "returned"} /\ m \in Message \cup {None}
      /\ p \in SUBSET (Nat \X Nat)
  BY <1>1 DEF Edits, ClientState
<1> DEFINE r == Edited(client[f], x, m, p)
<1>2. /\ r \in ClientState /\ r.pc = x /\ r.answer = m /\ r.pending = p
      /\ r.calls = client[f].calls /\ r.next = client[f].next /\ r.connection = client[f].connection
      /\ r.posted = client[f].posted /\ r.buffer = client[f].buffer
  BY <1>0, <1>1 DEF ClientState, Edited
<1>3. client' = [client EXCEPT ![f] = r]
  OBVIOUS
<1> HIDE DEF r
<1>4. Promise(r)
  BY <1>2 DEF Promise, Edits
<1>5. Local(f, r)
  BY <1>2, <1>3, <1>4 DEF Local, Edits
<1>q. QED BY <1>2, <1>5 DEF Effect

LEMMA ExpireEffect == ASSUME Types, Promises, NEW f \in Client, Expire(f) PROVE Effect
<1>1. client[f] \in ClientState /\ Promise(client[f])
  BY DEF Types, Promises
<1>2. client[f].pc = "waiting" /\ client[f].answer = None /\ UNCHANGED <<network, server>>
      /\ client' = [client EXCEPT ![f].pc = "expired"]
  BY DEF Expire
<1>3. [client[f] EXCEPT !.pc = "expired"] =
        [client[f] EXCEPT !.pc = "expired", !.answer = client[f].answer, !.pending = client[f].pending]
  BY <1>1 DEF ClientState
<1>4. Edits(f, "expired", client[f].answer, client[f].pending)
  BY <1>1, <1>2 DEF ClientState, Promise, Edits
<1>5. client' = [client EXCEPT ![f] = Edited(client[f], "expired", client[f].answer, client[f].pending)]
  BY <1>2, <1>3, Zenon DEF Edited
<1>q. QED BY <1>2, <1>4, <1>5, LocalEdit

LEMMA WithdrawEffect ==
  ASSUME Types, Promises, NEW f \in Client, NEW x \in {"idle", "returned"}, Withdraw(f, x)
  PROVE  Effect
<1>1. client[f] \in ClientState /\ Promise(client[f])
  BY DEF Types, Promises
<1>2. client[f].pc = "expired" /\ UNCHANGED <<network, server>>
      /\ client' = [client EXCEPT ![f] = [client[f] EXCEPT !.pc = x, !.answer = None,
                      !.pending = {p \in client[f].pending : p[1] # client[f].next - 1}]]
  BY DEF Withdraw
<1>3. {p \in client[f].pending : p[1] # client[f].next - 1} = {}
  BY <1>1 DEF Promise
<1>4. client' = [client EXCEPT ![f] = Edited(client[f], x, None, {})]
  BY <1>2, <1>3, Zenon DEF Edited
<1>5. Edits(f, x, None, {})
  BY <1>2 DEF Edits
<1>q. QED BY <1>2, <1>4, <1>5, LocalEdit

LEMMA ReturnEffect ==
  ASSUME Types, Promises, NEW f \in Client, NEW x \in {"idle", "returned"}, Return(f, x)
  PROVE  Effect
<1>1. client[f] \in ClientState /\ Promise(client[f])
  BY DEF Types, Promises
<1>2. client[f].pc = "waiting" /\ client[f].answer # None /\ UNCHANGED <<network, server>>
      /\ client' = [client EXCEPT ![f] = [client[f] EXCEPT !.pc = x, !.answer = None]]
  BY DEF Return
<1>3. client[f].pending = {}
  BY <1>1, <1>2 DEF Promise
<1>4. [client[f] EXCEPT !.pc = x, !.answer = None] = [client[f] EXCEPT !.pc = x, !.answer = None, !.pending = {}]
  BY <1>1, <1>3 DEF ClientState
<1>5. client' = [client EXCEPT ![f] = Edited(client[f], x, None, {})]
  BY <1>2, <1>4, Zenon DEF Edited
<1>6. Edits(f, x, None, {})
  BY <1>2 DEF Edits
<1>q. QED BY <1>2, <1>5, <1>6, LocalEdit

\* A caller without a promise goes on.
LEMMA PcEffect ==
  ASSUME Types, Promises, NEW f \in Client, NEW x \in {"idle", "returned"},
         client[f].pc \in {"connecting", "leaving"}, client' = [client EXCEPT ![f].pc = x],
         client[f].pc = "leaving" => Live(f) = {}, UNCHANGED <<network, server>>
  PROVE  Effect
<1>1. client[f] \in ClientState /\ Promise(client[f])
  BY DEF Types, Promises
<1>2. client[f].pending = {}
  BY <1>1 DEF Promise
<1>3. [client[f] EXCEPT !.pc = x] = [client[f] EXCEPT !.pc = x, !.answer = client[f].answer, !.pending = {}]
  BY <1>1, <1>2 DEF ClientState
<1>4. client' = [client EXCEPT ![f] = Edited(client[f], x, client[f].answer, {})]
  BY <1>3, Zenon DEF Edited
<1>5. Edits(f, x, client[f].answer, {})
  BY DEF Edits
<1>q. QED BY <1>4, <1>5, LocalEdit

LEMMA LoopsEffect == ASSUME Types, Promises, Loops PROVE Effect
<1>1. ASSUME NEW l \in Link, ClientUp(l) \/ ClientDown(l) PROVE Effect
  BY <1>1 DEF Effect
<1>2. ASSUME NEW l \in Link, NEW n \in 1 .. Len(toClient[l]), ClientMessage(l, n) PROVE Effect
  <2>1. n \in Nat
    OBVIOUS
  <2>q. QED BY <1>2, <2>1 DEF Effect
<1>3. ASSUME NEW f \in Client, Post(f) PROVE Effect
  BY <1>3 DEF Effect
<1>q. QED BY <1>1, <1>2, <1>3, ExpireEffect DEF Loops

LEMMA HangupCut ==
  ASSUME Types, Structure, NEW l \in Link, Hangup(l), decoder' \in [Address -> Seq(Byte) \cup {None}],
         \A a \in Address : decoder'[a] = decoder[a] \/ (decoder'[a] = None /\ link[l].address = a),
         job' \in SUBSET job,
         UNCHANGED <<toClient, client, done, received, submitted, stale>>
  PROVE  Effect
<1>1. link[l].far = "up" /\ link' = [link EXCEPT ![l].far = "down"] /\ toServer' = [toServer EXCEPT ![l] = Empty]
  BY DEF Hangup
<1>2. link \in [Link -> LinkState] /\ toServer \in [Link -> Seq(Byte)]
  BY DEF Types, NetworkTypes
<1>3. link[l].near \notin {"no", "opening", "gone"}
  BY <1>1 DEF Structure, Stages
<1>4. link' = [k \in Link |-> IF k \in {l} THEN [link[k] EXCEPT !.far = "down"] ELSE link[k]]
  BY <1>1, <1>2
<1>5. toServer' = [k \in Link |-> IF k \in {l} THEN Empty ELSE toServer[k]]
  BY <1>1, <1>2
<1>6. \A a \in Address :
        \/ decoder'[a] = decoder[a]
        \/ decoder'[a] = None /\ \E k \in {l} : link[k].address = a /\ link[k].far # "down"
  BY <1>1
<1>7. Cut({l})
  BY <1>3, <1>4, <1>5, <1>6 DEF Cut
<1>q. QED BY <1>7 DEF Effect

LEMMA StepEffect ==
  ASSUME UNCHANGED <<network, client, server>>
  PROVE  Effect
BY DEF Effect

LEMMA StartEffect ==
  ASSUME NEW f \in Client, client[f].pc \in {"idle", "connecting"}, StartCall(f)
  PROVE  Effect
BY DEF Effect

LEMMA WorkEffect == ASSUME NEW j \in job, Work(j) PROVE Effect
BY DEF Effect

LEMMA ReadEffect ==
  ASSUME NEW l \in Link, NEW n \in 1 .. Len(toServer[l]), ServerMessage(l, n, Rest(l))
  PROVE  Effect
<1>1. n \in Nat
  OBVIOUS
<1>q. QED BY <1>1 DEF Effect

\* A client object with a new TcpClient.
LEMMA ConnectEffect ==
  ASSUME Types, Promises, NEW f \in Client, Connect(f)
  PROVE  Effect
<1>1. client[f] \in ClientState /\ Promise(client[f])
  BY DEF Types, Promises
<1> DEFINE r == [client[f] EXCEPT !.pc = "connecting", !.connection = None]
<1>2. /\ r \in ClientState /\ r.pc = "connecting" /\ r.connection = None
      /\ r.calls = client[f].calls /\ r.next = client[f].next /\ r.answer = client[f].answer
      /\ r.pending = client[f].pending /\ r.posted = client[f].posted /\ r.buffer = client[f].buffer
  BY <1>1 DEF ClientState
<1>3. /\ client[f].pc = "idle" /\ Near({"no"}) # {} /\ link' = Opened(f, None)
      /\ client' = [client EXCEPT ![f] = r]
      /\ UNCHANGED <<toServer, toClient, server>>
  BY DEF Connect
<1> HIDE DEF r
<1>4. client[f].pending = {}
  BY <1>1, <1>3 DEF Promise
<1>5. Promise(r)
  BY <1>2, <1>4 DEF Promise
<1>6. Opens(f, None, r)
  BY <1>2, <1>3, <1>5 DEF Opens
<1>q. QED BY <1>2, <1>6 DEF Effect

LEMMA GatewaySteps == ASSUME Types, Structure, Promises, GatewayNext PROVE Effect
<1>1. ASSUME NEW f \in Client, ConnectEnds(f) PROVE Effect
  <2>1. /\ client[f].pc \in {"connecting", "leaving"} /\ client' = [client EXCEPT ![f].pc = "idle"]
        /\ client[f].pc # "leaving" /\ UNCHANGED <<network, server>>
    BY <1>1 DEF ConnectEnds
  <2>q. QED BY <2>1, PcEffect
<1>2. ASSUME NEW f \in Client, SendRequest(f) PROVE Effect
  BY <1>2, StartEffect DEF SendRequest
<1>3. ASSUME NEW f \in Client, RequestEnds(f) PROVE Effect
  BY <1>3, WithdrawEffect, ReturnEffect DEF RequestEnds
<1>4. ASSUME NEW l \in Link, NEW a \in Address, Accept(l, a) PROVE Effect
  <2>1. Accepts(l, a)
    BY <1>4 DEF Accept, Accepts
  <2>q. QED BY <2>1 DEF Effect
<1>5. ASSUME NEW l \in Link, Disconnected(l) PROVE Effect
  <2>1. Hangup(l) /\ UNCHANGED <<toClient, client, done, received, submitted, stale>>
    BY <1>5 DEF Disconnected, server
  <2>2. decoder' = decoder /\ job' = job
    BY <1>5 DEF Disconnected, server
  <2>3. decoder' \in [Address -> Seq(Byte) \cup {None}]
    BY <2>2 DEF Types, ServerTypes
  <2>q. QED BY <2>1, <2>2, <2>3, HangupCut
<1>6. ASSUME NEW l \in Link, NEW n \in 1 .. Len(toServer[l]), OnMessage(l, n) PROVE Effect
  BY <1>6, ReadEffect DEF OnMessage, DecoderOf, Rest
<1>7. ASSUME NEW j \in job, ProcessTask(j) PROVE Effect
  BY <1>7, WorkEffect DEF ProcessTask
<1>q. QED BY <1>1, <1>2, <1>3, <1>4, <1>5, <1>6, <1>7, ConnectEffect, LoopsEffect DEF GatewayNext

-----------------------------------------------------------------------------
\* An RpcClient that was just made.
LEMMA FreshFacts ==
  ASSUME Types, NEW f \in Client, NEW x \in {"connecting", "leaving"}
  PROVE  /\ Fresh(f, x) \in ClientState /\ Fresh(f, x).pc = x /\ Fresh(f, x).calls = client[f].calls
         /\ Fresh(f, x).connection = None /\ Fresh(f, x).posted = <<>> /\ Fresh(f, x).buffer = Empty
         /\ Fresh(f, x).pending = {} /\ Fresh(f, x).answer = None /\ Promise(Fresh(f, x))
<1>1. client[f] \in ClientState
  BY DEF Types
<1>2. client[f].calls \in Nat
  BY <1>1 DEF ClientState
<1>3. /\ Fresh(f, x).pc = x /\ Fresh(f, x).calls = client[f].calls
      /\ Fresh(f, x).connection = None /\ Fresh(f, x).posted = <<>> /\ Fresh(f, x).buffer = Empty
      /\ Fresh(f, x).pending = {} /\ Fresh(f, x).answer = None
  BY DEF Fresh, NewClient
<1>4. NewClient \in ClientState
  BY EmptyTypes DEF NewClient, ClientState
<1>5. Fresh(f, x) \in ClientState
  BY <1>2, <1>4 DEF Fresh, ClientState
<1>6. Promise(Fresh(f, x))
  BY <1>3 DEF Promise
<1>q. QED BY <1>3, <1>5, <1>6

LEMMA CallRpcEffect == ASSUME Types, OfRpc, NEW f \in Client, CallRpc(f) PROVE Effect
<1>1. PICK s \in Instances : link' = Opened(f, s)
  BY DEF CallRpc
<1>2. /\ client[f].pc = "idle" /\ Near({"no"}) # {} /\ client' = [client EXCEPT ![f] = Fresh(f, "connecting")]
      /\ UNCHANGED <<toServer, toClient, server>>
  BY DEF CallRpc
<1>3. Live(f) = {}
  BY <1>2 DEF OfRpc, Quiet
<1>4. Opens(f, s, Fresh(f, "connecting"))
  BY <1>1, <1>2, <1>3, FreshFacts DEF Opens
<1>q. QED BY <1>4, FreshFacts DEF Effect

LEMMA DestroyEffect == ASSUME Types, NEW f \in Client, Destroy(f) PROVE Effect
<1>1. /\ link' = [l \in Link |-> Abandoned(f, l)] /\ client' = [client EXCEPT ![f] = Fresh(f, "leaving")]
      /\ UNCHANGED <<toServer, toClient, server>>
  BY DEF Destroy
<1>2. Leaves(f, Fresh(f, "leaving"))
  BY <1>1, FreshFacts DEF Leaves
<1>q. QED BY <1>2, FreshFacts DEF Effect

LEMMA DestroyedEffect == ASSUME Types, Promises, OfRpc, NEW f \in Client, Destroyed(f) PROVE Effect
<1>1. /\ client[f].pc = "leaving" /\ Own(f) \cap Near({"closing"}) = {}
      /\ client' = [client EXCEPT ![f].pc = "idle"] /\ UNCHANGED <<network, server>>
  BY DEF Destroyed
<1>2. \A l \in Live(f) : link[l].near = "closing"
  BY <1>1 DEF OfRpc, Quiet
<1>3. Live(f) = {}
  BY <1>1, <1>2 DEF Live, Own, Near
<1>q. QED BY <1>1, <1>3, PcEffect

LEMMA CrashEffect == ASSUME Types, Structure, NEW s \in Instances, InstanceCrash(s) PROVE Effect
<1> DEFINE D == {l \in Far({"no", "up"}) \cap Near({"up", "closing", "down"}) : link[l].to = s}
<1>1. /\ link' = [l \in Link |-> IF l \in D THEN [link[l] EXCEPT !.far = "down"] ELSE link[l]]
      /\ toServer' = [l \in Link |-> IF l \in D THEN Empty ELSE toServer[l]]
      /\ decoder' = [a \in Address |-> IF \E l \in D : link[l].address = a THEN None ELSE decoder[a]]
      /\ job' \in SUBSET job
      /\ UNCHANGED <<toClient, client, done, received, submitted, stale>>
  BY DEF InstanceCrash
<1>2. D \in SUBSET Link /\ \A l \in D : link[l].near \notin {"no", "opening", "gone"} /\ link[l].far # "down"
  BY DEF Far, Near
<1> HIDE DEF D
<1>3. decoder \in [Address -> Seq(Byte) \cup {None}]
  BY DEF Types, ServerTypes
<1>4. /\ decoder' \in [Address -> Seq(Byte) \cup {None}]
      /\ \A a \in Address :
           \/ decoder'[a] = decoder[a]
           \/ decoder'[a] = None /\ \E l \in D : link[l].address = a /\ link[l].far # "down"
  BY <1>1, <1>2, <1>3
<1>5. Cut(D)
  BY <1>1, <1>2, <1>4 DEF Cut
<1>q. QED BY <1>2, <1>5 DEF Effect

LEMMA RpcSteps == ASSUME Types, Structure, Promises, OfRpc, RpcNext PROVE Effect
<1>1. ASSUME NEW s \in Instances, InstanceStart(s) \/ SessionEnds(s) PROVE Effect
  BY <1>1, StepEffect DEF InstanceStart, SessionEnds
<1>2. ASSUME GatewayConnects \/ GatewayExpires PROVE Effect
  BY <1>2, StepEffect DEF GatewayConnects, GatewayExpires
<1>3. ASSUME NEW f \in Client, CallStarts(f) PROVE Effect
  BY <1>3, StartEffect DEF CallStarts
<1>4. ASSUME NEW f \in Client, CallFails(f) PROVE Effect
  <2>1. /\ client[f].pc \in {"connecting", "leaving"} /\ client' = [client EXCEPT ![f].pc = "returned"]
        /\ client[f].pc # "leaving" /\ UNCHANGED <<network, server>>
    BY <1>4 DEF CallFails
  <2>q. QED BY <2>1, PcEffect
<1>5. ASSUME NEW f \in Client, CallEnds(f) PROVE Effect
  BY <1>5, WithdrawEffect, ReturnEffect DEF CallEnds
<1>6. ASSUME NEW l \in Link, NEW a \in Address, RpcAccept(l, a) PROVE Effect
  <2>1. Accepts(l, a)
    BY <1>6 DEF RpcAccept, Accepts
  <2>q. QED BY <2>1 DEF Effect
<1>7. ASSUME NEW l \in Link, RpcDisconnected(l) PROVE Effect
  <2>1. Hangup(l) /\ decoder' = [decoder EXCEPT ![link[l].address] = None] /\ job' = job
        /\ UNCHANGED <<toClient, client, done, received, submitted, stale>>
    BY <1>7 DEF RpcDisconnected
  <2>2. decoder \in [Address -> Seq(Byte) \cup {None}]
    BY DEF Types, ServerTypes
  <2>3. /\ decoder' \in [Address -> Seq(Byte) \cup {None}]
        /\ \A a \in Address : decoder'[a] = decoder[a] \/ (decoder'[a] = None /\ link[l].address = a)
    BY <2>1, <2>2
  <2>q. QED BY <2>1, <2>3, HangupCut
<1>8. ASSUME NEW l \in Link, NEW n \in 1 .. Len(toServer[l]), RpcOnMessage(l, n) PROVE Effect
  BY <1>8, ReadEffect DEF RpcOnMessage, Rest
<1>9. ASSUME NEW j \in job, RunMethod(j) PROVE Effect
  BY <1>9, WorkEffect DEF RunMethod
<1>10. ASSUME RpcLoops PROVE Effect
  BY <1>10, LoopsEffect DEF RpcLoops
<1>q. QED BY <1>1, <1>2, <1>3, <1>4, <1>5, <1>6, <1>7, <1>8, <1>9, <1>10, CallRpcEffect, DestroyEffect,
            DestroyedEffect, CrashEffect DEF RpcNext

-----------------------------------------------------------------------------
(***************************************************************************)
(* An RpcClient leaves nothing to the next one; a FileClient never leaves. *)
(***************************************************************************)
LEMMA QuietStays ==
  ASSUME NEW g \in Client, Quiet(g), client'[g].pc = client[g].pc,
         client'[g].posted = client[g].posted, client'[g].buffer = client[g].buffer,
         \A l \in Link : link'[l].client = g /\ link'[l].near \in {"opening", "up", "closing"} =>
           l \in Live(g) /\ link'[l].near \in {link[l].near, "closing"}
  PROVE  Quiet(g)'
BY DEF Quiet, Live

LEMMA BusyQuiet ==
  ASSUME NEW g \in Client, client'[g].pc \notin {"idle", "leaving"}
  PROVE  Quiet(g)'
BY DEF Quiet

\* The caller and its connections stay as they are.
LEMMA SameQuiet ==
  ASSUME NEW g \in Client, Quiet(g), client'[g] = client[g],
         \A l \in Link : link'[l].client = g /\ link'[l].near \in {"opening", "up", "closing"} =>
           link'[l].client = link[l].client /\ link'[l].near = link[l].near
  PROVE  Quiet(g)'
BY QuietStays DEF Live

LEMMA UpQuiet ==
  ASSUME Types, Structure, NEW g \in Client, Quiet(g), NEW l \in Link, ClientUp(l)
  PROVE  Quiet(g)'
<1>1. /\ link[l].client \in Client /\ link[l].near = "opening"
      /\ \A k \in Link : SameButNear(link[k], link'[k]) /\ link'[k].near = IF k = l THEN "up" ELSE link[k].near
      /\ \A f \in Client : SameButConnection(client[f], client'[f])
  BY UpFacts
<1>2. /\ client'[g].pc = client[g].pc
      /\ client'[g].posted = client[g].posted /\ client'[g].buffer = client[g].buffer
  BY <1>1 DEF SameButConnection
<1>3. CASE link[l].client = g
  <2>1. l \in Live(g) /\ link[l].near # "closing"
    BY <1>1, <1>3 DEF Live
  <2>2. client[g].pc \notin {"idle", "leaving"}
    BY <2>1 DEF Quiet
  <2>q. QED BY <1>2, <2>2, BusyQuiet
<1>4. CASE link[l].client # g
  <2>1. \A k \in Link : link'[k].client = g /\ link'[k].near \in {"opening", "up", "closing"} =>
          k \in Live(g) /\ link'[k].near \in {link[k].near, "closing"}
    BY <1>1, <1>4 DEF SameButNear, Live
  <2>q. QED BY <1>2, <2>1, QuietStays
<1>q. QED BY <1>3, <1>4

LEMMA DownQuiet ==
  ASSUME Types, Structure, NEW g \in Client, Quiet(g), NEW l \in Link, ClientDown(l)
  PROVE  Quiet(g)'
<1>1. /\ \A k \in Link : SameButNear(link[k], link'[k]) /\ link'[k].near = IF k = l THEN "down" ELSE link[k].near
      /\ \A f \in Client : SameButConnection(client[f], client'[f])
  BY DownFacts
<1>2. /\ client'[g].pc = client[g].pc
      /\ client'[g].posted = client[g].posted /\ client'[g].buffer = client[g].buffer
  BY <1>1 DEF SameButConnection
<1>3. \A k \in Link : link'[k].client = g /\ link'[k].near \in {"opening", "up", "closing"} =>
        k \in Live(g) /\ link'[k].near \in {link[k].near, "closing"}
  BY <1>1 DEF SameButNear, Live
<1>q. QED BY <1>2, <1>3, QuietStays

LEMMA MessageQuiet ==
  ASSUME Types, Structure, NEW g \in Client, Quiet(g), NEW l \in Link, NEW n \in Nat, ClientMessage(l, n)
  PROVE  Quiet(g)'
<1> DEFINE f == link[l].client
           out == AnswerFed(l, n).out
           b == AnswerFed(l, n).buffer
           r == [Resolved(client[f], out) EXCEPT !.buffer = b]
<1>1. /\ f \in Client /\ link[l].near \in {"up", "closing"} /\ client[f].pc # "leaving"
      /\ client[f] \in ClientState /\ out \in Seq(Message) /\ b \in Seq(Byte)
      /\ client' = [client EXCEPT ![f] = r] /\ link' = link
  BY MessageFacts, Zenon
<1>2. r.pc = client[f].pc
  <2> HIDE DEF out, b, f
  <2>q. QED BY <1>1, AnsweredFields
<1>3. client \in [Client -> ClientState]
  BY DEF Types
<1> HIDE DEF r, out, b
<1>4. CASE f = g
  <2>1. l \in Live(g)
    BY <1>1, <1>4 DEF Live
  <2>2. client[g].pc \notin {"idle", "leaving"}
    BY <1>1, <1>4, <2>1 DEF Quiet
  <2>3. client'[g].pc = client[g].pc
    BY <1>1, <1>2, <1>3, <1>4
  <2>q. QED BY <2>2, <2>3, BusyQuiet
<1>5. CASE f # g
  <2>1. client'[g] = client[g]
    BY <1>1, <1>3, <1>5
  <2>q. QED BY <1>1, <2>1, SameQuiet
<1>q. QED BY <1>4, <1>5

LEMMA PostQuiet ==
  ASSUME Types, NEW g \in Client, Quiet(g), NEW f \in Client, Post(f)
  PROVE  Quiet(g)'
<1>1. client[f].posted # <<>> /\ client' = [client EXCEPT ![f].posted = Tail(@)] /\ link' = link
  BY DEF Post
<1>2. client \in [Client -> ClientState] /\ client[g] \in ClientState
  BY DEF Types
<1>3. CASE f = g
  <2>1. client[g].pc \notin {"idle", "leaving"}
    BY <1>1, <1>3 DEF Quiet
  <2>2. client'[g].pc = client[g].pc
    BY <1>1, <1>2 DEF ClientState
  <2>q. QED BY <2>1, <2>2, BusyQuiet
<1>4. CASE f # g
  <2>1. client'[g] = client[g]
    BY <1>1, <1>2, <1>4
  <2>q. QED BY <1>1, <2>1, SameQuiet
<1>q. QED BY <1>3, <1>4

\* The caller of f moves to x, where it has something to do.
LEMMA MovesQuiet ==
  ASSUME Types, NEW g \in Client, Quiet(g), NEW f \in Client, NEW r, client' = [client EXCEPT ![f] = r],
         r.pc \notin {"idle", "leaving"}, link' = link
  PROVE  Quiet(g)'
<1>1. client \in [Client -> ClientState]
  BY DEF Types
<1>2. CASE f = g
  BY <1>1, <1>2, BusyQuiet
<1>3. CASE f # g
  <2>1. client'[g] = client[g]
    BY <1>1, <1>3
  <2>q. QED BY <2>1, SameQuiet
<1>q. QED BY <1>2, <1>3

LEMMA CallerQuiet ==
  ASSUME Types, NEW g \in Client, Quiet(g), NEW f \in Client,
         StartCall(f) \/ Expire(f) \/ CallFails(f) \/ Withdraw(f, "returned") \/ Return(f, "returned")
  PROVE  Quiet(g)'
<1>1. client[f] \in ClientState
  BY DEF Types
<1>2. ASSUME StartCall(f) PROVE Quiet(g)'
  <2>1. client' = [client EXCEPT ![f] = Calling(f)] /\ link' = link
    BY <1>2, CallFacts DEF StartCall, network
  <2>2. Calling(f).pc = "waiting"
    BY <1>1 DEF Calling, ClientState
  <2>q. QED BY <2>1, <2>2, MovesQuiet
<1>3. ASSUME Expire(f) \/ CallFails(f) PROVE Quiet(g)'
  <2>1. PICK x \in {"expired", "returned"} : client' = [client EXCEPT ![f] = [client[f] EXCEPT !.pc = x]]
    BY <1>3 DEF Expire, CallFails
  <2>2. [client[f] EXCEPT !.pc = x].pc = x
    BY <1>1 DEF ClientState
  <2>3. link' = link
    BY <1>3 DEF Expire, CallFails, network
  <2>q. QED BY <2>1, <2>2, <2>3, MovesQuiet
<1>4. ASSUME Withdraw(f, "returned") PROVE Quiet(g)'
  <2> DEFINE r == [client[f] EXCEPT !.pc = "returned", !.answer = None,
                     !.pending = {p \in client[f].pending : p[1] # client[f].next - 1}]
  <2>1. client' = [client EXCEPT ![f] = r] /\ link' = link
    BY <1>4 DEF Withdraw, network
  <2>2. r.pc = "returned"
    BY <1>1 DEF ClientState
  <2> HIDE DEF r
  <2>q. QED BY <2>1, <2>2, MovesQuiet
<1>5. ASSUME Return(f, "returned") PROVE Quiet(g)'
  <2> DEFINE r == [client[f] EXCEPT !.pc = "returned", !.answer = None]
  <2>1. client' = [client EXCEPT ![f] = r] /\ link' = link
    BY <1>5 DEF Return, network
  <2>2. r.pc = "returned"
    BY <1>1 DEF ClientState
  <2> HIDE DEF r
  <2>q. QED BY <2>1, <2>2, MovesQuiet
<1>q. QED BY <1>2, <1>3, <1>4, <1>5

LEMMA CallRpcQuiet ==
  ASSUME Types, OfRpc, NEW g \in Client, NEW f \in Client, CallRpc(f)
  PROVE  Quiet(g)'
<1>1. PICK s \in Instances : link' = Opened(f, s)
  BY DEF CallRpc
<1>2. /\ client[f].pc = "idle" /\ Near({"no"}) # {} /\ client' = [client EXCEPT ![f] = Fresh(f, "connecting")]
      /\ UNCHANGED <<toServer, toClient, server>>
  BY DEF CallRpc
<1>3. Live(f) = {} /\ Quiet(g)
  BY <1>2 DEF OfRpc, Quiet
<1>4. Opens(f, s, Fresh(f, "connecting"))
  BY <1>1, <1>2, <1>3, FreshFacts DEF Opens
<1>5. /\ NewLink \in Link /\ link'[NewLink].client = f
      /\ \A l \in Link \ {NewLink} :
           /\ SameButNear(link[l], link'[l])
           /\ link[l].client # f => link'[l].near = link[l].near
      /\ client'[g] = IF g = f THEN Fresh(f, "connecting") ELSE client[g]
  <2>1. Fresh(f, "connecting") \in ClientState
    BY FreshFacts
  <2>q. QED BY <1>4, <2>1, OpensFacts
<1>6. CASE g = f
  <2>1. client'[g].pc = "connecting"
    BY <1>5, <1>6, FreshFacts
  <2>q. QED BY <2>1, BusyQuiet
<1>7. CASE g # f
  <2>1. \A l \in Link : link'[l].client = g /\ link'[l].near \in {"opening", "up", "closing"} =>
          link'[l].client = link[l].client /\ link'[l].near = link[l].near
    BY <1>5, <1>7 DEF SameButNear
  <2>q. QED BY <1>3, <1>5, <1>7, <2>1, SameQuiet
<1>q. QED BY <1>6, <1>7

LEMMA DestroyQuiet ==
  ASSUME Types, NEW g \in Client, Quiet(g), NEW f \in Client, Destroy(f)
  PROVE  Quiet(g)'
<1>1. /\ link' = [l \in Link |-> Abandoned(f, l)] /\ client' = [client EXCEPT ![f] = Fresh(f, "leaving")]
      /\ client \in [Client -> ClientState]
  BY DEF Destroy, Types
<1>2. ASSUME NEW l \in Link
      PROVE  /\ link'[l].client = link[l].client
             /\ link[l].client # f => link'[l].near = link[l].near
             /\ link[l].client = f => link'[l].near =
                  CASE link[l].near = "up" -> "closing" [] link[l].near = "opening" -> "gone" [] OTHER -> link[l].near
  BY <1>1, AbandonedType
<1>3. CASE g = f
  <2>1. client'[g] = Fresh(f, "leaving")
    BY <1>1, <1>3
  <2>2. client'[g].pc = "leaving" /\ client'[g].posted = <<>> /\ client'[g].buffer = Empty
    BY <2>1, FreshFacts
  <2>3. \A l \in Link : link'[l].client = g /\ link'[l].near \in {"opening", "up", "closing"} => link'[l].near = "closing"
    BY <1>2, <1>3
  <2>q. QED BY <2>2, <2>3 DEF Quiet, Live
<1>4. CASE g # f
  <2>1. client'[g] = client[g]
    BY <1>1, <1>4
  <2>2. \A l \in Link : link'[l].client = g /\ link'[l].near \in {"opening", "up", "closing"} =>
          link'[l].client = link[l].client /\ link'[l].near = link[l].near
    BY <1>2, <1>4
  <2>q. QED BY <2>1, <2>2, SameQuiet
<1>q. QED BY <1>3, <1>4

LEMMA DestroyedQuiet ==
  ASSUME Types, NEW g \in Client, Quiet(g), NEW f \in Client, Destroyed(f)
  PROVE  Quiet(g)'
<1>1. /\ client[f].pc = "leaving" /\ Own(f) \cap Near({"closing"}) = {}
      /\ client' = [client EXCEPT ![f].pc = "idle"] /\ link' = link
      /\ client \in [Client -> ClientState] /\ client[f] \in ClientState
  BY DEF Destroyed, network, Types
<1>2. CASE g = f
  <2>1. client'[g].pc = "idle" /\ client'[g].posted = client[g].posted /\ client'[g].buffer = client[g].buffer
    BY <1>1, <1>2 DEF ClientState
  <2>2. (\A l \in Live(g) : link[l].near = "closing") /\ client[g].posted = <<>> /\ client[g].buffer = Empty
    BY <1>1, <1>2 DEF Quiet
  <2>3. Live(g) = {}
    BY <1>1, <1>2, <2>2 DEF Live, Own, Near
  <2>4. \A l \in Link : ~ (link'[l].client = g /\ link'[l].near \in {"opening", "up", "closing"})
    BY <1>1, <2>3 DEF Live
  <2>q. QED BY <2>1, <2>2, <2>4 DEF Quiet, Live
<1>3. CASE g # f
  <2>1. client'[g] = client[g]
    BY <1>1, <1>3
  <2>q. QED BY <1>1, <2>1, SameQuiet
<1>q. QED BY <1>2, <1>3

\* The server's side is not the client's.
LEMMA FarQuiet ==
  ASSUME Types, NEW g \in Client, Quiet(g), client' = client,
         \A l \in Link : link'[l].client = link[l].client /\ link'[l].near = link[l].near
  PROVE  Quiet(g)'
BY SameQuiet

LEMMA RpcQuiet == ASSUME Types, Structure, OfRpc, RpcNext PROVE OfRpc'
<1> SUFFICES ASSUME NEW g \in Client PROVE Quiet(g)'
  BY DEF OfRpc
<1>0. Quiet(g)
  BY DEF OfRpc
<1>1. ASSUME UNCHANGED <<network, client, server>> PROVE Quiet(g)'
  BY <1>0, <1>1, FarQuiet DEF network
<1>2. ASSUME NEW s \in Instances, InstanceStart(s) \/ SessionEnds(s) PROVE Quiet(g)'
  BY <1>1, <1>2 DEF InstanceStart, SessionEnds
<1>3. ASSUME NEW s \in Instances, InstanceCrash(s) PROVE Quiet(g)'
  <2>1. PICK D \in SUBSET Link :
           link' = [l \in Link |-> IF l \in D THEN [link[l] EXCEPT !.far = "down"] ELSE link[l]]
    BY <1>3 DEF InstanceCrash, Far, Near
  <2>2. link \in [Link -> LinkState] /\ client' = client
    BY <1>3 DEF Types, NetworkTypes, InstanceCrash
  <2>3. \A l \in Link : link'[l].client = link[l].client /\ link'[l].near = link[l].near
    BY <2>1, <2>2 DEF LinkState
  <2>q. QED BY <1>0, <2>2, <2>3, FarQuiet
<1>4. ASSUME GatewayConnects \/ GatewayExpires PROVE Quiet(g)'
  BY <1>1, <1>4 DEF GatewayConnects, GatewayExpires
<1>5. ASSUME NEW f \in Client, CallStarts(f) \/ CallFails(f) \/ CallEnds(f) PROVE Quiet(g)'
  BY <1>0, <1>5, CallerQuiet DEF CallStarts, CallEnds
<1>6. ASSUME NEW l \in Link, NEW a \in Address, RpcAccept(l, a) PROVE Quiet(g)'
  <2>1. Accepts(l, a) /\ client' = client
    BY <1>6 DEF RpcAccept, Accepts
  <2>2. \A k \in Link : link'[k].client = link[k].client /\ link'[k].near = link[k].near
    BY <2>1, AcceptsFacts
  <2>q. QED BY <1>0, <2>1, <2>2, FarQuiet
<1>7. ASSUME NEW l \in Link, RpcDisconnected(l) PROVE Quiet(g)'
  <2>1. link' = [link EXCEPT ![l].far = "down"] /\ client' = client /\ link \in [Link -> LinkState]
    BY <1>7 DEF RpcDisconnected, Hangup, Types, NetworkTypes
  <2>2. \A k \in Link : link'[k].client = link[k].client /\ link'[k].near = link[k].near
    BY <2>1 DEF LinkState
  <2>q. QED BY <1>0, <2>1, <2>2, FarQuiet
<1>8. ASSUME NEW l \in Link, NEW n \in 1 .. Len(toServer[l]), RpcOnMessage(l, n) PROVE Quiet(g)'
  BY <1>0, <1>8, FarQuiet DEF RpcOnMessage, ServerMessage
<1>9. ASSUME NEW j \in job, RunMethod(j) PROVE Quiet(g)'
  BY <1>0, <1>9, FarQuiet DEF RunMethod, Work
<1>10. ASSUME RpcLoops PROVE Quiet(g)'
  <2>1. ASSUME NEW l \in Link, NEW n \in 1 .. Len(toClient[l]), ClientMessage(l, n) PROVE Quiet(g)'
    <3>1. n \in Nat
      OBVIOUS
    <3>q. QED BY <1>0, <2>1, <3>1, MessageQuiet
  <2>q. QED BY <1>0, <1>10, <2>1, UpQuiet, DownQuiet, PostQuiet, CallerQuiet DEF RpcLoops, Loops
<1>q. QED BY <1>0, <1>2, <1>3, <1>4, <1>5, <1>6, <1>7, <1>8, <1>9, <1>10, CallRpcQuiet, DestroyQuiet, DestroyedQuiet
          DEF RpcNext

LEMMA GatewayStays ==
  ASSUME Types, \A f \in Client : client[f].pc # "leaving", GatewayNext
  PROVE  \A f \in Client : client'[f].pc # "leaving"
<1> SUFFICES ASSUME NEW g \in Client PROVE client'[g].pc # "leaving"
  OBVIOUS
<1>0. client \in [Client -> ClientState] /\ client[g] \in ClientState /\ client[g].pc # "leaving"
  BY DEF Types
<1>1. ASSUME NEW f \in Client, NEW r, client' = [client EXCEPT ![f] = r], r.pc # "leaving" PROVE client'[g].pc # "leaving"
  BY <1>0, <1>1
<1>2. ASSUME NEW f \in Client, Connect(f) PROVE client'[g].pc # "leaving"
  <2>1. client' = [client EXCEPT ![f] = [client[f] EXCEPT !.pc = "connecting", !.connection = None]]
    BY <1>2 DEF Connect
  <2>2. [client[f] EXCEPT !.pc = "connecting", !.connection = None].pc = "connecting"
    BY DEF Types, ClientState
  <2>q. QED BY <1>1, <2>1, <2>2
<1>3. ASSUME NEW f \in Client, ConnectEnds(f) \/ Expire(f) PROVE client'[g].pc # "leaving"
  <2>1. PICK x \in {"idle", "expired"} : client' = [client EXCEPT ![f] = [client[f] EXCEPT !.pc = x]]
    BY <1>3 DEF ConnectEnds, Expire
  <2>2. [client[f] EXCEPT !.pc = x].pc = x
    BY DEF Types, ClientState
  <2>q. QED BY <1>1, <2>1, <2>2
<1>4. ASSUME NEW f \in Client, SendRequest(f) PROVE client'[g].pc # "leaving"
  <2>1. client' = [client EXCEPT ![f] = Calling(f)]
    BY <1>4, CallFacts DEF SendRequest
  <2>2. Calling(f).pc = "waiting"
    BY DEF Types, Calling, ClientState
  <2>q. QED BY <1>1, <2>1, <2>2
<1>5. ASSUME NEW f \in Client, Withdraw(f, "idle") PROVE client'[g].pc # "leaving"
  <2> DEFINE r == [client[f] EXCEPT !.pc = "idle", !.answer = None,
                     !.pending = {p \in client[f].pending : p[1] # client[f].next - 1}]
  <2>1. client' = [client EXCEPT ![f] = r]
    BY <1>5 DEF Withdraw
  <2>2. r.pc = "idle"
    BY DEF Types, ClientState
  <2> HIDE DEF r
  <2>q. QED BY <1>1, <2>1, <2>2
<1>6. ASSUME NEW f \in Client, Return(f, "idle") PROVE client'[g].pc # "leaving"
  <2>1. client' = [client EXCEPT ![f] = [client[f] EXCEPT !.pc = "idle", !.answer = None]]
    BY <1>6 DEF Return
  <2>2. [client[f] EXCEPT !.pc = "idle", !.answer = None].pc = "idle"
    BY DEF Types, ClientState
  <2>q. QED BY <1>1, <2>1, <2>2
<1>7. ASSUME client' = client PROVE client'[g].pc # "leaving"
  BY <1>0, <1>7
<1>8. ASSUME NEW l \in Link, NEW a \in Address, Accept(l, a) PROVE client'[g].pc # "leaving"
  BY <1>7, <1>8 DEF Accept
<1>9. ASSUME NEW l \in Link, Disconnected(l) PROVE client'[g].pc # "leaving"
  BY <1>7, <1>9 DEF Disconnected
<1>10. ASSUME NEW l \in Link, NEW n \in 1 .. Len(toServer[l]), OnMessage(l, n) PROVE client'[g].pc # "leaving"
  BY <1>7, <1>10 DEF OnMessage, ServerMessage
<1>11. ASSUME NEW j \in job, ProcessTask(j) PROVE client'[g].pc # "leaving"
  BY <1>7, <1>11 DEF ProcessTask, Work
<1>12. ASSUME Loops PROVE client'[g].pc # "leaving"
  <2>2. ASSUME NEW l \in Link, ClientUp(l) PROVE client'[g].pc # "leaving"
    BY <1>0, <2>2 DEF ClientUp, ClientState
  <2>3. ASSUME NEW l \in Link, ClientDown(l) PROVE client'[g].pc # "leaving"
    BY <1>0, <2>3 DEF ClientDown, ClientState
  <2>4. ASSUME NEW f \in Client, Post(f) PROVE client'[g].pc # "leaving"
    BY <1>0, <2>4 DEF Post, ClientState
  <2>5. ASSUME NEW l \in Link, NEW n \in 1 .. Len(toClient[l]), ClientMessage(l, n) PROVE client'[g].pc # "leaving"
    <3> DEFINE f == link[l].client
               fed == Feed(client[f].buffer, SubSeq(toClient[l], 1, n))
               r == [Resolved(client[f], fed.out) EXCEPT !.buffer = fed.buffer]
    <3>1. client' = [client EXCEPT ![f] = r] /\ client[f].pc # "leaving"
      BY <2>5 DEF ClientMessage
    <3>2. r.pc = client[f].pc \/ f \notin Client
      <4> SUFFICES ASSUME f \in Client PROVE r.pc = client[f].pc
        OBVIOUS
      <4>1. client[f] \in ClientState /\ client[f].buffer \in Seq(Byte) /\ toClient[l] \in Seq(Byte)
        BY DEF Types, NetworkTypes, ClientState
      <4>2. SubSeq(toClient[l], 1, n) \in Seq(Byte)
        <5>1. n \in 0 .. Len(toClient[l])
          BY <4>1
        <5>q. QED BY <4>1, <5>1, TakenFacts
      <4>3. fed.out \in Seq(Message) /\ fed.buffer \in Seq(Byte)
        BY <4>1, <4>2, FeedTypes
      <4> HIDE DEF fed, f
      <4>q. QED BY <4>1, <4>3, AnsweredFields
    <3> HIDE DEF r, f
    <3>q. QED BY <1>0, <3>1, <3>2
  <2>q. QED BY <1>3, <1>12, <2>2, <2>3, <2>4, <2>5 DEF Loops
<1>q. QED BY <1>2, <1>3, <1>4, <1>5, <1>6, <1>8, <1>9, <1>10, <1>11, <1>12 DEF GatewayNext, RequestEnds

-----------------------------------------------------------------------------
(***************************************************************************)
(* What the invariant says of the properties.                              *)
(***************************************************************************)
LEMMA KeptBytes ==
  ASSUME NEW s \in Seq(Byte), NEW rest, NEW out \in Seq(Message), Aligned(s), Keeps(s, rest, out)
  PROVE  s = Bytes(out) \o rest /\ Len(rest) < 3
<1> DEFINE n == Len(out)
           taken == SubSeq(s, 1, 3 * n)
<1>1. /\ n \in Nat /\ Len(s) \in Nat /\ 3 * n <= Len(s) /\ Len(s) < 3 * n + 3 /\ rest = After(s, 3 * n)
      /\ \A k \in 1 .. n : out[k] = s[3 * (k - 1) + 1][1]
  BY DEF Keeps
<1>2. 3 * n \in 0 .. Len(s)
  BY <1>1
<1>3. Len(rest) = Len(s) - 3 * n
  BY <1>1, <1>2, AfterFacts
<1>4. taken \in Seq(Byte) /\ Len(taken) = 3 * n /\ \A i \in 1 .. 3 * n : taken[i] = s[i]
  BY <1>2, TakenFacts
<1>5. taken \o rest = s
  BY <1>1, <1>2, TakeDrop
<1> HIDE DEF taken
<1>6. taken = [k \in 1 .. 3 * n |-> taken[k]]
  BY <1>1, <1>4
<1>7. ASSUME NEW k \in 1 .. 3 * n PROVE taken[k] = <<out[(k + 2) \div 3], ((k - 1) % 3) + 1>>
  <2> DEFINE i == (k - 1) \div 3
             j == ((k - 1) % 3) + 1
  <2>1. k - 1 \in Nat
    BY <1>1
  <2>2. i \in Nat /\ j \in 1 .. 3 /\ k = 3 * i + j /\ (k + 2) \div 3 = i + 1
    BY <2>1
  <2> HIDE DEF i, j
  <2>3. 3 * i + j <= Len(s) /\ i + 1 \in 1 .. n /\ 3 * ((i + 1) - 1) + 1 = 3 * i + 1
    BY <1>1, <2>2
  <2>4. s[k] = <<s[3 * i + 1][1], j>>
    BY <2>2, <2>3 DEF Aligned
  <2>5. out[i + 1] = s[3 * ((i + 1) - 1) + 1][1]
    BY <1>1, <2>3
  <2>6. taken[k] = <<out[i + 1], j>>
    BY <1>4, <2>3, <2>4, <2>5
  <2>q. QED BY <2>2, <2>6 DEF j
<1>8. Bytes(out) = taken
  BY <1>6, <1>7 DEF Bytes
<1>9. s = Bytes(out) \o rest
  BY <1>5, <1>8
<1>10. Len(rest) < 3
  <2>1. Len(rest) = Len(s) - 3 * Len(out) /\ Len(s) < 3 * Len(out) + 3 /\ Len(s) \in Nat /\ Len(out) \in Nat
    BY <1>1, <1>3
  <2>q. QED BY <2>1
<1>q. QED BY <1>9, <1>10

LEMMA StreamsReassembled == ASSUME Types, Streams PROVE Reassembled
<1> SUFFICES ASSUME NEW l \in Far({"up"}) \ stale
             PROVE  received[l] = Bytes(submitted[l]) \o Rest(l) /\ Len(Rest(l)) < 3
  BY Zenon DEF Reassembled, Rest
<1>1. l \in Link /\ Stream(l) /\ link[l].far = "up"
  BY DEF Streams, Far
<1>2. received[l] \in Seq(Byte) /\ toServer[l] \in Seq(Byte) /\ submitted[l] \in Seq(Message)
  BY <1>1 DEF Types, ServerTypes, NetworkTypes
<1>3. Aligned(received[l] \o toServer[l]) /\ Keeps(received[l], Rest(l), submitted[l])
  BY <1>1 DEF Stream, Kept, Framed
<1>4. Aligned(received[l])
  <2>1. 0 \in Nat /\ 3 * 0 <= Len(received[l])
    BY <1>2
  <2>q. QED BY <1>2, <1>3, <2>1, AlignedParts
<1>q. QED BY <1>2, <1>3, <1>4, KeptBytes

LEMMA PromisesAreAlive == ASSUME Types, Promises PROVE PromisesAlive
<1> SUFFICES ASSUME NEW f \in Client
             PROVE  /\ \A p \in client[f].pending : client[f].pc \in {"waiting", "expired"} /\ p[2] = client[f].calls
                    /\ client[f].pc = "waiting" /\ client[f].answer = None => client[f].pending # {}
  BY DEF PromisesAlive
<1>1. Promise(client[f])
  BY DEF Promises
<1>q. QED BY <1>1 DEF Promise

LEMMA FitsAnswers == ASSUME Fits PROVE AnswersOwnCall
BY DEF Fits, FitClient, AnswersOwnCall

-----------------------------------------------------------------------------
(***************************************************************************)
(* Sessions.                                                               *)
(***************************************************************************)
LEMMA FarFinite ==
  ASSUME NEW states
  PROVE  IsFiniteSet(Far(states)) /\ Cardinality(Far(states)) \in Nat
<1>1. Links \in Int /\ 1 \in Int
  BY RequestsAssumption DEF RequestsAssumption
<1>2. IsFiniteSet(Link)
  BY <1>1, FS_Interval DEF Link
<1>3. Far(states) \subseteq Link
  BY DEF Far
<1>q. QED BY <1>2, <1>3, FS_Subset, FS_CardinalityType

LEMMA SameSessions ==
  ASSUME Sessions, session' = session, \A l \in Link : link'[l].far = link[l].far
  PROVE  Sessions'
<1>1. Far({"up"})' = Far({"up"}) /\ Far({"up", "down"})' = Far({"up", "down"})
  BY DEF Far
<1>q. QED BY <1>1, Zenon DEF Sessions, OneSessionEach

LEMMA AcceptSessions ==
  ASSUME Types, Sessions, NEW l \in Link, NEW a \in Address, Accept(l, a)
  PROVE  Sessions'
<1> DEFINE new == [id |-> Cardinality(Far({"up", "down"})) + 1, link |-> l]
<1>1. session' = session \cup {new} /\ link[l].far = "no"
  BY DEF Accept, NextSession
<1>2. Accepts(l, a)
  BY DEF Accept, Accepts
<1>3. \A k \in Link : link'[k].far = IF k = l THEN "up" ELSE link[k].far
  BY <1>2, AcceptsFacts
<1>4. Far({"up"})' = Far({"up"}) \cup {l}
  BY <1>1, <1>3 DEF Far
<1>5. Far({"up", "down"})' = Far({"up", "down"}) \cup {l} /\ l \notin Far({"up", "down"})
  BY <1>1, <1>3 DEF Far
<1> DEFINE n == Cardinality(Far({"up", "down"}))
<1>6. n \in Nat
  BY FarFinite
<1>7. Cardinality(Far({"up", "down"}))' = n + 1
  <2>1. IsFiniteSet(Far({"up", "down"}))
    BY FarFinite
  <2>2. Cardinality(Far({"up", "down"}) \cup {l}) = Cardinality(Far({"up", "down"})) + 1
    BY <1>5, <2>1, FS_AddElement
  <2>q. QED BY <1>5, <2>2
<1>8. /\ session \in SUBSET [id : Nat, link : Link] /\ {s.link : s \in session} = Far({"up"})
      /\ \A r, s \in session : r.id = s.id => r = s
      /\ \A s \in session : s.id <= n
  BY DEF Sessions, OneSessionEach
<1>9. new \in [id : Nat, link : Link] /\ new.id = n + 1 /\ new.link = l
  BY <1>6
<1> HIDE DEF n, new
<1>10. session' \in SUBSET [id : Nat, link : Link]
  BY <1>1, <1>8, <1>9
<1>11. {s.link : s \in session'} = Far({"up"})'
  BY <1>1, <1>4, <1>8, <1>9
<1>12. \A s \in session : s.id \in Nat /\ s.id < n + 1
  BY <1>6, <1>8
<1>13. \A r, s \in session' : r.id = s.id => r = s
  BY <1>1, <1>6, <1>8, <1>9, <1>12
<1>14. \A s \in session' : s.id <= n + 1
  BY <1>1, <1>6, <1>9, <1>12
<1>q. QED BY <1>7, <1>10, <1>11, <1>13, <1>14, Zenon DEF Sessions, OneSessionEach

LEMMA DisconnectedSessions ==
  ASSUME Types, Sessions, NEW l \in Link, Disconnected(l)
  PROVE  Sessions'
<1>1. session' = {s \in session : s.link # l} /\ link[l].far = "up" /\ link' = [link EXCEPT ![l].far = "down"]
  BY DEF Disconnected, Hangup
<1>2. link \in [Link -> LinkState]
  BY DEF Types, NetworkTypes
<1>3. \A k \in Link : link'[k].far = IF k = l THEN "down" ELSE link[k].far
  BY <1>1, <1>2 DEF LinkState
<1>4. Far({"up"})' = Far({"up"}) \ {l}
  BY <1>3 DEF Far
<1>5. Far({"up", "down"})' = Far({"up", "down"})
  BY <1>1, <1>3 DEF Far
<1>6. /\ session \in SUBSET [id : Nat, link : Link] /\ {s.link : s \in session} = Far({"up"})
      /\ \A r, s \in session : r.id = s.id => r = s
      /\ \A s \in session : s.id <= Cardinality(Far({"up", "down"}))
  BY DEF Sessions, OneSessionEach
<1>7. {s.link : s \in session'} = Far({"up"})'
  BY <1>1, <1>4, <1>6
<1>8. session' \in SUBSET [id : Nat, link : Link] /\ \A r, s \in session' : r.id = s.id => r = s
  BY <1>1, <1>6
<1>9. \A s \in session' : s.id <= Cardinality(Far({"up", "down"}))'
  BY <1>1, <1>5, <1>6, Zenon
<1>q. QED BY <1>7, <1>8, <1>9, Zenon DEF Sessions, OneSessionEach

LEMMA LoopsFar == ASSUME Types, Structure, Loops PROVE \A l \in Link : link'[l].far = link[l].far
<1>1. ASSUME NEW l \in Link, ClientUp(l) PROVE \A k \in Link : link'[k].far = link[k].far
  BY <1>1, UpFacts DEF SameButNear
<1>2. ASSUME NEW l \in Link, ClientDown(l) PROVE \A k \in Link : link'[k].far = link[k].far
  BY <1>2, DownFacts DEF SameButNear
<1>q. QED BY <1>1, <1>2 DEF Loops, ClientMessage, Post, Expire, network

LEMMA GatewaySessions == ASSUME Types, Structure, Promises, Sessions, GatewayNext PROVE Sessions'
<1>1. ASSUME NEW f \in Client, Connect(f) PROVE Sessions'
  <2>1. Near({"no"}) # {} /\ link' = Opened(f, None) /\ session' = session
    BY <1>1 DEF Connect
  <2>2. /\ NewLink \in Link /\ link[NewLink].near = "no"
        /\ NewLinkState(f, None).far = "no"
        /\ link' = [l \in Link |-> IF l = NewLink THEN NewLinkState(f, None) ELSE Abandoned(f, l)]
    BY <2>1, OpenedFacts
  <2>3. link[NewLink].far = "no"
    BY <2>2 DEF Structure, Stages
  <2>4. \A l \in Link : Abandoned(f, l).far = link[l].far
    BY AbandonedType
  <2>5. \A l \in Link : link'[l].far = link[l].far
    BY <2>2, <2>3, <2>4
  <2>q. QED BY <2>1, <2>5, SameSessions
<1>2. ASSUME link' = link, session' = session PROVE Sessions'
  BY <1>2, SameSessions
<1>3. ASSUME NEW f \in Client, ConnectEnds(f) \/ SendRequest(f) \/ RequestEnds(f) PROVE Sessions'
  BY <1>2, <1>3 DEF ConnectEnds, SendRequest, RequestEnds, StartCall, Withdraw, Return, network
<1>4. ASSUME NEW l \in Link, NEW n \in 1 .. Len(toServer[l]), OnMessage(l, n) PROVE Sessions'
  BY <1>2, <1>4 DEF OnMessage, ServerMessage
<1>5. ASSUME NEW j \in job, ProcessTask(j) PROVE Sessions'
  BY <1>2, <1>5 DEF ProcessTask, Work
<1>6. ASSUME Loops, session' = session PROVE Sessions'
  BY <1>6, LoopsFar, SameSessions
<1>q. QED BY <1>1, <1>3, <1>4, <1>5, <1>6, AcceptSessions, DisconnectedSessions DEF GatewayNext

-----------------------------------------------------------------------------
(***************************************************************************)
(* A request is in one place at a time.                                    *)
(***************************************************************************)
LEMMA NothingCarried == ASSUME NEW c PROVE ~ Carries(Empty, c) /\ OnceIn(Empty) /\ ~ Asks(<<>>, c) /\ AsksOnce(<<>>)
<1>1. Len(Empty) = 0 /\ Len(<<>>) = 0
  BY EmptyTypes DEF Empty
<1>2. 1 .. 0 = {}
  OBVIOUS
<1>q. QED BY <1>1, <1>2, Zenon DEF Carries, OnceIn, Asks, AsksOnce

\* Nothing is where it was not, and no calls were taken back.
LEMMA ApartLess ==
  ASSUME Types, Types', NEW c \in Client \X Nat, Apart(c),
         Posted(c)' => Posted(c), Wired(c)' => Wired(c), Held(c)' => Held(c), Tasked(c)' => Tasked(c), Done(c)' => Done(c),
         \A f \in Client : client'[f].calls >= client[f].calls
  PROVE  Apart(c)'
<1>1. c[1] \in Client /\ c[2] \in Nat
  OBVIOUS
<1>2. client[c[1]] \in ClientState /\ client'[c[1]] \in ClientState
  BY <1>1 DEF Types
<1>3. client[c[1]].calls \in Nat /\ client'[c[1]].calls \in Nat
  BY <1>2 DEF ClientState
<1>4. c[2] <= client[c[1]].calls => c[2] <= client'[c[1]].calls
  BY <1>1, <1>3
<1>q. QED BY <1>4, Zenon DEF Apart

\* Requests only disappear.
LEMMA OnceShrinks ==
  ASSUME Types, Types', Once,
         \A f \in Client : client'[f].posted \in {client[f].posted, <<>>} /\ client'[f].calls = client[f].calls,
         \A l \in Link : toServer'[l] \in {toServer[l], Empty},
         \A a \in Address : decoder'[a] \in {decoder[a], None, Empty},
         job' \in SUBSET job, done' = done
  PROVE  Once'
<1>1. ASSUME NEW c, NEW f \in Client, Asks(client'[f].posted, c) PROVE Asks(client[f].posted, c)
  BY <1>1, NothingCarried
<1>2. ASSUME NEW c, NEW l \in Link, Carries(toServer'[l], c) PROVE Carries(toServer[l], c)
  BY <1>2, NothingCarried
<1>3. ASSUME NEW c, NEW a \in Address, Holds(decoder'[a], c) PROVE Holds(decoder[a], c)
  BY <1>3, NothingCarried DEF Holds
<1>4. OncePosted'
  <2>1. \A f \in Client : AsksOnce(client'[f].posted)
    BY NothingCarried DEF Once, OncePosted
  <2>q. QED BY <1>1, <2>1 DEF Once, OncePosted
<1>5. OnceWired'
  <2>1. \A l \in Link : OnceIn(toServer'[l])
    BY NothingCarried DEF Once, OnceWired
  <2>q. QED BY <1>2, <2>1 DEF Once, OnceWired
<1>6. OnceHeld'
  <2>1. \A a \in Address : decoder'[a] # None => OnceIn(decoder'[a])
    BY NothingCarried DEF Once, OnceHeld
  <2>q. QED BY <1>3, <2>1 DEF Once, OnceHeld
<1>7. OnceTasked' /\ OnceDone'
  BY DEF Once, OnceTasked, OnceDone
<1>8. ASSUME NEW c \in Client \X Nat PROVE Apart(c)'
  <2>1. /\ Posted(c)' => Posted(c)
        /\ Wired(c)' => Wired(c)
        /\ Held(c)' => Held(c)
        /\ Tasked(c)' => Tasked(c)
        /\ Done(c)' => Done(c)
    BY <1>1, <1>2, <1>3 DEF Posted, Wired, Held, Tasked, Done
  <2>2. Apart(c)
    BY DEF Once
  <2>3. \A f \in Client : client'[f].calls >= client[f].calls
    <3>1. \A f \in Client : client[f].calls \in Nat /\ client'[f].calls = client[f].calls
      BY DEF Types, ClientState
    <3>q. QED BY <3>1
  <2>q. QED BY <2>1, <2>2, <2>3, ApartLess
<1>q. QED BY <1>4, <1>5, <1>6, <1>7, <1>8, Zenon DEF Once

LEMMA RowOnce ==
  ASSUME Types, Types', Once, NEW f \in Client, NEW r, client' = [client EXCEPT ![f] = r],
         r.posted \in {client[f].posted, <<>>}, r.calls = client[f].calls, UNCHANGED <<toServer, server>>
  PROVE  Once'
<1>1. client \in [Client -> ClientState]
  BY DEF Types
<1>2. \A g \in Client : client'[g].posted \in {client[g].posted, <<>>} /\ client'[g].calls = client[g].calls
  BY <1>1
<1>3. toServer' = toServer /\ decoder' = decoder /\ job' = job /\ done' = done
  BY DEF server
<1>q. QED BY <1>2, <1>3, OnceShrinks

LEMMA ShrinkingOnce ==
  ASSUME Types, Types', Structure, Once,
         \/ \E l \in Link : ClientUp(l) \/ ClientDown(l)
         \/ \E l \in Link, n \in Nat : ClientMessage(l, n)
         \/ \E f \in Client, r \in ClientState : Local(f, r) \/ Leaves(f, r)
         \/ \E f \in Client, r \in ClientState, host \in Instances \cup {None} : Opens(f, host, r)
         \/ \E l \in Link, a \in Address : Accepts(l, a)
         \/ \E D \in SUBSET Link : Cut(D)
         \/ UNCHANGED <<network, client, server>>
  PROVE  Once'
<1>1. ASSUME \A g \in Client : SameButConnection(client[g], client'[g]), UNCHANGED <<toServer, server>> PROVE Once'
  <2>1. \A g \in Client : client'[g].posted \in {client[g].posted, <<>>} /\ client'[g].calls = client[g].calls
    BY <1>1 DEF SameButConnection
  <2>q. QED BY <1>1, <2>1, OnceShrinks DEF server
<1>2. ASSUME NEW l \in Link, ClientUp(l) \/ ClientDown(l) PROVE Once'
  <2>1. (\A g \in Client : SameButConnection(client[g], client'[g])) /\ UNCHANGED <<toServer, server>>
    BY <1>2, UpFacts, DownFacts
  <2>q. QED BY <1>1, <2>1
<1>3. ASSUME NEW l \in Link, NEW n \in Nat, ClientMessage(l, n) PROVE Once'
  <2> DEFINE f == link[l].client
             out == AnswerFed(l, n).out
             b == AnswerFed(l, n).buffer
             r == [Resolved(client[f], out) EXCEPT !.buffer = b]
  <2>1. /\ f \in Client /\ client[f] \in ClientState /\ out \in Seq(Message) /\ b \in Seq(Byte)
        /\ client' = [client EXCEPT ![f] = r] /\ UNCHANGED <<toServer, server>>
    BY <1>3, MessageFacts, Zenon
  <2>2. r.posted = client[f].posted /\ r.calls = client[f].calls
    <3> HIDE DEF out, b, f
    <3>q. QED BY <2>1, AnsweredFields
  <2> HIDE DEF r, f, out, b
  <2>q. QED BY <2>1, <2>2, RowOnce
<1>4. ASSUME NEW f \in Client, NEW r \in ClientState, Local(f, r) \/ Leaves(f, r) PROVE Once'
  <2>1. /\ client' = [client EXCEPT ![f] = r] /\ r.posted \in {client[f].posted, <<>>} /\ r.calls = client[f].calls
        /\ UNCHANGED <<toServer, server>>
    BY <1>4 DEF Local, Leaves, network
  <2>q. QED BY <2>1, RowOnce
<1>5. ASSUME NEW f \in Client, NEW r \in ClientState, NEW host \in Instances \cup {None}, Opens(f, host, r) PROVE Once'
  <2>1. /\ client' = [client EXCEPT ![f] = r] /\ r.posted \in {client[f].posted, <<>>} /\ r.calls = client[f].calls
        /\ UNCHANGED <<toServer, server>>
    BY <1>5 DEF Opens
  <2>q. QED BY <2>1, RowOnce
<1>6. ASSUME NEW l \in Link, NEW a \in Address, Accepts(l, a) PROVE Once'
  <2>1. /\ \A b \in Address : decoder'[b] = decoder[b] \/ (b = a /\ decoder'[b] = Empty)
        /\ UNCHANGED <<toServer, client, job, done>>
    BY <1>6, AcceptsFacts
  <2>q. QED BY <2>1, OnceShrinks
<1>7. ASSUME NEW D \in SUBSET Link, Cut(D) PROVE Once'
  <2>1. /\ \A k \in Link : toServer'[k] = IF k \in D THEN Empty ELSE toServer[k]
        /\ \A a \in Address : decoder'[a] = decoder[a] \/ decoder'[a] = None
        /\ job' \in SUBSET job /\ UNCHANGED <<client, done>>
    BY <1>7, CutFacts
  <2>2. \A k \in Link : toServer'[k] \in {toServer[k], Empty}
    BY <2>1
  <2>3. \A a \in Address : decoder'[a] \in {decoder[a], None, Empty}
    BY <2>1
  <2>4. \A f \in Client : client'[f].posted \in {client[f].posted, <<>>} /\ client'[f].calls = client[f].calls
    BY <2>1
  <2>q. QED BY <2>1, <2>2, <2>3, <2>4, OnceShrinks
<1>8. ASSUME UNCHANGED <<network, client, server>> PROVE Once'
  BY <1>8, OnceShrinks DEF network, server
<1>q. QED BY <1>2, <1>3, <1>4, <1>5, <1>6, <1>7, <1>8

\* The request of a message is one of a client.
LEMMA OfMessage == ASSUME NEW m \in Message PROVE Of(m) \in Client \X Nat /\ Of(m)[1] = m.client /\ Of(m)[2] = m.call
BY DEF Message, Of

LEMMA AsksAppend ==
  ASSUME NEW s \in Seq(Message), NEW m \in Message
  PROVE  /\ \A c : Asks(Append(s, m), c) => Asks(s, c) \/ c = Of(m)
         /\ AsksOnce(s) /\ ~ Asks(s, Of(m)) => AsksOnce(Append(s, m))
<1> DEFINE t == Append(s, m)
<1>1. Len(s) \in Nat /\ Len(t) = Len(s) + 1 /\ t[Len(s) + 1] = m /\ \A i \in 1 .. Len(s) : t[i] = s[i]
  BY AppendProperties
<1> HIDE DEF t
<1>2. ASSUME NEW i \in 1 .. Len(t) PROVE (i \in 1 .. Len(s) /\ t[i] = s[i]) \/ (i = Len(s) + 1 /\ t[i] = m)
  BY <1>1
<1>3. \A c : Asks(t, c) => Asks(s, c) \/ c = Of(m)
  BY <1>2 DEF Asks
<1>4. ASSUME AsksOnce(s), ~ Asks(s, Of(m)) PROVE AsksOnce(t)
  BY <1>2, <1>4 DEF Asks, AsksOnce
<1>q. QED BY <1>3, <1>4 DEF t

LEMMA CallOnce == ASSUME Types, Types', Once, NEW f \in Client, StartCall(f) PROVE Once'
<1> DEFINE new == <<f, client[f].calls + 1>>
<1>1. /\ client[f] \in ClientState /\ client \in [Client -> ClientState] /\ Asked(f) \in Message
      /\ client' = [client EXCEPT ![f] = Calling(f)] /\ UNCHANGED <<network, server>>
  BY CallFacts DEF Types, StartCall
<1>2. client[f].posted \in Seq(Message) /\ client[f].calls \in Nat
  BY <1>1 DEF ClientState
<1>3. Of(Asked(f)) = new
  BY DEF Of, Asked
<1>4. Calling(f).posted = Append(client[f].posted, Asked(f)) /\ Calling(f).calls = client[f].calls + 1
  BY <1>1 DEF Calling, ClientState
<1>5. new \in Client \X Nat /\ new[1] = f /\ new[2] = client[f].calls + 1
  BY <1>2
<1> HIDE DEF new
<1>6. ~ Posted(new) /\ ~ Wired(new) /\ ~ Held(new) /\ ~ Tasked(new) /\ ~ Done(new)
  <2>1. Apart(new) /\ ~ (new[2] <= client[new[1]].calls)
    BY <1>2, <1>5 DEF Once
  <2>q. QED BY <2>1, Zenon DEF Apart
<1>7. /\ \A c : Asks(client'[f].posted, c) => Asks(client[f].posted, c) \/ c = new
      /\ AsksOnce(client'[f].posted)
  <2>1. client'[f].posted = Append(client[f].posted, Asked(f))
    BY <1>1, <1>4
  <2>2. AsksOnce(client[f].posted) /\ ~ Asks(client[f].posted, new)
    BY <1>6 DEF Once, OncePosted, Posted
  <2>q. QED BY <1>1, <1>2, <1>3, <2>1, <2>2, AsksAppend
<1>8. \A g \in Client \ {f} : client'[g] = client[g]
  BY <1>1
<1>9. OncePosted'
  <2>1. \A g \in Client : ~ Asks(client[g].posted, new)
    BY <1>6 DEF Posted
  <2>2. \A g \in Client : AsksOnce(client'[g].posted)
    BY <1>7, <1>8 DEF Once, OncePosted
  <2>3. ASSUME NEW g \in Client, NEW h \in Client, NEW c \in Client \X Nat,
               Asks(client'[g].posted, c), Asks(client'[h].posted, c)
        PROVE  g = h
    <3>1. CASE c = new
      <4>1. g = f /\ h = f
        BY <1>8, <2>1, <2>3, <3>1
      <4>q. QED BY <4>1
    <3>2. CASE c # new
      <4>1. Asks(client[g].posted, c) /\ Asks(client[h].posted, c)
        BY <1>7, <1>8, <2>3, <3>2
      <4>q. QED BY <4>1 DEF Once, OncePosted
    <3>q. QED BY <3>1, <3>2
  <2>q. QED BY <2>2, <2>3 DEF OncePosted
<1>10. toServer' = toServer /\ decoder' = decoder /\ job' = job /\ done' = done
  BY <1>1 DEF network, server
<1>11. OnceWired' /\ OnceHeld' /\ OnceTasked' /\ OnceDone'
  BY <1>10 DEF Once, OnceWired, OnceHeld, OnceTasked, OnceDone
<1>12. ASSUME NEW c \in Client \X Nat PROVE Apart(c)'
  <2>1. Wired(c)' = Wired(c) /\ Held(c)' = Held(c) /\ Tasked(c)' = Tasked(c) /\ Done(c)' = Done(c)
    BY <1>10 DEF Wired, Held, Tasked, Done
  <2>2. CASE c = new
    <3>1. client'[new[1]].calls = client[f].calls + 1
      BY <1>1, <1>4, <1>5
    <3>2. new[2] <= client'[new[1]].calls
      BY <1>2, <1>5, <3>1
    <3>q. QED BY <1>6, <2>1, <2>2, <3>2 DEF Apart
  <2>3. CASE c # new
    <3>1. Posted(c)' => Posted(c)
      BY <1>7, <1>8, <2>3 DEF Posted
    <3>2. \A g \in Client : client'[g].calls >= client[g].calls
      <4>1. \A g \in Client : client[g].calls \in Nat
        BY <1>1 DEF ClientState
      <4>2. client'[f].calls = client[f].calls + 1
        BY <1>1, <1>4
      <4>q. QED BY <1>8, <4>1, <4>2
    <3>3. Apart(c)
      BY DEF Once
    <3>q. QED BY <2>1, <3>1, <3>2, <3>3, ApartLess
  <2>q. QED BY <2>2, <2>3
<1>q. QED BY <1>9, <1>11, <1>12, Zenon DEF Once

LEMMA AsksTail ==
  ASSUME NEW s \in Seq(Message), s # <<>>
  PROVE  /\ Head(s) \in Message /\ Asks(s, Of(Head(s)))
         /\ \A c : Asks(Tail(s), c) => Asks(s, c)
         /\ AsksOnce(s) => AsksOnce(Tail(s)) /\ ~ Asks(Tail(s), Of(Head(s)))
<1> DEFINE t == Tail(s)
<1>1. /\ Len(s) \in Nat /\ Len(s) >= 1 /\ Head(s) = s[1] /\ Head(s) \in Message
      /\ Len(t) = Len(s) - 1 /\ \A i \in 1 .. (Len(s) - 1) : t[i] = s[i + 1]
  BY HeadTailProperties
<1> HIDE DEF t
<1>2. Asks(s, Of(Head(s)))
  BY <1>1 DEF Asks
<1>3. \A c : Asks(t, c) => Asks(s, c)
  <2>1. ASSUME NEW i \in 1 .. Len(t) PROVE i + 1 \in 1 .. Len(s) /\ t[i] = s[i + 1]
    BY <1>1
  <2>q. QED BY <2>1 DEF Asks
<1>4. ASSUME AsksOnce(s) PROVE AsksOnce(t) /\ ~ Asks(t, Of(Head(s)))
  <2>1. ASSUME NEW i \in 1 .. Len(t) PROVE i + 1 \in 1 .. Len(s) /\ t[i] = s[i + 1] /\ i + 1 # 1
    BY <1>1
  <2>2. AsksOnce(t)
    <3>1. ASSUME NEW i \in 1 .. Len(t), NEW j \in 1 .. Len(t), Of(t[i]) = Of(t[j]) PROVE i = j
      <4>1. i + 1 = j + 1
        BY <1>4, <2>1, <3>1 DEF AsksOnce
      <4>q. QED BY <4>1
    <3>q. QED BY <3>1 DEF AsksOnce
  <2>3. ~ Asks(t, Of(Head(s)))
    <3>1. ASSUME NEW i \in 1 .. Len(t), Of(t[i]) = Of(Head(s)) PROVE FALSE
      <4>1. i + 1 = 1
        <5>1. 1 \in 1 .. Len(s) /\ i + 1 \in 1 .. Len(s) /\ Of(s[i + 1]) = Of(s[1])
          BY <1>1, <2>1, <3>1
        <5>q. QED BY <1>4, <5>1 DEF AsksOnce
      <4>q. QED BY <2>1, <4>1
    <3>q. QED BY <3>1 DEF Asks
  <2>q. QED BY <2>2, <2>3
<1>q. QED BY <1>1, <1>2, <1>3, <1>4 DEF t

\* Two pieces of a stream.
LEMMA CarriesParts ==
  ASSUME NEW s \in Seq(Byte), NEW t \in Seq(Byte)
  PROVE  /\ \A c : Carries(s \o t, c) <=> Carries(s, c) \/ Carries(t, c)
         /\ OnceIn(s) /\ OnceIn(t) /\ (\A c \in Client \X Nat : ~ (Carries(s, c) /\ Carries(t, c))) => OnceIn(s \o t)
         /\ OnceIn(s \o t) => OnceIn(s) /\ OnceIn(t) /\ \A c : ~ (Carries(s, c) /\ Carries(t, c))
<1> DEFINE u == s \o t
<1>1. /\ u \in Seq(Byte) /\ Len(u) = Len(s) + Len(t)
      /\ \A i \in 1 .. Len(s) : u[i] = s[i]
      /\ \A i \in 1 .. Len(t) : u[Len(s) + i] = t[i]
  BY ConcatAt
<1>2. Len(s) \in Nat /\ Len(t) \in Nat
  OBVIOUS
<1> HIDE DEF u
<1>3. ASSUME NEW i \in 1 .. Len(u)
      PROVE  \/ i \in 1 .. Len(s) /\ u[i] = s[i]
             \/ \E k \in 1 .. Len(t) : i = Len(s) + k /\ u[i] = t[k]
  <2>1. CASE i <= Len(s)
    BY <1>1, <1>2, <2>1, SMTT(30)
  <2>2. CASE ~ (i <= Len(s))
    <3>1. i - Len(s) \in 1 .. Len(t) /\ i = Len(s) + (i - Len(s))
      BY <1>1, <1>2, <2>2
    <3>2. u[Len(s) + (i - Len(s))] = t[i - Len(s)]
      BY <1>1, <3>1
    <3>q. QED BY <3>1, <3>2
  <2>q. QED BY <2>1, <2>2
<1>4. ASSUME NEW i \in 1 .. Len(s) PROVE i \in 1 .. Len(u) /\ u[i] = s[i]
  BY <1>1, <1>2
<1>5. ASSUME NEW i \in 1 .. Len(t) PROVE Len(s) + i \in 1 .. Len(u) /\ u[Len(s) + i] = t[i]
  BY <1>1, <1>2
<1>6. ASSUME NEW c PROVE Carries(u, c) <=> Carries(s, c) \/ Carries(t, c)
  <2>1. Carries(u, c) => Carries(s, c) \/ Carries(t, c)
    BY <1>3 DEF Carries
  <2>2. Carries(s, c) => Carries(u, c)
    BY <1>4 DEF Carries
  <2>3. Carries(t, c) => Carries(u, c)
    BY <1>5 DEF Carries
  <2>q. QED BY <2>1, <2>2, <2>3
<1>7. ASSUME OnceIn(s), OnceIn(t), \A c \in Client \X Nat : ~ (Carries(s, c) /\ Carries(t, c)) PROVE OnceIn(u)
  <2>1. ASSUME NEW i \in 1 .. Len(s), NEW k \in 1 .. Len(t), s[i][2] = 3, t[k][2] = 3, Of(s[i][1]) = Of(t[k][1]) PROVE FALSE
    <3>1. s[i][1] \in Message
      <4>1. s[i] \in Byte
        OBVIOUS
      <4>q. QED BY <4>1 DEF Byte
    <3>2. Of(s[i][1]) \in Client \X Nat
      BY <3>1, OfMessage
    <3>3. Carries(s, Of(s[i][1])) /\ Carries(t, Of(s[i][1]))
      BY <2>1, Zenon DEF Carries
    <3>q. QED BY <1>7, <3>2, <3>3
  <2>2. ASSUME NEW i \in 1 .. Len(u), NEW j \in 1 .. Len(u), u[i][2] = 3, u[j][2] = 3, Of(u[i][1]) = Of(u[j][1]) PROVE i = j
    <3>1. CASE i \in 1 .. Len(s) /\ u[i] = s[i]
      <4>1. CASE j \in 1 .. Len(s) /\ u[j] = s[j]
        BY <1>7, <2>2, <3>1, <4>1 DEF OnceIn
      <4>2. ASSUME NEW k \in 1 .. Len(t), j = Len(s) + k, u[j] = t[k] PROVE FALSE
        BY <2>1, <2>2, <3>1, <4>2
      <4>q. QED BY <1>3, <4>1, <4>2
    <3>2. ASSUME NEW h \in 1 .. Len(t), i = Len(s) + h, u[i] = t[h] PROVE i = j
      <4>1. CASE j \in 1 .. Len(s) /\ u[j] = s[j]
        BY <2>1, <2>2, <3>2, <4>1
      <4>2. ASSUME NEW k \in 1 .. Len(t), j = Len(s) + k, u[j] = t[k] PROVE h = k
        BY <1>7, <2>2, <3>2, <4>2 DEF OnceIn
      <4>q. QED BY <1>3, <3>2, <4>1, <4>2
    <3>q. QED BY <1>3, <3>1, <3>2
  <2>q. QED BY <2>2 DEF OnceIn
<1>8. ASSUME OnceIn(u) PROVE OnceIn(s) /\ OnceIn(t) /\ \A c : ~ (Carries(s, c) /\ Carries(t, c))
  <2>1. OnceIn(s)
    BY <1>4, <1>8 DEF OnceIn
  <2>2. OnceIn(t)
    <3>1. ASSUME NEW i \in 1 .. Len(t), NEW j \in 1 .. Len(t), t[i][2] = 3, t[j][2] = 3, Of(t[i][1]) = Of(t[j][1]) PROVE i = j
      <4>0. /\ Len(s) + i \in 1 .. Len(u) /\ u[Len(s) + i] = t[i]
            /\ Len(s) + j \in 1 .. Len(u) /\ u[Len(s) + j] = t[j]
        BY <1>5
      <4>1. Len(s) + i = Len(s) + j
        BY <1>8, <3>1, <4>0, Zenon DEF OnceIn
      <4>q. QED BY <1>2, <4>1
    <3>q. QED BY <3>1 DEF OnceIn
  <2>3. ASSUME NEW i \in 1 .. Len(s), NEW k \in 1 .. Len(t), s[i][2] = 3, t[k][2] = 3, Of(s[i][1]) = Of(t[k][1]) PROVE FALSE
    <3>1. i = Len(s) + k
      BY <1>4, <1>5, <1>8, <2>3, SMTT(30) DEF OnceIn
    <3>q. QED BY <1>2, <3>1
  <2>4. \A c : ~ (Carries(s, c) /\ Carries(t, c))
    BY <2>3 DEF Carries
  <2>q. QED BY <2>1, <2>2, <2>4
<1>q. QED BY <1>6, <1>7, <1>8, Zenon DEF u

LEMMA CarriesEncode ==
  ASSUME NEW m \in Message
  PROVE  /\ \A c : Carries(Encode(m), c) <=> c = Of(m)
         /\ OnceIn(Encode(m))
<1> DEFINE e == Encode(m)
<1>1. Len(e) = 3 /\ e[1] = <<m, 1>> /\ e[2] = <<m, 2>> /\ e[3] = <<m, 3>>
  BY EncodeFacts, EncodedFrame
<1> HIDE DEF e
<1>2. 1 .. Len(e) = {1, 2, 3}
  BY <1>1
<1>3. e[3][2] = 3 /\ e[3][1] = m /\ e[1][2] # 3 /\ e[2][2] # 3
  BY <1>1
<1>4. \A c : Carries(e, c) <=> c = Of(m)
  BY <1>2, <1>3 DEF Carries
<1>5. OnceIn(e)
  BY <1>2, <1>3 DEF OnceIn
<1>q. QED BY <1>4, <1>5 DEF e

LEMMA PostOnce == ASSUME Types, Types', Structure, Once, NEW f \in Client, Post(f) PROVE Once'
<1> DEFINE l == client[f].connection
           m == Head(client[f].posted)
           c0 == Of(m)
           s == client[f].posted
<1>1. /\ s \in Seq(Message) /\ s # <<>> /\ m \in Message
      /\ \A g \in Client : client'[g] = IF g = f THEN [client[f] EXCEPT !.posted = Tail(client[f].posted)] ELSE client[g]
      /\ UNCHANGED <<link, toClient, server>>
      /\ \/ toServer' = toServer
         \/ /\ l \in Link /\ toServer' = [toServer EXCEPT ![l] = toServer[l] \o Encode(m)]
  BY PostedFacts, Zenon
<1>2. client[f] \in ClientState
  BY DEF Types
<1>3. /\ client'[f].posted = Tail(s) /\ \A g \in Client : client'[g].calls = client[g].calls
      /\ \A g \in Client \ {f} : client'[g].posted = client[g].posted
  BY <1>1, <1>2 DEF ClientState
<1>4. /\ Asks(s, c0) /\ \A c : Asks(Tail(s), c) => Asks(s, c)
      /\ AsksOnce(s) => AsksOnce(Tail(s)) /\ ~ Asks(Tail(s), c0)
  <2>1. s \in Seq(Message) /\ s # <<>>
    BY <1>1
  <2>2. ASSUME NEW z \in Seq(Message), z # <<>>
        PROVE  /\ Asks(z, Of(Head(z))) /\ \A c : Asks(Tail(z), c) => Asks(z, c)
               /\ AsksOnce(z) => AsksOnce(Tail(z)) /\ ~ Asks(Tail(z), Of(Head(z)))
    BY <2>2, AsksTail, Zenon
  <2>q. QED BY <2>1, <2>2, Zenon
<1>5. c0 \in Client \X Nat
  BY <1>1, OfMessage
<1>6. /\ ~ Wired(c0) /\ ~ Held(c0) /\ ~ Tasked(c0) /\ ~ Done(c0) /\ c0[2] <= client[c0[1]].calls
      /\ AsksOnce(s) /\ \A g \in Client : Asks(client[g].posted, c0) => g = f
  <2>1. Posted(c0)
    BY <1>4 DEF Posted
  <2>2. Apart(c0) /\ OncePosted
    BY <1>5 DEF Once
  <2>3. ~ Wired(c0) /\ ~ Held(c0) /\ ~ Tasked(c0) /\ ~ Done(c0) /\ c0[2] <= client[c0[1]].calls
    BY <2>1, <2>2, Zenon DEF Apart
  <2>4. AsksOnce(s) /\ \A g \in Client : Asks(client[g].posted, c0) => g = f
    BY <1>4, <1>5, <2>2 DEF OncePosted
  <2>q. QED BY <2>3, <2>4
<1>7. ASSUME NEW k \in Link
      PROVE  /\ OnceIn(toServer'[k])
             /\ \A c : Carries(toServer'[k], c) => Carries(toServer[k], c) \/ (c = c0 /\ k = l)
  <2>1. CASE toServer'[k] = toServer[k]
    BY <2>1 DEF Once, OnceWired
  <2>2. CASE k = l /\ toServer'[k] = toServer[k] \o Encode(m)
    <3>1. toServer[k] \in Seq(Byte) /\ Encode(m) \in Seq(Byte)
      BY <1>1, EncodeFacts DEF Types, NetworkTypes
    <3>2. (\A c : Carries(Encode(m), c) <=> c = c0) /\ OnceIn(Encode(m))
      BY <1>1, CarriesEncode
    <3>3. OnceIn(toServer[k]) /\ ~ Carries(toServer[k], c0)
      BY <1>6 DEF Once, OnceWired, Wired
    <3> HIDE DEF m, c0
    <3> DEFINE e == Encode(m)
    <3>4. e \in Seq(Byte) /\ (\A c : Carries(e, c) <=> c = c0) /\ OnceIn(e)
      BY <3>1, <3>2
    <3> HIDE DEF e
    <3>5. /\ \A c : Carries(toServer[k] \o e, c) <=> Carries(toServer[k], c) \/ Carries(e, c)
          /\ OnceIn(toServer[k]) /\ OnceIn(e) /\ (\A c \in Client \X Nat : ~ (Carries(toServer[k], c) /\ Carries(e, c))) =>
               OnceIn(toServer[k] \o e)
      BY <3>1, <3>4, CarriesParts
    <3>q. QED BY <2>2, <3>3, <3>4, <3>5 DEF e
  <2>q. QED BY <1>1, <2>1, <2>2 DEF Types, NetworkTypes
<1>8. decoder' = decoder /\ job' = job /\ done' = done
  BY <1>1 DEF server
<1> HIDE DEF c0, s, m, l
<1>9. OncePosted'
  <2>1. \A g \in Client : AsksOnce(client'[g].posted)
    BY <1>3, <1>4, <1>6 DEF Once, OncePosted
  <2>2. \A g \in Client : \A c : Asks(client'[g].posted, c) => Asks(client[g].posted, c)
    BY <1>3, <1>4 DEF s
  <2>q. QED BY <2>1, <2>2 DEF Once, OncePosted
<1>10. OnceWired'
  <2>1. ASSUME NEW j \in Link, NEW k \in Link, NEW c \in Client \X Nat, Carries(toServer'[j], c), Carries(toServer'[k], c)
        PROVE  j = k
    <3>1. CASE c = c0
      <4>1. ~ Carries(toServer[j], c0) /\ ~ Carries(toServer[k], c0)
        BY <1>6 DEF Wired
      <4>q. QED BY <1>7, <2>1, <3>1, <4>1
    <3>2. CASE c # c0
      <4>1. Carries(toServer[j], c) /\ Carries(toServer[k], c)
        BY <1>7, <2>1, <3>2
      <4>q. QED BY <4>1 DEF Once, OnceWired
    <3>q. QED BY <3>1, <3>2
  <2>q. QED BY <1>7, <2>1 DEF OnceWired
<1>11. OnceHeld' /\ OnceTasked' /\ OnceDone'
  BY <1>8 DEF Once, OnceHeld, OnceTasked, OnceDone
<1>12. ASSUME NEW c \in Client \X Nat PROVE Apart(c)'
  <2>1. Held(c)' = Held(c) /\ Tasked(c)' = Tasked(c) /\ Done(c)' = Done(c)
    BY <1>8 DEF Held, Tasked, Done
  <2>2. CASE c = c0
    <3>1. ~ Posted(c)'
      <4>1. \A g \in Client : ~ Asks(client'[g].posted, c0)
        BY <1>3, <1>4, <1>6
      <4>q. QED BY <2>2, <4>1 DEF Posted
    <3>2. c[2] <= client'[c[1]].calls
      <4>1. c[1] \in Client
        OBVIOUS
      <4>q. QED BY <1>3, <1>6, <2>2, <4>1
    <3>q. QED BY <1>6, <2>1, <2>2, <3>1, <3>2 DEF Apart
  <2>3. CASE c # c0
    <3>1. Posted(c)' => Posted(c)
      BY <1>3, <1>4 DEF Posted, s
    <3>2. Wired(c)' => Wired(c)
      BY <1>7, <2>3 DEF Wired
    <3>3. \A g \in Client : client'[g].calls >= client[g].calls
      <4>1. \A g \in Client : client[g].calls \in Nat
        BY DEF Types, ClientState
      <4>q. QED BY <1>3, <4>1
    <3>4. Apart(c)
      BY DEF Once
    <3>q. QED BY <2>1, <3>1, <3>2, <3>3, <3>4, ApartLess
  <2>q. QED BY <2>2, <2>3
<1>q. QED BY <1>9, <1>10, <1>11, <1>12, Zenon DEF Once

LEMMA WorkOnce == ASSUME Types, Types', Structure, Once, NEW j \in job, Work(j) PROVE Once'
<1> DEFINE m == j.request
           c0 == Of(m)
<1>1. /\ m \in Message /\ job' = job \ {j} /\ done' = [done EXCEPT ![c0] = done[c0] + 1]
      /\ UNCHANGED <<link, toServer, client, decoder, received, submitted, stale>>
  BY WorkFacts, Zenon
<1>2. c0 \in Client \X Nat
  BY <1>1, OfMessage
<1>3. /\ ~ Posted(c0) /\ ~ Wired(c0) /\ ~ Held(c0) /\ ~ Done(c0) /\ c0[2] <= client[c0[1]].calls
      /\ \A i \in job \ {j} : Of(i.request) # c0
  <2>1. Tasked(c0)
    BY DEF Tasked
  <2>2. Apart(c0) /\ OnceTasked
    BY <1>2 DEF Once
  <2>3. ~ Posted(c0) /\ ~ Wired(c0) /\ ~ Held(c0) /\ ~ Done(c0) /\ c0[2] <= client[c0[1]].calls
    BY <2>1, <2>2, Zenon DEF Apart
  <2>4. \A i \in job \ {j} : Of(i.request) # c0
    BY <2>2 DEF OnceTasked
  <2>q. QED BY <2>3, <2>4
<1>4. done \in [Call -> Nat]
  BY DEF Types, ServerTypes
<1> HIDE DEF c0
<1>5. \A c \in Call : done'[c] = IF c = c0 THEN 1 ELSE done[c]
  <2>1. c0 \in Call => done[c0] = 0
    BY <1>3 DEF Done
  <2>q. QED BY <1>1, <1>4, <2>1
<1>6. OncePosted' /\ OnceWired' /\ OnceHeld' /\ OnceTasked'
  BY <1>1 DEF Once, OncePosted, OnceWired, OnceHeld, OnceTasked
<1>7. OnceDone'
  <2>1. \A c \in Call : done[c] <= 1
    BY DEF Once, OnceDone
  <2>q. QED BY <1>5, <2>1 DEF OnceDone
<1>8. ASSUME NEW c \in Client \X Nat PROVE Apart(c)'
  <2>1. Posted(c)' = Posted(c) /\ Wired(c)' = Wired(c) /\ Held(c)' = Held(c)
    BY <1>1 DEF Posted, Wired, Held
  <2>2. CASE c = c0
    <3>1. ~ Tasked(c)' /\ c[2] <= client'[c[1]].calls
      BY <1>1, <1>3, <2>2 DEF Tasked
    <3>q. QED BY <1>3, <2>1, <2>2, <3>1 DEF Apart
  <2>3. CASE c # c0
    <3>1. Tasked(c)' => Tasked(c)
      BY <1>1 DEF Tasked
    <3>2. Done(c)' => Done(c)
      BY <1>5, <2>3 DEF Done
    <3>3. \A g \in Client : client'[g].calls >= client[g].calls
      <4>1. \A g \in Client : client[g].calls \in Nat
        BY DEF Types, ClientState
      <4>q. QED BY <1>1, <4>1
    <3>4. Apart(c)
      BY DEF Once
    <3>q. QED BY <2>1, <3>1, <3>2, <3>3, <3>4, ApartLess
  <2>q. QED BY <2>2, <2>3
<1>q. QED BY <1>6, <1>7, <1>8, Zenon DEF Once

\* What OnMessage takes out of a stream is in it once, and not in the rest.
LEMMA FeedOnceIn ==
  ASSUME NEW b \in Seq(Byte), NEW p \in Seq(Byte), OnceIn(b \o p)
  PROVE  LET out == Feed(b, p).out
             rest == Feed(b, p).buffer
         IN  /\ \A k \in 1 .. Len(out) : Carries(b \o p, Of(out[k])) /\ ~ Carries(rest, Of(out[k]))
             /\ \A j, k \in 1 .. Len(out) : Of(out[j]) = Of(out[k]) => j = k
             /\ OnceIn(rest) /\ \A c : Carries(rest, c) => Carries(b \o p, c)
<1> DEFINE all == b \o p
           out == Feed(b, p).out
           rest == Feed(b, p).buffer
<1>1. /\ out \in Seq(Message)
      /\ \E r \in 0 .. Len(all) : rest = After(all, r) /\ FramesIn(all, out, 0, r)
  BY FeedSound, Zenon DEF Byte
<1>2. all \in Seq(Byte)
  BY ConcatAt
<1>3. OnceIn(all)
  OBVIOUS
<1> HIDE DEF all, out, rest
<1>4. PICK r \in 0 .. Len(all) : rest = After(all, r) /\ FramesIn(all, out, 0, r)
  BY <1>1
<1>5. PICK q \in [1 .. Len(out) -> Nat] :
        /\ \A k \in 1 .. Len(out) : 0 <= q[k] /\ q[k] + 3 <= r /\ FrameAt(all, q[k], out[k])
        /\ \A j, k \in 1 .. Len(out) : j < k => q[j] + 3 <= q[k]
  BY <1>4 DEF FramesIn
<1>6. Len(all) \in Nat /\ Len(out) \in Nat /\ r \in Nat /\ r <= Len(all)
  BY <1>1, <1>2
<1>7. /\ rest \in Seq(Byte) /\ Len(rest) = Len(all) - r
      /\ \A i \in 1 .. (Len(all) - r) : rest[i] = all[r + i]
  BY <1>2, <1>4, AfterFacts
<1>8. ASSUME NEW k \in 1 .. Len(out)
      PROVE  q[k] + 3 \in 1 .. Len(all) /\ q[k] + 3 <= r /\ all[q[k] + 3][2] = 3 /\ all[q[k] + 3][1] = out[k]
  <2>1. q[k] \in Nat /\ q[k] + 3 <= r /\ all[q[k] + 3] = <<out[k], 3>>
    BY <1>5 DEF FrameAt
  <2>q. QED BY <1>6, <2>1
<1>9. ASSUME NEW i \in 1 .. Len(rest)
      PROVE  r + i \in 1 .. Len(all) /\ rest[i] = all[r + i] /\ r + i > r
  BY <1>6, <1>7
<1>10. ASSUME NEW k \in 1 .. Len(out) PROVE Carries(all, Of(out[k])) /\ ~ Carries(rest, Of(out[k]))
  <2>1. Carries(all, Of(out[k]))
    BY <1>8, Zenon DEF Carries
  <2>2. ASSUME NEW i \in 1 .. Len(rest), rest[i][2] = 3, Of(rest[i][1]) = Of(out[k]) PROVE FALSE
    <3>1. r + i = q[k] + 3
      <4>1. r + i \in 1 .. Len(all) /\ all[r + i][2] = 3 /\ Of(all[r + i][1]) = Of(out[k])
        BY <1>9, <2>2
      <4>2. q[k] + 3 \in 1 .. Len(all) /\ all[q[k] + 3][2] = 3 /\ Of(all[q[k] + 3][1]) = Of(out[k])
        BY <1>8
      <4>q. QED BY <1>3, <4>1, <4>2, Zenon DEF OnceIn
    <3>2. r + i > r /\ q[k] + 3 <= r /\ q[k] \in Nat
      BY <1>5, <1>8, <1>9
    <3>q. QED BY <1>6, <3>1, <3>2
  <2>q. QED BY <2>1, <2>2 DEF Carries
<1>11. ASSUME NEW j \in 1 .. Len(out), NEW k \in 1 .. Len(out), Of(out[j]) = Of(out[k]) PROVE j = k
  <2>0. /\ q[j] + 3 \in 1 .. Len(all) /\ all[q[j] + 3][2] = 3 /\ all[q[j] + 3][1] = out[j]
        /\ q[k] + 3 \in 1 .. Len(all) /\ all[q[k] + 3][2] = 3 /\ all[q[k] + 3][1] = out[k]
    BY <1>8
  <2>1. q[j] + 3 = q[k] + 3
    BY <1>3, <1>11, <2>0, Zenon DEF OnceIn
  <2>2. q[j] \in Nat /\ q[k] \in Nat /\ j \in Nat /\ k \in Nat
    BY <1>6
  <2>3. (j < k => q[j] + 3 <= q[k]) /\ (k < j => q[k] + 3 <= q[j])
    BY <1>5
  <2>q. QED BY <2>1, <2>2, <2>3
<1>12. OnceIn(rest)
  <2>1. ASSUME NEW i \in 1 .. Len(rest), NEW j \in 1 .. Len(rest),
               rest[i][2] = 3, rest[j][2] = 3, Of(rest[i][1]) = Of(rest[j][1])
        PROVE  i = j
    <3>1. r + i = r + j
      <4>1. /\ r + i \in 1 .. Len(all) /\ rest[i] = all[r + i]
            /\ r + j \in 1 .. Len(all) /\ rest[j] = all[r + j]
        BY <1>9
      <4>q. QED BY <1>3, <2>1, <4>1, Zenon DEF OnceIn
    <3>q. QED BY <1>6, <3>1
  <2>q. QED BY <2>1 DEF OnceIn
<1>13. \A c : Carries(rest, c) => Carries(all, c)
  BY <1>9 DEF Carries
<1>14. /\ \A k \in 1 .. Len(out) : Carries(all, Of(out[k])) /\ ~ Carries(rest, Of(out[k]))
       /\ \A j, k \in 1 .. Len(out) : Of(out[j]) = Of(out[k]) => j = k
       /\ OnceIn(rest) /\ \A c : Carries(rest, c) => Carries(all, c)
  BY <1>10, <1>11, <1>12, <1>13
<1>q. QED BY <1>14 DEF all, out, rest

LEMMA ReadOnce ==
  ASSUME Types, Types', Structure, Once, NEW l \in Link, NEW n \in Nat, ServerMessage(l, n, Rest(l))
  PROVE  Once'
<1> DEFINE a == link[l].address
           b == Rest(l)
           p == Piece(l, n)
           t == After(toServer[l], n)
           out == Fed(l, n).out
           rest == Fed(l, n).buffer
<1>1. /\ a \in Address /\ toServer[l] \in Seq(Byte) /\ n \in 1 .. Len(toServer[l])
      /\ b \in Seq(Byte) /\ p \in Seq(Byte) /\ t \in Seq(Byte) /\ out \in Seq(Message) /\ rest \in Seq(Byte)
      /\ decoder' = [decoder EXCEPT ![a] = rest]
      /\ job' = job \cup {[link |-> l, request |-> out[k]] : k \in 1 .. Len(out)}
      /\ toServer' = [toServer EXCEPT ![l] = t]
  BY FedFacts, Zenon
<1>2. client' = client /\ done' = done
  BY DEF ServerMessage
<1>3. toServer \in [Link -> Seq(Byte)] /\ decoder \in [Address -> Seq(Byte) \cup {None}]
  BY DEF Types, NetworkTypes, ServerTypes
<1>4. p \o t = toServer[l]
  <2>1. n \in 0 .. Len(toServer[l])
    BY <1>1
  <2>q. QED BY <1>1, <2>1, TakeDrop DEF Piece
<1>5. \A c : Carries(b, c) <=> Holds(decoder[a], c)
  BY NothingCarried DEF Rest, Holds
<1>6. OnceIn(b)
  BY <1>1, NothingCarried DEF Rest, Once, OnceHeld
<1>7. OnceIn(toServer[l])
  BY DEF Once, OnceWired
<1> HIDE DEF p, t, b
<1>8. /\ \A c : Carries(toServer[l], c) <=> Carries(p, c) \/ Carries(t, c)
      /\ OnceIn(p) /\ OnceIn(t) /\ \A c : ~ (Carries(p, c) /\ Carries(t, c))
  <2>1. p \in Seq(Byte) /\ t \in Seq(Byte)
    BY <1>1
  <2>2. /\ \A c : Carries(p \o t, c) <=> Carries(p, c) \/ Carries(t, c)
        /\ OnceIn(p \o t) => OnceIn(p) /\ OnceIn(t) /\ \A c : ~ (Carries(p, c) /\ Carries(t, c))
    BY <2>1, CarriesParts
  <2>q. QED BY <1>4, <1>7, <2>2
<1>9. \A c \in Client \X Nat : ~ (Carries(b, c) /\ Carries(p, c))
  <2>1. ASSUME NEW c \in Client \X Nat, Carries(b, c), Carries(p, c) PROVE FALSE
    <3>1. Held(c) /\ Wired(c)
      BY <1>1, <1>5, <1>8, <2>1 DEF Held, Wired
    <3>2. Apart(c)
      BY DEF Once
    <3>q. QED BY <3>1, <3>2, Zenon DEF Apart
  <2>q. QED BY <2>1
<1>10. OnceIn(b \o p) /\ \A c : Carries(b \o p, c) <=> Carries(b, c) \/ Carries(p, c)
  BY <1>1, <1>6, <1>8, <1>9, CarriesParts
<1>11. /\ \A k \in 1 .. Len(out) : Carries(b \o p, Of(out[k])) /\ ~ Carries(rest, Of(out[k]))
       /\ \A j, k \in 1 .. Len(out) : Of(out[j]) = Of(out[k]) => j = k
       /\ OnceIn(rest) /\ \A c : Carries(rest, c) => Carries(b \o p, c)
  <2>1. out = Feed(b, p).out /\ rest = Feed(b, p).buffer
    BY DEF Fed, b, p
  <2> HIDE DEF out, rest
  <2>2. /\ \A k \in 1 .. Len(Feed(b, p).out) : Carries(b \o p, Of(Feed(b, p).out[k])) /\ ~ Carries(Feed(b, p).buffer, Of(Feed(b, p).out[k]))
        /\ \A j, k \in 1 .. Len(Feed(b, p).out) : Of(Feed(b, p).out[j]) = Of(Feed(b, p).out[k]) => j = k
        /\ OnceIn(Feed(b, p).buffer) /\ \A c : Carries(Feed(b, p).buffer, c) => Carries(b \o p, c)
    <3>1. OnceIn(b \o p)
      BY <1>10
    <3>q. QED BY <1>1, <3>1, FeedOnceIn, Zenon
  <2>q. QED BY <2>1, <2>2, Zenon
<1>12. \A k \in 1 .. Len(out) : out[k] \in Message
  BY <1>1
<1> HIDE DEF out, rest, a
\* The step, place by place.
<1>13. /\ toServer'[l] = t /\ \A k \in Link \ {l} : toServer'[k] = toServer[k]
       /\ decoder'[a] = rest /\ \A d \in Address \ {a} : decoder'[d] = decoder[d]
  BY <1>1, <1>3
<1>14. rest # None /\ \A c : Holds(rest, c) <=> Carries(rest, c)
  BY <1>1, NoneIsNone DEF Holds
<1>15. \A c : Carries(b \o p, c) => Holds(decoder[a], c) \/ Carries(p, c)
  BY <1>5, <1>10
<1>16. ASSUME NEW j \in job', j \notin job PROVE \E k \in 1 .. Len(out) : j = [link |-> l, request |-> out[k]]
  BY <1>1, <1>16
<1>17. \A c \in Client \X Nat : Apart(c)
  BY DEF Once
<1>18. ASSUME NEW c \in Client \X Nat, Carries(b \o p, c)
       PROVE  /\ Held(c) \/ Wired(c)
              /\ ~ Posted(c) /\ ~ Tasked(c) /\ ~ Done(c)
  <2>1. Held(c) \/ Wired(c)
    BY <1>1, <1>8, <1>15, <1>18 DEF Held, Wired
  <2>q. QED BY <1>17, <2>1, Zenon DEF Apart
<1>19. ASSUME NEW c \in Client \X Nat, Carries(b \o p, c), NEW k \in Link, Carries(toServer'[k], c) PROVE FALSE
  <2>1. Carries(toServer[k], c)
    BY <1>8, <1>13, <1>19
  <2>2. Wired(c) /\ ~ Held(c)
    BY <1>17, <2>1, Zenon DEF Wired, Apart
  <2>3. Carries(p, c)
    BY <1>1, <1>15, <1>19, <2>2 DEF Held
  <2>4. Carries(toServer[l], c)
    BY <1>8, <2>3
  <2>5. k = l
    BY <2>1, <2>4 DEF Once, OnceWired
  <2>q. QED BY <1>8, <1>13, <1>19, <2>3, <2>5
<1>20. ASSUME NEW c \in Client \X Nat, Carries(b \o p, c), NEW d \in Address \ {a}, Holds(decoder[d], c) PROVE FALSE
  <2>1. Held(c) /\ ~ Wired(c)
    BY <1>17, <1>20, Zenon DEF Held, Apart
  <2>2. Holds(decoder[a], c)
    BY <1>8, <1>15, <1>20, <2>1 DEF Wired
  <2>q. QED BY <1>1, <1>20, <2>2 DEF Once, OnceHeld
<1>21. OncePosted' /\ OnceDone'
  BY <1>2 DEF Once, OncePosted, OnceDone
<1>22. OnceWired'
  <2>1. \A k \in Link : OnceIn(toServer'[k])
    BY <1>8, <1>13 DEF Once, OnceWired
  <2>2. \A k \in Link : \A c : Carries(toServer'[k], c) => Carries(toServer[k], c)
    BY <1>8, <1>13
  <2>q. QED BY <2>1, <2>2 DEF Once, OnceWired
<1>23. OnceHeld'
  <2>1. \A d \in Address : decoder'[d] # None => OnceIn(decoder'[d])
    BY <1>11, <1>13 DEF Once, OnceHeld
  <2>2. ASSUME NEW d \in Address, NEW e \in Address, NEW c \in Client \X Nat, Holds(decoder'[d], c), Holds(decoder'[e], c)
        PROVE  d = e
    <3>1. CASE d # a /\ e # a
      <4>1. Holds(decoder[d], c) /\ Holds(decoder[e], c)
        BY <1>13, <2>2, <3>1
      <4>q. QED BY <4>1 DEF Once, OnceHeld
    <3>2. CASE d = a /\ e # a
      <4>1. Holds(decoder[e], c) /\ Carries(b \o p, c)
        BY <1>11, <1>13, <1>14, <2>2, <3>2
      <4>q. QED BY <1>20, <3>2, <4>1
    <3>3. CASE d # a /\ e = a
      <4>1. Holds(decoder[d], c) /\ Carries(b \o p, c)
        BY <1>11, <1>13, <1>14, <2>2, <3>3
      <4>q. QED BY <1>20, <3>3, <4>1
    <3>q. QED BY <3>1, <3>2, <3>3
  <2>q. QED BY <2>1, <2>2 DEF OnceHeld
<1>24. OnceTasked'
  <2>1. ASSUME NEW i \in job', NEW j \in job', i \notin job, Of(i.request) = Of(j.request) PROVE i = j
    <3>1. PICK k \in 1 .. Len(out) : i = [link |-> l, request |-> out[k]]
      BY <1>16, <2>1
    <3>2. i.request = out[k] /\ Of(out[k]) \in Client \X Nat /\ Carries(b \o p, Of(out[k]))
      BY <1>11, <1>12, <3>1, OfMessage
    <3>3. CASE j \in job
      <4>1. Tasked(Of(out[k]))
        BY <2>1, <3>2, <3>3 DEF Tasked
      <4>q. QED BY <1>18, <3>2, <4>1
    <3>4. CASE j \notin job
      <4>1. PICK h \in 1 .. Len(out) : j = [link |-> l, request |-> out[h]]
        BY <1>16, <3>4
      <4>2. j.request = out[h]
        BY <4>1
      <4>3. h = k
        BY <1>11, <2>1, <3>2, <4>2
      <4>q. QED BY <3>1, <4>1, <4>3
    <3>q. QED BY <3>3, <3>4
  <2>2. ASSUME NEW i \in job, NEW j \in job, Of(i.request) = Of(j.request) PROVE i = j
    BY <2>2 DEF Once, OnceTasked
  <2>q. QED BY <2>1, <2>2 DEF OnceTasked
<1>25. ASSUME NEW c \in Client \X Nat PROVE Apart(c)'
  <2>1. Posted(c)' = Posted(c) /\ Done(c)' = Done(c)
    BY <1>2 DEF Posted, Done
  <2>2. CASE Carries(b \o p, c)
    <3>1. ~ Wired(c)'
      BY <1>19, <2>2 DEF Wired
    <3>2. ~ (Held(c)' /\ Tasked(c)')
      <4>1. ASSUME NEW d \in Address, Holds(decoder'[d], c), NEW j \in job', Of(j.request) = c PROVE FALSE
        <5>1. d = a
          BY <1>13, <1>20, <2>2, <4>1
        <5>2. Carries(rest, c)
          BY <1>13, <1>14, <4>1, <5>1
        <5>3. j \notin job
          BY <1>18, <2>2, <4>1 DEF Tasked
        <5>4. PICK k \in 1 .. Len(out) : j = [link |-> l, request |-> out[k]]
          BY <1>16, <5>3
        <5>5. j.request = out[k]
          BY <5>4
        <5>q. QED BY <1>11, <4>1, <5>2, <5>5
      <4>q. QED BY <4>1 DEF Held, Tasked
    <3>3. c[2] <= client'[c[1]].calls
      <4>1. c[2] <= client[c[1]].calls
        BY <1>17, <1>18, <2>2, Zenon DEF Apart
      <4>q. QED BY <1>2, <4>1
    <3>q. QED BY <1>18, <2>1, <2>2, <3>1, <3>2, <3>3, Zenon DEF Apart
  <2>3. CASE ~ Carries(b \o p, c)
    <3>1. Wired(c)' => Wired(c)
      BY <1>8, <1>13 DEF Wired
    <3>2. Held(c)' => Held(c)
      BY <1>11, <1>13, <1>14, <2>3 DEF Held
    <3>3. Tasked(c)' => Tasked(c)
      <4>1. ASSUME NEW j \in job', Of(j.request) = c PROVE j \in job
        <5>1. SUFFICES ASSUME j \notin job PROVE FALSE
          OBVIOUS
        <5>2. PICK k \in 1 .. Len(out) : j = [link |-> l, request |-> out[k]]
          BY <1>16, <5>1
        <5>3. j.request = out[k]
          BY <5>2
        <5>q. QED BY <1>11, <2>3, <4>1, <5>3
      <4>q. QED BY <4>1 DEF Tasked
    <3>4. \A g \in Client : client'[g].calls >= client[g].calls
      <4>1. \A g \in Client : client[g].calls \in Nat
        BY DEF Types, ClientState
      <4>q. QED BY <1>2, <4>1
    <3>q. QED BY <1>17, <2>1, <3>1, <3>2, <3>3, <3>4, ApartLess
  <2>q. QED BY <2>2, <2>3
<1>q. QED BY <1>21, <1>22, <1>23, <1>24, <1>25, Zenon DEF Once

LEMMA EffectOnce == ASSUME Types, Types', Structure, Once, Effect PROVE Once'
BY ShrinkingOnce, CallOnce, PostOnce, WorkOnce, ReadOnce DEF Effect

-----------------------------------------------------------------------------
(***************************************************************************)
(* The invariant holds initially and is kept.                              *)
(***************************************************************************)
LEMMA InitRows ==
  ASSUME RequestsInit
  PROVE  /\ \A l \in Link : /\ link[l] = Unused /\ toServer[l] = Empty /\ toClient[l] = Empty
                            /\ received[l] = Empty /\ submitted[l] = <<>>
         /\ \A f \in Client : client[f] = NewClient
         /\ \A a \in Address : decoder[a] = None
         /\ \A c \in Call : done[c] = 0
         /\ job = {} /\ stale = {}
BY DEF RequestsInit

LEMMA NewFacts ==
  /\ NewClient \in ClientState /\ Unused \in LinkState
  /\ NewClient.pc = "idle" /\ NewClient.connection = None /\ NewClient.posted = <<>> /\ NewClient.buffer = Empty
  /\ NewClient.pending = {} /\ NewClient.answer = None /\ NewClient.calls \in Nat
  /\ Unused.client = None /\ Unused.near = "no" /\ Unused.far = "no" /\ Unused.address = None
<1>1. NewClient \in ClientState
  BY EmptyTypes DEF NewClient, ClientState
<1>2. Unused \in LinkState
  BY DEF Unused, LinkState
<1>q. QED BY <1>1, <1>2 DEF NewClient, Unused, ClientState

LEMMA InitCommon == ASSUME RequestsInit PROVE Common
<1>1. /\ \A l \in Link : /\ link[l] = Unused /\ toServer[l] = Empty /\ toClient[l] = Empty
                         /\ received[l] = Empty /\ submitted[l] = <<>>
      /\ \A f \in Client : client[f] = NewClient
      /\ \A a \in Address : decoder[a] = None
      /\ \A c \in Call : done[c] = 0
      /\ job = {} /\ stale = {}
  BY InitRows
<1>2. Types
  BY NewFacts, EmptyTypes DEF RequestsInit, Types, NetworkTypes, ServerTypes
<1>3. Structure
  <2>1. Stages
    BY <1>1, NewFacts DEF Stages
  <2>2. OwnAddress
    BY <1>1, NewFacts DEF OwnAddress
  <2>3. OwnConnection
    BY <1>1, NewFacts DEF OwnConnection
  <2>q. QED BY <2>1, <2>2, <2>3 DEF Structure
<1>4. Promises
  BY <1>1, NewFacts DEF Promises, Promise
<1>5. Fits
  <2> SUFFICES ASSUME NEW f \in Client PROVE FitClient(f)
    BY DEF Fits
  <2>1. FitPosted(f, client[f]) /\ FitBytes(f, client[f], client[f].buffer)
    <3>1. Len(client[f].posted) = 0 /\ client[f].buffer = Empty
      BY <1>1, NewFacts
    <3>2. FitBytes(f, client[f], client[f].buffer)
      BY <3>1, FitEmpty
    <3>q. QED BY <3>1, <3>2 DEF FitPosted
  <2>2. Live(f) = {}
    BY <1>1, NewFacts DEF Live
  <2>3. client[f].answer = None
    BY <1>1, NewFacts
  <2>q. QED BY <2>1, <2>2, <2>3 DEF FitClient
<1>6. Streams
  <2> SUFFICES ASSUME NEW l \in Link PROVE Stream(l)
    BY DEF Streams
  <2>q. QED BY <1>1, NewFacts, FramedEmpty DEF Stream
<1>7. Once
  <2>1. \A c : \A f \in Client : ~ Asks(client[f].posted, c) /\ AsksOnce(client[f].posted)
    BY <1>1, NewFacts, NothingCarried
  <2>2. \A c : \A l \in Link : ~ Carries(toServer[l], c) /\ OnceIn(toServer[l])
    BY <1>1, NothingCarried
  <2>3. \A c : \A a \in Address : ~ Holds(decoder[a], c)
    BY <1>1 DEF Holds
  <2>4. OncePosted /\ OnceWired /\ OnceTasked
    BY <1>1, <2>1, <2>2 DEF OncePosted, OnceWired, OnceTasked
  <2>5. OnceHeld
    BY <1>1, <2>3 DEF OnceHeld
  <2>6. OnceDone
    BY <1>1 DEF OnceDone
  <2>7. ASSUME NEW c \in Client \X Nat PROVE Apart(c)
    <3>1. ~ Posted(c) /\ ~ Wired(c) /\ ~ Held(c) /\ ~ Tasked(c) /\ ~ Done(c)
      BY <1>1, <2>1, <2>2, <2>3 DEF Posted, Wired, Held, Tasked, Done
    <3>q. QED BY <3>1, Zenon DEF Apart
  <2>q. QED BY <2>4, <2>5, <2>6, <2>7 DEF Once
<1>q. QED BY <1>2, <1>3, <1>4, <1>5, <1>6, <1>7 DEF Common

LEMMA InitSessions == ASSUME RequestsInit, session = {} PROVE OfGateway
<1>1. \A l \in Link : link[l].far = "no"
  BY InitRows, NewFacts
<1>2. \A f \in Client : client[f].pc = "idle"
  BY InitRows, NewFacts
<1>3. Far({"up"}) = {}
  BY <1>1 DEF Far
<1>4. Sessions
  BY <1>3 DEF Sessions, OneSessionEach
<1>q. QED BY <1>2, <1>4 DEF OfGateway

LEMMA InitQuiet == ASSUME RequestsInit PROVE OfRpc
<1> SUFFICES ASSUME NEW f \in Client PROVE Quiet(f)
  BY DEF OfRpc
<1>1. client[f].pc = "idle" /\ client[f].posted = <<>> /\ client[f].buffer = Empty
  BY InitRows, NewFacts
<1>2. Live(f) = {}
  BY InitRows, NewFacts DEF Live
<1>q. QED BY <1>1, <1>2 DEF Quiet

\* Every step keeps what both paths share.
LEMMA EffectCommon == ASSUME Common, Effect PROVE Common'
<1>1. Types' /\ Structure' /\ Promises'
  BY EffectTypes, EffectStructure, EffectPromises DEF Common
<1>2. Fits' /\ Streams' /\ Once'
  BY <1>1, EffectFits, EffectStreams, EffectOnce DEF Common
<1>q. QED BY <1>1, <1>2 DEF Common

LEMMA GatewayInductive == ASSUME Common, OfGateway, GatewayNext PROVE Common' /\ OfGateway'
<1>1. Types /\ Structure /\ Promises /\ Sessions /\ \A f \in Client : client[f].pc # "leaving"
  BY DEF Common, OfGateway
<1>2. Common'
  BY <1>1, GatewaySteps, EffectCommon
<1>3. Sessions' /\ \A f \in Client : client'[f].pc # "leaving"
  BY <1>1, GatewaySessions, GatewayStays
<1>q. QED BY <1>2, <1>3 DEF OfGateway

LEMMA RpcInductive == ASSUME Common, OfRpc, RpcNext PROVE Common' /\ OfRpc'
<1>1. Types /\ Structure /\ Promises
  BY DEF Common
<1>q. QED BY <1>1, RpcSteps, EffectCommon, RpcQuiet

LEMMA GatewayStutters == ASSUME Common, OfGateway, UNCHANGED <<network, client, server, session>> PROVE Common' /\ OfGateway'
<1>1. Common'
  BY StepEffect, EffectCommon
<1>2. Sessions'
  <2>1. Sessions /\ link' = link
    BY DEF OfGateway, network
  <2>q. QED BY <2>1, SameSessions
<1>q. QED BY <1>1, <1>2 DEF OfGateway

LEMMA RpcStutters == ASSUME Common, OfRpc, UNCHANGED <<network, client, server>> PROVE Common' /\ OfRpc'
<1>1. Common'
  BY StepEffect, EffectCommon
<1>2. \A g \in Client : Quiet(g)'
  <2>1. Types /\ link' = link /\ client' = client
    BY DEF Common, network
  <2>q. QED BY <2>1, FarQuiet DEF OfRpc
<1>q. QED BY <1>1, <1>2 DEF OfRpc

\* RpcServer drops a decoder with its connection.
LEMMA RpcNeverStale == ASSUME RpcNext PROVE stale' = stale
<1>1. ASSUME NEW f \in Client, CallRpc(f) \/ CallStarts(f) \/ CallFails(f) \/ CallEnds(f) \/ Destroy(f) \/ Destroyed(f)
      PROVE  stale' = stale
  BY <1>1 DEF server, CallRpc, CallStarts, StartCall, CallFails, CallEnds, Withdraw, Return, Destroy, Destroyed
<1>2. ASSUME NEW s \in Instances, InstanceStart(s) \/ InstanceCrash(s) \/ SessionEnds(s) PROVE stale' = stale
  BY <1>2, SMTT(30) DEF server, InstanceStart, InstanceCrash, SessionEnds
<1>3. ASSUME GatewayConnects \/ GatewayExpires \/ RpcLoops PROVE stale' = stale
  BY <1>3 DEF server, GatewayConnects, GatewayExpires, RpcLoops, Loops, ClientUp, ClientDown, ClientMessage, Post, Expire
<1>4. ASSUME NEW l \in Link, RpcDisconnected(l) \/ (\E a \in Address : RpcAccept(l, a))
             \/ (\E n \in 1 .. Len(toServer[l]) : RpcOnMessage(l, n))
      PROVE  stale' = stale
  BY <1>4 DEF RpcDisconnected, RpcAccept, RpcOnMessage, ServerMessage
<1>5. ASSUME NEW j \in job, RunMethod(j) PROVE stale' = stale
  BY <1>5 DEF RunMethod, Work
<1>q. QED BY <1>1, <1>2, <1>3, <1>4, <1>5 DEF RpcNext

\* What follows from the invariant.
LEMMA CommonSays == ASSUME Common PROVE AnswersOwnCall /\ PromisesAlive /\ AtMostOnce /\ Reassembled
<1>1. AtMostOnce
  <2>1. DOMAIN done = Call
    BY DEF Common, Types, ServerTypes
  <2>q. QED BY <2>1 DEF Common, Once, OnceDone, AtMostOnce
<1>2. Types /\ Promises /\ Fits /\ Streams
  BY DEF Common
<1>q. QED BY <1>1, <1>2, FitsAnswers, PromisesAreAlive, StreamsReassembled

LEMMA GatewaySays == ASSUME OfGateway PROVE OneSessionEach
BY DEF OfGateway, Sessions

-----------------------------------------------------------------------------
(***************************************************************************)
(* Theorems.                                                               *)
(***************************************************************************)
\* Each path by itself, with any number of threads that send requests.
GatewaySpec == GatewayInit /\ [][GatewayNext]_gatewayVars
RpcSpec == RpcInit /\ [][RpcNext]_rpcVars

\* FileClient and the gateway: whatever times out, reconnects, breaks or overtakes, an
\* answer that ResolvePending delivers belongs to the call that waits, as long as no
\* connection found the decoder of an earlier one; pending_ never refers to a promise
\* that is gone; a request is executed at most once; the decoder reassembles the stream;
\* TcpConnectionManager has one session for each connection that is up.
THEOREM GatewayRequestsCorrect ==
  GatewaySpec => [](AnswersOwnCall /\ PromisesAlive /\ AtMostOnce /\ Reassembled /\ OneSessionEach)
<1>1. GatewayInit => Common /\ OfGateway
  BY InitCommon, InitSessions DEF GatewayInit
<1>2. Common /\ OfGateway /\ [GatewayNext]_gatewayVars => (Common /\ OfGateway)'
  <2>1. ASSUME Common, OfGateway, UNCHANGED gatewayVars PROVE Common' /\ OfGateway'
    <3>1. UNCHANGED <<network, client, server, session>>
      BY <2>1 DEF gatewayVars, requestVars
    <3>q. QED BY <2>1, <3>1, GatewayStutters
  <2>q. QED BY <2>1, GatewayInductive
<1>3. Common /\ OfGateway => AnswersOwnCall /\ PromisesAlive /\ AtMostOnce /\ Reassembled /\ OneSessionEach
  BY CommonSays, GatewaySays
<1>q. QED BY <1>1, <1>2, <1>3, PTL DEF GatewaySpec

\* RpcClient and RpcServer: the same, when each call makes a client object of its own,
\* instances crash, and tasks of a lost instance vanish with its connections.  Here no
\* connection finds the decoder of an earlier one, and so the answers are always right.
THEOREM RpcRequestsCorrect ==
  RpcSpec => [](stale = {} /\ AnswersOwnCall /\ PromisesAlive /\ AtMostOnce /\ Reassembled)
<1> DEFINE I == Common /\ OfRpc /\ stale = {}
<1>1. RpcInit => I
  BY InitCommon, InitQuiet DEF RpcInit, RequestsInit
<1>2. I /\ [RpcNext]_rpcVars => I'
  <2>1. ASSUME Common, OfRpc, stale = {}, UNCHANGED rpcVars PROVE Common' /\ OfRpc' /\ stale' = {}
    <3>1. UNCHANGED <<network, client, server>> /\ stale' = stale
      BY <2>1 DEF rpcVars, requestVars, server
    <3>q. QED BY <2>1, <3>1, RpcStutters
  <2>q. QED BY <2>1, RpcInductive, RpcNeverStale
<1>3. I => stale = {} /\ AnswersOwnCall /\ PromisesAlive /\ AtMostOnce /\ Reassembled
  BY CommonSays
<1> HIDE DEF I
<1>q. QED BY <1>1, <1>2, <1>3, PTL DEF RpcSpec

\* The inductive invariant of the specification that TLC checks: what both paths share,
\* and what only one of them promises.
THEOREM RequestsInvariant == Spec => []IInv
<1>1. Init => IInv
  BY InitCommon, InitSessions, InitQuiet DEF Init, GatewayInit, IInv
<1>2. IInv /\ [OnGateway \/ OnRpc]_mcVars => IInv'
  <2> SUFFICES ASSUME IInv, [OnGateway \/ OnRpc]_mcVars PROVE IInv'
    OBVIOUS
  <2>1. CASE OnGateway
    <3>1. path = "gateway" /\ path' = path /\ GatewayNext /\ Common /\ OfGateway
      BY <2>1 DEF OnGateway, IInv
    <3>2. Common' /\ OfGateway'
      BY <3>1, GatewayInductive
    <3>q. QED BY <3>1, <3>2 DEF IInv
  <2>2. CASE OnRpc
    <3>1. path = "rpc" /\ path' = path /\ RpcNext /\ Common /\ OfRpc
      BY <2>2 DEF OnRpc, IInv
    <3>2. Common' /\ OfRpc'
      BY <3>1, RpcInductive
    <3>q. QED BY <3>1, <3>2 DEF IInv
  <2>3. CASE UNCHANGED mcVars
    <3>1. path' = path /\ UNCHANGED <<network, client, server, session>>
      BY <2>3 DEF mcVars, requestVars
    <3>2. CASE path = "gateway"
      <4>1. Common /\ OfGateway
        BY <3>2 DEF IInv
      <4>2. Common' /\ OfGateway'
        BY <3>1, <4>1, GatewayStutters
      <4>q. QED BY <3>1, <3>2, <4>2 DEF IInv
    <3>3. CASE path = "rpc"
      <4>1. Common /\ OfRpc
        BY <3>3 DEF IInv
      <4>2. Common' /\ OfRpc'
        BY <3>1, <4>1, RpcStutters
      <4>q. QED BY <3>1, <3>3, <4>2 DEF IInv
    <3>q. QED BY <3>2, <3>3 DEF IInv
  <2>q. QED BY <2>1, <2>2, <2>3
<1>q. QED BY <1>1, <1>2, PTL DEF Spec

\* ResolvePending gives an answer only to the call that asked for it: an id belongs to
\* one call of the client object, and no message of an earlier object arrives, as long
\* as no connection found the decoder of an earlier one at its address.
THEOREM AnswersReachTheirCall == Spec => []AnswersOwnCall
<1>1. IInv => AnswersOwnCall
  BY CommonSays DEF IInv
<1>q. QED BY <1>1, RequestsInvariant, PTL

\* A promise is in pending_ exactly until it is answered or withdrawn: ResolvePending
\* never finds one whose caller has returned, and no caller waits in vain.
THEOREM PromisesStayAlive == Spec => []PromisesAlive
<1>1. IInv => PromisesAlive
  BY CommonSays DEF IInv
<1>q. QED BY <1>1, RequestsInvariant, PTL

\* A request that was posted once is sent, decoded, submitted and executed at most once.
THEOREM RequestsRunAtMostOnce == Spec => []AtMostOnce
<1>1. IInv => AtMostOnce
  BY CommonSays DEF IInv
<1>q. QED BY <1>1, RequestsInvariant, PTL

\* The servers' OnMessage has submitted every message that has arrived completely, in
\* order, and the decoder keeps the rest, whatever the pieces of the stream were.
THEOREM ServersReassemble == Spec => []Reassembled
<1>1. IInv => Reassembled
  BY CommonSays DEF IInv
<1>q. QED BY <1>1, RequestsInvariant, PTL

\* AddSession and RemoveSession keep one session, with a number of its own, for each
\* connection of the gateway that is up.
THEOREM SessionsFollowConnections == Spec => []SessionPerConnection
<1>1. IInv => SessionPerConnection
  BY GatewaySays DEF IInv, SessionPerConnection
<1>q. QED BY <1>1, RequestsInvariant, PTL
=============================================================================
