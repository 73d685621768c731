-------------------------- MODULE BodyStream_proofs --------------------------
(***************************************************************************)
(* Proofs about BodyStream.                                                *)
(***************************************************************************)
EXTENDS BodyStream, SequenceTheorems, WellFoundedInduction, TLAPS

Typed ==
    /\ want \in Peeks /\ want \in Seq(Nat) /\ sink \in Sinks
    /\ stage \in {"peeking", "uploading", "done", "failed"}
    /\ tees \in Streams
    /\ produced \in 0..MaxBytes
    /\ status \in [Streams -> {"open", "ended", "errored", "destroyed"}]
    /\ writing \in [Streams -> Seq(Nat)] /\ reading \in [Streams -> Seq(Nat)]
    /\ needDrain \in [Streams -> BOOLEAN] /\ paused \in [Streams -> BOOLEAN]
    /\ sourceEnded \in [Streams -> BOOLEAN]
    /\ head \in [Streams -> Seq(Nat)] /\ peek \in [Streams -> {"open", "closed"}]
    /\ received \in Seq(Nat)
    /\ asking \in BOOLEAN /\ fresh \in BOOLEAN /\ cut \in BOOLEAN
    /\ waited \in 0..IdleMs

\* p[i] is how many bytes stream i has passed on so far. A stream holds the
\* bytes that follow, and a live one has all that was passed on to it.
Bare(i) == reading[i] = <<>> /\ writing[i] = <<>>
Got(p, i) == p[i] + Len(reading[i]) + Len(writing[i])

Carried(p) ==
    /\ p \in [Streams -> Nat]
    /\ received = UpTo(p[tees])
    /\ \A i \in Streams :
           /\ reading[i] = Bytes(p[i], Len(reading[i]))
           /\ writing[i] = Bytes(p[i] + Len(reading[i]), Len(writing[i]))
           /\ Got(p, i) <= produced
           /\ i > tees => p[i] = 0
    /\ Alive(0) => Got(p, 0) = produced
    /\ \A i \in 1..tees : Alive(i) => Got(p, i) = p[i - 1]

\* A peek has the first of the bytes that passed it, and is closed once it has
\* all that it wants.
Peeked(p) ==
    \A i \in 1..tees :
        /\ head[i] = UpTo(Smaller(want[i], p[i - 1]))
        /\ peek[i] = "open" => want[i] = 0 \/ p[i - 1] < want[i]
        /\ peek[i] = "closed" => \/ p[i - 1] >= want[i]
                                \/ sourceEnded[i]
                                \/ status[i - 1] = "errored"

\* A stream that has ended got the whole body, and before it all is empty.
EndSeen(p) ==
    /\ \A i \in Streams : status[i] = "ended" => Got(p, i) = produced /\ status[0] # "open"
    /\ \A i \in 1..tees :
           /\ status[i] = "ended" => sourceEnded[i]
           /\ sourceEnded[i] =>
                  /\ p[i - 1] = produced /\ Bare(i - 1) /\ status[0] # "open"
                  /\ status[i - 1] # "open" /\ status[i] # "open"
           /\ sourceEnded[i] /\ stage # "failed" =>
                  \A j \in 0..(i - 1) : status[j] = "ended" /\ Bare(j)

\* While the upload runs only the close of the stream behind it destroys a
\* stream, so the dead ones are the last ones.
DeadHoldNothing ==
    /\ \A i \in Streams : ~Alive(i) => Bare(i)
    /\ \A i \in 1..tees :
           status[i] = "destroyed" /\ stage # "failed" => i < tees /\ ~Alive(i + 1)

\* A tee that is held back waits for a drain that will come, and one that is
\* not has room.
HeldBack ==
    /\ \A i \in 1..tees : Alive(i) =>
           /\ paused[i] => needDrain[i] /\ writing[i] # <<>>
           /\ ~paused[i] /\ ~sourceEnded[i] /\ peek[i] = "closed" => Len(writing[i]) < High
    /\ MemoryBounded

Untouched ==
    /\ writing[0] = <<>>
    /\ \A i \in Streams : i > tees =>
           /\ status[i] = "open" /\ peek[i] = "open"
           /\ Bare(i) /\ head[i] = <<>>
           /\ ~paused[i] /\ ~sourceEnded[i]

Phases ==
    /\ stage = "peeking" => received = <<>>
    /\ stage \in {"uploading", "done"} => tees = Len(want)
    /\ asking => stage = "uploading"
    /\ stage \in {"peeking", "uploading"} /\ ~asking => waited = 0
    /\ waited > 0 => sink = "guarded"
    /\ sink = "buffer" => Len(received) <= Limit
    /\ stage = "done" => status[tees] = "ended" /\ Len(received) = produced
    /\ asking /\ waited > 0 /\ ~fresh => Quiet

Chain(p) ==
    Carried(p) /\ Peeked(p) /\ EndSeen(p) /\ DeadHoldNothing /\ HeldBack /\ Untouched

IInv == Typed /\ (\E p \in [Streams -> Nat] : Chain(p)) /\ Phases
-----------------------------------------------------------------------------
\* The bytes of a stretch of the source.
LEMMA BytesType ==
    ASSUME NEW m \in Nat, NEW n \in Nat
    PROVE  /\ Bytes(m, n) \in Seq(Nat)
           /\ Len(Bytes(m, n)) = n
           /\ \A k \in 1..n : Bytes(m, n)[k] = m + k
<1>1. Bytes(m, n) \in [1..n -> Nat]
  BY DEF Bytes
<1>2. Bytes(m, n) \in Seq(Nat)
  BY <1>1, SeqDef
<1>3. DOMAIN Bytes(m, n) = 1..Len(Bytes(m, n)) /\ Len(Bytes(m, n)) \in Nat
  BY <1>2, LenProperties
<1> QED
  BY <1>1, <1>2, <1>3 DEF Bytes

\* Two stretches that meet make one.
LEMMA BytesJoin ==
    ASSUME NEW m \in Nat, NEW a \in Nat, NEW b \in Nat
    PROVE  Bytes(m, a) \o Bytes(m + a, b) = Bytes(m, a + b)
<1> DEFINE l == Bytes(m, a)
           r == Bytes(m + a, b)
           all == Bytes(m, a + b)
<1>1. /\ l \in Seq(Nat) /\ Len(l) = a /\ \A k \in 1..a : l[k] = m + k
      /\ r \in Seq(Nat) /\ Len(r) = b /\ \A k \in 1..b : r[k] = m + a + k
      /\ all \in Seq(Nat) /\ Len(all) = a + b /\ \A k \in 1..(a + b) : all[k] = m + k
  <2>1. m + a \in Nat /\ a + b \in Nat
    OBVIOUS
  <2>2. l \in Seq(Nat) /\ Len(l) = a /\ \A k \in 1..a : l[k] = m + k
    BY BytesType
  <2>3. r \in Seq(Nat) /\ Len(r) = b /\ \A k \in 1..b : r[k] = m + a + k
    BY <2>1, BytesType
  <2>4. all \in Seq(Nat) /\ Len(all) = a + b /\ \A k \in 1..(a + b) : all[k] = m + k
    BY <2>1, BytesType
  <2> QED
    BY <2>2, <2>3, <2>4
<1> HIDE DEF l, r, all
<1>2. /\ l \o r \in Seq(Nat) /\ Len(l \o r) = a + b
      /\ \A k \in 1..(a + b) : (l \o r)[k] = IF k <= a THEN l[k] ELSE r[k - a]
  <2>1. /\ l \o r \in Seq(Nat) /\ Len(l \o r) = Len(l) + Len(r)
        /\ \A k \in 1..(Len(l) + Len(r)) :
              (l \o r)[k] = IF k <= Len(l) THEN l[k] ELSE r[k - Len(l)]
    <3>1. l \in Seq(Nat) /\ r \in Seq(Nat)
      BY <1>1, Zenon
    <3> QED
      BY <3>1, ConcatProperties, Zenon
  <2>2. Len(l) = a /\ Len(r) = b
    BY <1>1, Zenon
  <2> QED
    BY <2>1, <2>2, Zenon
<1>3. ASSUME NEW k \in 1..(a + b) PROVE (l \o r)[k] = all[k]
  <2>1. all[k] = m + k
    BY <1>1
  <2>2. CASE k <= a
    <3>1. k \in 1..a
      BY <2>2
    <3>2. l[k] = m + k
      BY <1>1, <3>1
    <3> QED
      BY <1>2, <2>1, <2>2, <3>2
  <2>3. CASE ~(k <= a)
    <3>1. k - a \in 1..b
      BY <2>3
    <3>2. r[k - a] = m + a + (k - a)
      BY <1>1, <3>1
    <3>3. m + a + (k - a) = m + k
      OBVIOUS
    <3> QED
      BY <1>2, <2>1, <2>3, <3>2, <3>3
  <2> QED
    BY <2>2, <2>3
<1>4. l \o r = all
  BY <1>1, <1>2, <1>3, SeqEqual
<1> QED
  BY <1>4 DEF l, r, all

\* A part of a stretch is a stretch.
LEMMA BytesCut ==
    ASSUME NEW m \in Nat, NEW n \in Nat, NEW a \in 1..(n + 1), NEW b \in 0..n, a <= b + 1
    PROVE  SubSeq(Bytes(m, n), a, b) = Bytes(m + a - 1, b - a + 1)
<1> DEFINE s == Bytes(m, n)
           cutOut == SubSeq(s, a, b)
           all == Bytes(m + a - 1, b - a + 1)
<1>1. /\ s \in Seq(Nat) /\ Len(s) = n /\ \A k \in 1..n : s[k] = m + k
  BY BytesType
<1>2. /\ all \in Seq(Nat) /\ Len(all) = b - a + 1
      /\ \A k \in 1..(b - a + 1) : all[k] = m + a - 1 + k
  <2>1. m + a - 1 \in Nat /\ b - a + 1 \in Nat
    OBVIOUS
  <2> QED
    BY <2>1, BytesType
<1> HIDE DEF s, all
<1>3. \A i \in a..b : s[i] \in Nat
  BY <1>1
<1>4. /\ cutOut \in Seq(Nat) /\ Len(cutOut) = (IF a <= b THEN b - a + 1 ELSE 0)
      /\ \A i \in 1..(b - a + 1) : cutOut[i] = s[a + i - 1]
  BY <1>3, SubSeqProperties
<1> HIDE DEF cutOut
<1>5. Len(cutOut) = Len(all)
  BY <1>2, <1>4
<1>6. ASSUME NEW i \in 1..Len(cutOut) PROVE cutOut[i] = all[i]
  <2>1. i \in 1..(b - a + 1)
    BY <1>2, <1>5
  <2>2. cutOut[i] = s[a + i - 1] /\ all[i] = m + a - 1 + i
    BY <1>2, <1>4, <2>1
  <2>3. a + i - 1 \in 1..n
    BY <2>1
  <2>4. s[a + i - 1] = m + (a + i - 1)
    BY <1>1, <2>3
  <2>5. m + (a + i - 1) = m + a - 1 + i
    BY <2>1
  <2> QED
    BY <2>2, <2>4, <2>5
<1>7. cutOut = all
  BY <1>2, <1>4, <1>5, <1>6, SeqEqual
<1> QED
  BY <1>7 DEF cutOut, all, s

\* No bytes are the empty sequence, and only that one has length 0.
LEMMA NoBytes ==
    /\ \A s \in Seq(Nat) : Len(s) \in Nat /\ (Len(s) = 0 <=> s = <<>>)
    /\ Len(<<>>) = 0 /\ <<>> \in Seq(Nat)
    /\ \A m \in Nat : Bytes(m, 0) = <<>>
<1>1. /\ \A s \in Seq(Nat) : Len(s) \in Nat /\ (Len(s) = 0 <=> s = <<>>)
      /\ Len(<<>>) = 0 /\ <<>> \in Seq(Nat)
  BY EmptySeq, LenProperties
<1>2. ASSUME NEW m \in Nat PROVE Bytes(m, 0) = <<>>
  BY <1>1, BytesType
<1> QED
  BY <1>1, <1>2

\* A stream that holds nothing has nothing to be read or transformed.
LEMMA HeldNothing ==
    ASSUME Typed, NEW i \in Streams
    PROVE  Held(i) = <<>> <=> Bare(i)
<1>1. reading[i] \in Seq(Nat) /\ writing[i] \in Seq(Nat)
  BY DEF Typed
<1> QED
  BY <1>1, ConcatEqualIffEmpty, ConcatProperties, NoBytes DEF Held, Bare

\* The streams are the numbers from 0 on, and the bounds are numbers.
LEMMA Numbers ==
    ASSUME Typed
    PROVE  /\ Len(want) \in Nat /\ Streams = 0..Len(want) /\ tees \in Nat
           /\ \A i \in 1..tees : i \in Streams /\ i - 1 \in Streams /\ want[i] \in Nat
           /\ 0 \in Streams
           /\ High \in Nat \ {0} /\ IdleMs \in Nat \ {0} /\ MaxChunk \in Nat \ {0}
           /\ Limit \in Nat /\ MaxBytes \in Nat /\ produced \in Nat
<1>1. Len(want) \in Nat /\ \A i \in 1..Len(want) : want[i] \in Nat
  BY LenProperties, ElementOfSeq DEF Typed
<1> QED
  BY <1>1, BodyAssumption DEF Typed, Streams
-----------------------------------------------------------------------------
\* Destroying streams keeps the chain in order, as long as before the upload
\* has failed none is destroyed that a later one has read to its end, and none
\* but an error's own whose successor lives.
LEMMA DestroyedKeeps ==
    ASSUME Typed, NEW p, Chain(p), NEW dead \in SUBSET (0..tees),
           NEW how \in {"errored", "destroyed"}, Destroyed(dead, how),
           p \in [Streams -> Nat], stage' \in {stage, "failed"},
           UNCHANGED <<want, sink, tees, flow, sourceEnded, head, received, produced>>,
           peek' \in [Streams -> {"open", "closed"}],
           \A j \in Streams :
               \/ peek'[j] = peek[j]
               \/ j \in 1..tees /\ j \in dead /\ peek'[j] = "closed" /\ status[j - 1] = "errored",
           stage' # "failed" =>
               /\ \A j \in dead, k \in 1..tees : sourceEnded[k] => k <= j
               /\ how = "destroyed" => \A j \in dead : j > 0 => j < tees /\ ~Alive(j + 1)
    PROVE  /\ status' \in [Streams -> {"open", "ended", "errored", "destroyed"}]
           /\ reading' \in [Streams -> Seq(Nat)] /\ writing' \in [Streams -> Seq(Nat)]
           /\ Chain(p)'
<1>1. /\ Streams' = Streams /\ tees' = tees /\ produced' = produced /\ want' = want
      /\ head' = head /\ sourceEnded' = sourceEnded /\ paused' = paused /\ needDrain' = needDrain
      /\ received' = received
  BY DEF Streams, flow
<1>n. /\ tees \in Nat /\ Streams = 0..Len(want) /\ 0 \in Streams
      /\ \A i \in 1..tees : i \in Streams /\ i - 1 \in Streams /\ want[i] \in Nat
      /\ dead \subseteq Streams
  <2>1. /\ tees \in Nat /\ Len(want) \in Nat /\ Streams = 0..Len(want) /\ 0 \in Streams
        /\ \A i \in 1..tees : i \in Streams /\ i - 1 \in Streams /\ want[i] \in Nat
    BY Numbers
  <2>2. tees \in Streams
    BY DEF Typed
  <2> QED
    BY <2>1, <2>2
<1>2. /\ status' \in [Streams -> {"open", "ended", "errored", "destroyed"}]
      /\ reading' \in [Streams -> Seq(Nat)] /\ writing' \in [Streams -> Seq(Nat)]
  BY NoBytes DEF Destroyed, Typed
<1>3. \A i \in Streams :
          /\ i \in dead => Bare(i)' /\ ~Alive(i)'
          /\ i \notin dead => /\ status'[i] = status[i] /\ (Alive(i)' <=> Alive(i))
                            /\ reading'[i] = reading[i] /\ writing'[i] = writing[i]
                            /\ (Bare(i)' <=> Bare(i))
          /\ Bare(i) => Bare(i)'
          /\ Alive(i)' => i \notin dead /\ Alive(i)
          /\ status'[i] = "ended" => i \notin dead
          /\ status[i] # "open" => status'[i] # "open"
          /\ status[i] = "errored" => status'[i] = "errored"
  BY <1>n DEF Destroyed, Typed, Alive, Bare
<1>4. ASSUME NEW i \in Streams
      PROVE  p[i] \in Nat /\ Len(reading[i]) \in Nat /\ Len(writing[i]) \in Nat
  BY NoBytes DEF Typed
<1>5. \A i \in Streams : i \notin dead => Got(p, i)' = Got(p, i)
  BY <1>3 DEF Got
<1>6. ASSUME NEW i \in Streams, i \in dead
      PROVE  Got(p, i)' = p[i] /\ p[i] <= Got(p, i)
  <2>1. Len(reading'[i]) = 0 /\ Len(writing'[i]) = 0
    BY <1>3, <1>6, NoBytes DEF Bare
  <2> QED
    BY <1>4, <2>1 DEF Got
<1>7. Carried(p)'
  <2>1. ASSUME NEW i \in Streams
        PROVE  /\ reading'[i] = Bytes(p[i], Len(reading'[i]))
               /\ writing'[i] = Bytes(p[i] + Len(reading'[i]), Len(writing'[i]))
    <3>1. CASE i \in dead
      <4>1. /\ reading'[i] = <<>> /\ writing'[i] = <<>> /\ Len(<<>>) = 0
            /\ Bytes(p[i], 0) = <<>> /\ p[i] + 0 = p[i]
        BY <1>3, <1>4, <3>1, NoBytes DEF Bare
      <4> QED
        BY <4>1
    <3>2. CASE i \notin dead
      BY <1>3, <3>2 DEF Chain, Carried
    <3> QED
      BY <3>1, <3>2
  <2>2. ASSUME NEW i \in Streams PROVE Got(p, i)' <= produced
    <3>1. Got(p, i) <= produced /\ Got(p, i) \in Nat /\ produced \in Nat
      <4>1. Got(p, i) <= produced
        BY DEF Chain, Carried
      <4>2. Got(p, i) \in Nat
        BY <1>4 DEF Got
      <4> QED
        BY <4>1, <4>2, Numbers
    <3>2. CASE i \in dead
      BY <1>4, <1>6, <3>1, <3>2
    <3>3. CASE i \notin dead
      BY <1>5, <3>1, <3>3
    <3> QED
      BY <3>2, <3>3
  <2>3. \A i \in Streams : i > tees => p[i] = 0
    BY DEF Chain, Carried
  <2>4. Alive(0)' => Got(p, 0)' = produced
    BY <1>n, <1>3, <1>5 DEF Chain, Carried
  <2>5. \A i \in 1..tees : Alive(i)' => Got(p, i)' = p[i - 1]
    BY <1>n, <1>3, <1>5 DEF Chain, Carried
  <2>6. received' = UpTo(p[tees])
    BY <1>1 DEF Chain, Carried
  <2> QED
    BY <1>1, <2>1, <2>2, <2>3, <2>4, <2>5, <2>6 DEF Carried, UpTo, Bytes
<1>8. Peeked(p)'
  <2>1. ASSUME NEW i \in 1..tees
        PROVE  /\ head[i] = UpTo(Smaller(want[i], p[i - 1]))
               /\ peek'[i] = "open" => want[i] = 0 \/ p[i - 1] < want[i]
               /\ peek'[i] = "closed" => \/ p[i - 1] >= want[i]
                                        \/ sourceEnded[i]
                                        \/ status'[i - 1] = "errored"
    <3>1. /\ i \in Streams /\ i - 1 \in Streams
          /\ \/ peek'[i] = peek[i]
             \/ peek'[i] = "closed" /\ status[i - 1] = "errored"
      BY <1>n, Zenon
    <3>2. /\ head[i] = UpTo(Smaller(want[i], p[i - 1]))
          /\ peek[i] = "open" => want[i] = 0 \/ p[i - 1] < want[i]
          /\ peek[i] = "closed" => \/ p[i - 1] >= want[i]
                                  \/ sourceEnded[i]
                                  \/ status[i - 1] = "errored"
      BY Zenon DEF Chain, Peeked
    <3>3. status[i - 1] = "errored" => status'[i - 1] = "errored"
      BY <1>3, <3>1, Zenon
    <3> QED
      BY <3>1, <3>2, <3>3
  <2> QED
    BY <1>1, <2>1 DEF Peeked, UpTo, Bytes, Smaller
<1>9. EndSeen(p)'
  <2>1. \A i \in Streams : status'[i] = "ended" => Got(p, i)' = produced /\ status'[0] # "open"
    BY <1>n, <1>3, <1>5 DEF Chain, EndSeen
  <2>2. ASSUME NEW i \in 1..tees, sourceEnded[i], stage' # "failed", NEW j \in 0..(i - 1)
        PROVE  status'[j] = "ended" /\ Bare(j)'
    <3>1. j \notin dead /\ j \in Streams
      BY <1>n, <2>2
    <3>2. status[j] = "ended" /\ Bare(j)
      BY <2>2 DEF Chain, EndSeen
    <3> QED
      BY <1>3, <3>1, <3>2
  <2>3. ASSUME NEW i \in 1..tees
        PROVE  /\ status'[i] = "ended" => sourceEnded[i]
               /\ sourceEnded[i] => /\ p[i - 1] = produced /\ Bare(i - 1)' /\ status'[0] # "open"
                                    /\ status'[i - 1] # "open" /\ status'[i] # "open"
    <3>1. /\ status[i] = "ended" => sourceEnded[i]
          /\ sourceEnded[i] => /\ p[i - 1] = produced /\ Bare(i - 1) /\ status[0] # "open"
                               /\ status[i - 1] # "open" /\ status[i] # "open"
      BY DEF Chain, EndSeen
    <3>2. i \in Streams /\ i - 1 \in Streams /\ 0 \in Streams
      BY <1>n
    <3>3. status'[i] = "ended" => status[i] = "ended"
      BY <1>3, <3>2
    <3> QED
      BY <1>3, <3>1, <3>2, <3>3
  <2> QED
    BY <1>1, <2>1, <2>2, <2>3 DEF EndSeen
<1>10. DeadHoldNothing'
  <2>1. \A i \in Streams : ~Alive(i)' => Bare(i)'
    BY <1>3 DEF Chain, DeadHoldNothing
  <2>2. ASSUME NEW i \in 1..tees, status'[i] = "destroyed", stage' # "failed"
        PROVE  i < tees /\ ~Alive(i + 1)'
    <3>1. i < tees /\ ~Alive(i + 1)
      <4>1. CASE i \in dead /\ Alive(i)
        <5>1. how = "destroyed"
          BY <1>n, <2>2, <4>1 DEF Destroyed
        <5> QED
          BY <2>2, <4>1, <5>1
      <4>2. CASE ~(i \in dead /\ Alive(i))
        <5>1. status[i] = "destroyed"
          BY <1>n, <2>2, <4>2 DEF Destroyed
        <5> QED
          BY <2>2, <5>1 DEF Chain, DeadHoldNothing
      <4> QED
        BY <4>1, <4>2
    <3> QED
      <4>1. i + 1 \in Streams
        BY <1>n, <3>1
      <4> QED
        BY <1>3, <3>1, <4>1
  <2> QED
    BY <1>1, <2>1, <2>2 DEF DeadHoldNothing
<1>11. HeldBack'
  <2>1. ASSUME NEW i \in 1..tees, Alive(i)'
        PROVE  /\ paused[i] => needDrain[i] /\ writing'[i] # <<>>
               /\ ~paused[i] /\ ~sourceEnded[i] /\ peek'[i] = "closed" => Len(writing'[i]) < High
    <3>1. i \in Streams /\ i \notin dead /\ Alive(i) /\ writing'[i] = writing[i]
      BY <1>n, <1>3, <2>1
    <3>2. peek'[i] = peek[i]
      BY <3>1
    <3> QED
      BY <3>1, <3>2 DEF Chain, HeldBack
  <2>2. ASSUME NEW i \in 1..tees, want[i] > 0
        PROVE  Len(writing'[i]) < MaxChunk + (IF want[i] > High THEN want[i] ELSE High)
    <3>1. CASE i \in dead
      <4>1. Len(writing'[i]) = 0
        BY <1>n, <1>3, <3>1, NoBytes DEF Bare
      <4> QED
        BY <1>n, <4>1, Numbers
    <3>2. CASE i \notin dead
      BY <1>n, <1>3, <2>2, <3>2 DEF Chain, HeldBack, MemoryBounded
    <3> QED
      BY <3>1, <3>2
  <2> QED
    BY <1>1, <2>1, <2>2 DEF HeldBack, MemoryBounded
<1>12. Untouched'
  <2>1. writing'[0] = <<>>
    BY <1>n, <1>3 DEF Chain, Untouched, Destroyed
  <2>2. ASSUME NEW i \in Streams, i > tees
        PROVE  /\ status'[i] = "open" /\ peek'[i] = "open" /\ Bare(i)' /\ head[i] = <<>>
               /\ ~paused[i] /\ ~sourceEnded[i]
    <3>1. i \notin dead /\ i \notin 1..tees
      BY <1>n, <2>2
    <3> QED
      BY <1>3, <2>2, <3>1 DEF Chain, Untouched
  <2> QED
    BY <1>1, <2>1, <2>2 DEF Untouched, Bare
<1> QED
  BY <1>2, <1>7, <1>8, <1>9, <1>10, <1>11, <1>12 DEF Chain

\* A step that leaves the streams alone leaves the chain in order.
LEMMA ChainSame ==
    ASSUME NEW p, Chain(p), stage' # "failed" => stage # "failed",
           UNCHANGED <<want, tees, produced, status, writing, reading, flow, sourceEnded, head,
                       peek, received>>
    PROVE  Chain(p)'
<1>1. /\ Streams' = Streams /\ tees' = tees /\ produced' = produced /\ want' = want
      /\ status' = status /\ writing' = writing /\ reading' = reading
      /\ head' = head /\ sourceEnded' = sourceEnded /\ paused' = paused /\ needDrain' = needDrain
      /\ received' = received /\ peek' = peek
  BY DEF Streams, flow
<1>2. \A i : /\ Alive(i)' <=> Alive(i)
             /\ Bare(i)' <=> Bare(i)
             /\ Got(p, i)' = Got(p, i)
  BY <1>1 DEF Alive, Bare, Got
<1>3. Carried(p)'
  BY <1>1, <1>2 DEF Chain, Carried, UpTo, Bytes
<1>4. Peeked(p)'
  BY <1>1 DEF Chain, Peeked, UpTo, Bytes, Smaller
<1>5. EndSeen(p)'
  BY <1>1, <1>2 DEF Chain, EndSeen
<1>6. DeadHoldNothing'
  BY <1>1, <1>2 DEF Chain, DeadHoldNothing
<1>7. HeldBack'
  BY <1>1, <1>2 DEF Chain, HeldBack, MemoryBounded
<1>8. Untouched'
  BY <1>1, <1>2 DEF Chain, Untouched
<1> QED
  BY <1>3, <1>4, <1>5, <1>6, <1>7, <1>8 DEF Chain

\* A step of the library contradicts that all is quiet.
LEMMA NotQuiet ==
    ASSUME Phases, \/ \E i \in 1..tees : DataReady(i) \/ EndReady(i) \/ ErrorReady(i) \/ CloseReady(i)
                   \/ \E i \in Streams : TransformReady(i)
                   \/ TakeReady \/ FinishReady \/ BreakReady
    PROVE  ~(asking /\ waited > 0 /\ ~fresh)
BY DEF Phases, Quiet
-----------------------------------------------------------------------------
\* No stream holds a byte yet, and each has passed on 0.
LEMMA InitInv == Init => IInv
<1> SUFFICES ASSUME Init PROVE IInv
  OBVIOUS
<1> DEFINE p == [i \in Streams |-> 0]
<1>1. want \in Seq(Nat) /\ Len(want) \in Nat /\ (want = <<>> <=> Len(want) = 0)
  BY BodyAssumption, EmptySeq, LenProperties DEF Init
<1>2. Typed
  BY <1>1, NoBytes, BodyAssumption DEF Init, Typed, Streams
<1>3. p \in [Streams -> Nat] /\ \A i \in Streams : Got(p, i) = 0 /\ Bare(i) /\ Alive(i)
  BY NoBytes DEF Init, Got, Bare, Alive
<1>n. /\ tees \in Nat /\ tees \in Streams /\ Streams = 0..Len(want)
      /\ \A i \in 1..tees : i \in Streams /\ i - 1 \in Streams /\ want[i] \in Nat
      /\ High > 0 /\ High \in Nat /\ MaxChunk > 0 /\ MaxChunk \in Nat
  <2>1. tees \in Streams
    BY <1>2 DEF Typed
  <2> QED
    BY <1>2, <2>1, Numbers
<1>4. Chain(p)
  <2>1. Carried(p)
    <3>1. received = UpTo(p[tees])
      BY <1>n, NoBytes DEF Init, UpTo
    <3>2. \A i \in Streams : /\ reading[i] = Bytes(p[i], Len(reading[i]))
                            /\ writing[i] = Bytes(p[i] + Len(reading[i]), Len(writing[i]))
      BY NoBytes DEF Init
    <3>3. \A i \in Streams : Got(p, i) = p[i] /\ p[i] = 0 /\ p[i] <= produced
      BY <1>3 DEF Init
    <3>4. \A i \in 1..tees : Got(p, i) = p[i - 1]
      BY <1>n, <3>3
    <3>5. Got(p, 0) = produced
      <4>1. 0 \in Streams /\ produced = 0
        BY <1>1, <1>n DEF Init
      <4> QED
        BY <1>3, <4>1
    <3> HIDE DEF p
    <3> QED
      BY <1>3, <3>1, <3>2, <3>3, <3>4, <3>5 DEF Carried
  <2>2. Peeked(p)
    <3>1. ASSUME NEW i \in 1..tees PROVE head[i] = UpTo(Smaller(want[i], p[i - 1]))
      <4>1. Smaller(want[i], p[i - 1]) = 0
        BY <1>n DEF Smaller
      <4> QED
        BY <1>n, <4>1, NoBytes DEF Init, UpTo
    <3> QED
      BY <1>n, <3>1 DEF Init, Peeked
  <2>3. EndSeen(p) /\ DeadHoldNothing
    BY <1>3, <1>n DEF Init, EndSeen, DeadHoldNothing, Alive
  <2>4. HeldBack /\ Untouched
    <3>1. MemoryBounded
      BY <1>n, NoBytes DEF Init, MemoryBounded
    <3> QED
      BY <1>3, <1>n, <3>1, NoBytes DEF Init, HeldBack, Untouched
  <2> QED
    BY <2>1, <2>2, <2>3, <2>4 DEF Chain
<1>5. Phases
  BY <1>1, BodyAssumption, NoBytes DEF Init, Phases
<1> HIDE DEF p
<1> QED
  BY <1>2, <1>3, <1>4, <1>5 DEF IInv

\* The facts about the chain that a step's proof starts from.
LEMMA ChainTypes ==
    ASSUME Typed, NEW p \in [Streams -> Nat]
    PROVE  /\ tees \in Nat /\ tees \in Streams /\ Len(want) \in Nat /\ Streams = 0..Len(want)
           /\ 0 \in Streams /\ produced \in Nat
           /\ \A i \in 1..tees : i \in Streams /\ i - 1 \in Streams /\ want[i] \in Nat
           /\ \A i \in Streams :
                  /\ p[i] \in Nat /\ Len(reading[i]) \in Nat /\ Len(writing[i]) \in Nat
                  /\ Got(p, i) = p[i] + Len(reading[i]) + Len(writing[i]) /\ Got(p, i) \in Nat
                  /\ reading[i] \in Seq(Nat) /\ writing[i] \in Seq(Nat)
                  /\ (Bare(i) => Len(reading[i]) = 0 /\ Len(writing[i]) = 0)
                  /\ (Len(reading[i]) = 0 /\ Len(writing[i]) = 0 => Bare(i))
<1>1. tees \in Streams
  BY DEF Typed
<1>2. ASSUME NEW i \in Streams
      PROVE  /\ p[i] \in Nat /\ Len(reading[i]) \in Nat /\ Len(writing[i]) \in Nat
             /\ reading[i] \in Seq(Nat) /\ writing[i] \in Seq(Nat)
  BY NoBytes DEF Typed
<1>3. ASSUME NEW i \in Streams
      PROVE  /\ Got(p, i) = p[i] + Len(reading[i]) + Len(writing[i]) /\ Got(p, i) \in Nat
             /\ (Bare(i) => Len(reading[i]) = 0 /\ Len(writing[i]) = 0)
             /\ (Len(reading[i]) = 0 /\ Len(writing[i]) = 0 => Bare(i))
  BY <1>2, NoBytes DEF Got, Bare
<1> QED
  BY <1>1, <1>2, <1>3, Numbers

\* The source ends with all that it delivered passed on or still held.
LEMMA SourceEndsStep ==
    ASSUME Typed, NEW p \in [Streams -> Nat], Chain(p), Phases, SourceEnds
    PROVE  IInv'
<1>n. /\ tees \in Nat /\ 0 \in Streams
      /\ \A i \in 1..tees : i \in Streams /\ i - 1 \in Streams
  BY ChainTypes
<1>1. /\ Streams' = Streams /\ tees' = tees /\ produced' = produced /\ want' = want
      /\ writing' = writing /\ reading' = reading /\ stage' = stage /\ sink' = sink
      /\ head' = head /\ sourceEnded' = sourceEnded /\ paused' = paused /\ needDrain' = needDrain
      /\ received' = received /\ peek' = peek /\ asking' = asking /\ waited' = waited /\ cut' = cut
      /\ fresh' = TRUE /\ status' = [status EXCEPT ![0] = "ended"] /\ status[0] = "open"
  BY DEF SourceEnds, service, flow, reader, Streams
<1>2. Typed'
  BY <1>1 DEF Typed
<1>3. \A i \in Streams :
          /\ (Alive(i)' <=> Alive(i)) /\ (Bare(i)' <=> Bare(i)) /\ Got(p, i)' = Got(p, i)
          /\ i # 0 => status'[i] = status[i]
          /\ status'[0] = "ended" /\ Alive(0)
          /\ status[i] = "ended" => status'[i] = "ended"
          /\ status[i] # "open" => status'[i] = status[i]
  BY <1>n, <1>1 DEF Alive, Bare, Got, Typed
<1>4. Carried(p)'
  <2>1. received = UpTo(p[tees]) /\ (Alive(0)' => Got(p, 0)' = produced)
    BY <1>n, <1>3 DEF Chain, Carried
  <2>2. \A i \in 1..tees : Alive(i)' => Got(p, i)' = p[i - 1]
    BY <1>n, <1>3 DEF Chain, Carried
  <2>3. \A i \in Streams : /\ reading[i] = Bytes(p[i], Len(reading[i]))
                         /\ writing[i] = Bytes(p[i] + Len(reading[i]), Len(writing[i]))
    BY DEF Chain, Carried
  <2>4. \A i \in Streams : Got(p, i)' <= produced
    BY <1>3 DEF Chain, Carried
  <2>5. \A i \in Streams : i > tees => p[i] = 0
    BY DEF Chain, Carried
  <2> QED
    BY <1>1, <2>1, <2>2, <2>3, <2>4, <2>5 DEF Carried, UpTo, Bytes
<1>5. Peeked(p)'
  BY <1>n, <1>1, <1>3 DEF Chain, Peeked, UpTo, Bytes, Smaller
<1>6. EndSeen(p)'
  <2>1. \A i \in Streams : status'[i] = "ended" => Got(p, i)' = produced /\ status'[0] # "open"
    <3>1. Got(p, 0)' = produced
      BY <1>n, <1>3 DEF Chain, Carried
    <3> QED
      BY <1>n, <1>3, <3>1 DEF Chain, EndSeen
  <2>2. ASSUME NEW i \in 1..tees
        PROVE  /\ status'[i] = "ended" => sourceEnded[i]
               /\ sourceEnded[i] => /\ p[i - 1] = produced /\ Bare(i - 1)' /\ status'[0] # "open"
                                    /\ status'[i - 1] # "open" /\ status'[i] # "open"
    BY <1>n, <1>1, <1>3 DEF Chain, EndSeen
  <2>3. ASSUME NEW i \in 1..tees, sourceEnded[i], stage # "failed", NEW j \in 0..(i - 1)
        PROVE  status'[j] = "ended" /\ Bare(j)'
    BY <1>n, <1>1, <1>3, <2>3 DEF Chain, EndSeen
  <2> QED
    BY <1>1, <2>1, <2>2, <2>3 DEF EndSeen
<1>7. DeadHoldNothing'
  <2>1. \A i \in Streams : ~Alive(i)' => Bare(i)'
    BY <1>3 DEF Chain, DeadHoldNothing
  <2>2. ASSUME NEW i \in 1..tees, status'[i] = "destroyed", stage # "failed"
        PROVE  i < tees /\ ~Alive(i + 1)'
    <3>1. i < tees /\ ~Alive(i + 1)
      BY <1>n, <1>3, <2>2 DEF Chain, DeadHoldNothing
    <3>2. i + 1 \in Streams
      BY <1>n, <3>1
    <3> QED
      BY <1>3, <3>1, <3>2
  <2> QED
    BY <1>1, <2>1, <2>2 DEF DeadHoldNothing
<1>8. HeldBack'
  <2>1. \A i \in 1..tees : Alive(i)' => Alive(i)
    BY <1>n, <1>3
  <2> QED
    BY <1>1, <2>1 DEF Chain, HeldBack, MemoryBounded
<1>10. Untouched'
  BY <1>n, <1>1, <1>3 DEF Chain, Untouched
<1>9. Phases'
  BY <1>n, <1>1, <1>3 DEF Phases, Typed
<1> QED
  BY <1>1, <1>2, <1>4, <1>5, <1>6, <1>7, <1>8, <1>9, <1>10 DEF IInv, Chain

\* A source that breaks loses what it holds; no tee has seen its end.
LEMMA SourceBreaksStep ==
    ASSUME Typed, NEW p \in [Streams -> Nat], Chain(p), Phases, SourceBreaks
    PROVE  IInv'
<1>n. tees \in Nat /\ 0 \in Streams
  BY ChainTypes
<1>1. PICK how \in {"errored", "destroyed"} : Destroyed({0}, how)
  BY DEF SourceBreaks
<1>2. /\ UNCHANGED <<want, sink, stage, tees, flow, sourceEnded, head, received, produced, peek>>
      /\ UNCHANGED <<asking, waited, cut>> /\ fresh' = TRUE /\ status[0] = "open"
  BY DEF SourceBreaks, service, reader
<1>3. \A k \in 1..tees : ~sourceEnded[k]
  BY <1>2 DEF Chain, EndSeen
<1>4. /\ status' \in [Streams -> {"open", "ended", "errored", "destroyed"}]
      /\ reading' \in [Streams -> Seq(Nat)] /\ writing' \in [Streams -> Seq(Nat)]
      /\ Chain(p)'
  <2>1. {0} \in SUBSET (0..tees)
    BY <1>n
  <2>2. peek' \in [Streams -> {"open", "closed"}] /\ \A j \in Streams : peek'[j] = peek[j]
    BY <1>2 DEF Typed
  <2> QED
    BY <1>1, <1>2, <1>3, <2>1, <2>2, DestroyedKeeps
<1>5. Typed'
  BY <1>2, <1>4 DEF Typed, Streams, flow
<1>6. Phases'
  <2>1. stage # "done"
    BY <1>2, <1>3 DEF Phases, Chain, EndSeen, Typed, Streams
  <2> QED
    BY <1>2, <2>1 DEF Phases
<1> QED
  BY <1>2, <1>4, <1>5, <1>6 DEF IInv, Streams

\* An error moves one stream on and takes what that stream holds.
LEMMA ErrorStep ==
    ASSUME Typed, NEW p \in [Streams -> Nat], Chain(p), Phases, NEW i \in 1..tees, Error(i)
    PROVE  IInv'
<1>n. tees \in Nat /\ \A j \in 1..tees : j \in Streams /\ j - 1 \in Streams
  BY ChainTypes
<1>1. /\ UNCHANGED <<want, sink, stage, tees, flow, sourceEnded, head, received, produced>>
      /\ UNCHANGED <<asking, waited, cut, fresh>> /\ peek' = [peek EXCEPT ![i] = "closed"]
      /\ Destroyed({i}, "errored") /\ status[i - 1] = "errored" /\ ErrorReady(i)
  BY DEF Error, service, reader, Fail, ErrorReady
<1>2. ~sourceEnded[i] \/ stage = "failed"
  <2>1. i - 1 \in 0..(i - 1)
    BY <1>n
  <2> QED
    BY <1>1, <2>1 DEF Chain, EndSeen
<1>3. stage # "failed" => status[i] # "ended"
  BY <1>2 DEF Chain, EndSeen
<1>4. ASSUME stage # "failed", NEW k \in 1..tees, sourceEnded[k] PROVE k <= i
  <2>1. SUFFICES ASSUME k > i PROVE FALSE
    BY <1>n
  <2>2. i \in 0..(k - 1)
    BY <1>n, <2>1
  <2>3. status[i] = "ended"
    BY <1>4, <2>2 DEF Chain, EndSeen
  <2> QED
    BY <1>3, <1>4, <2>3
<1>5. /\ status' \in [Streams -> {"open", "ended", "errored", "destroyed"}]
      /\ reading' \in [Streams -> Seq(Nat)] /\ writing' \in [Streams -> Seq(Nat)]
      /\ Chain(p)'
  <2>1. {i} \in SUBSET (0..tees)
    BY <1>n
  <2>2. peek' \in [Streams -> {"open", "closed"}]
    BY <1>1 DEF Typed
  <2>3. \A j \in Streams :
            \/ peek'[j] = peek[j]
            \/ j \in 1..tees /\ j \in {i} /\ peek'[j] = "closed" /\ status[j - 1] = "errored"
    BY <1>1 DEF Typed
  <2> QED
    BY <1>1, <1>4, <2>1, <2>2, <2>3, DestroyedKeeps
<1>6. Typed'
  BY <1>1, <1>5 DEF Typed, Streams, flow
<1>7. Phases'
  <2>1. ~(asking /\ waited > 0 /\ ~fresh)
    BY <1>1, NotQuiet
  <2>2. stage = "done" => status'[tees] = "ended"
    <3>1. stage = "done" => tees # i /\ status[tees] = "ended" /\ tees \in Streams
      BY <1>3 DEF Phases, Typed
    <3> QED
      BY <1>1, <3>1 DEF Destroyed
  <2> QED
    BY <1>1, <2>1, <2>2 DEF Phases
<1> QED
  BY <1>1, <1>5, <1>6, <1>7 DEF IInv, Streams

\* A close destroys the stream before one that died without having read it to its end.
LEMMA CloseStep ==
    ASSUME Typed, NEW p \in [Streams -> Nat], Chain(p), Phases, NEW i \in 1..tees, Close(i)
    PROVE  IInv'
<1>n. tees \in Nat /\ \A j \in 1..tees : j \in Streams /\ j - 1 \in Streams
  BY ChainTypes
<1>1. /\ UNCHANGED <<want, sink, stage, tees, flow, sourceEnded, head, received, produced, peek>>
      /\ UNCHANGED <<asking, waited, cut, fresh>>
      /\ Destroyed({i - 1}, "destroyed") /\ ~Alive(i) /\ ~sourceEnded[i] /\ CloseReady(i)
  BY DEF Close, service, reader, CloseReady
<1>2. ASSUME stage # "failed", NEW k \in 1..tees, sourceEnded[k] PROVE k <= i - 1
  <2>1. SUFFICES ASSUME k > i PROVE FALSE
    BY <1>n, <1>1, <1>2
  <2>2. i \in 0..(k - 1)
    BY <1>n, <2>1
  <2>3. status[i] = "ended"
    BY <1>2, <2>2 DEF Chain, EndSeen
  <2> QED
    BY <1>1, <2>3 DEF Alive
<1>3. /\ status' \in [Streams -> {"open", "ended", "errored", "destroyed"}]
      /\ reading' \in [Streams -> Seq(Nat)] /\ writing' \in [Streams -> Seq(Nat)]
      /\ Chain(p)'
  <2>1. {i - 1} \in SUBSET (0..tees)
    BY <1>n
  <2>2. peek' \in [Streams -> {"open", "closed"}] /\ \A j \in Streams : peek'[j] = peek[j]
    BY <1>1 DEF Typed
  <2>3. \A j \in {i - 1} : j > 0 => j < tees /\ ~Alive(j + 1)
    BY <1>n, <1>1
  <2> QED
    BY <1>1, <1>2, <2>1, <2>2, <2>3, DestroyedKeeps
<1>4. Typed'
  BY <1>1, <1>3 DEF Typed, Streams, flow
<1>5. Phases'
  <2>1. ~(asking /\ waited > 0 /\ ~fresh)
    BY <1>1, NotQuiet
  <2>2. stage = "done" => status'[tees] = "ended"
    <3>1. tees # i - 1 /\ tees \in Streams
      BY <1>n DEF Typed
    <3> QED
      BY <1>1, <3>1 DEF Destroyed, Phases
  <2> QED
    BY <1>1, <2>1, <2>2 DEF Phases
<1> QED
  BY <1>1, <1>3, <1>4, <1>5 DEF IInv, Streams

\* The steps that end an upload in failure: they destroy one stream.
LEMMA FailedStep ==
    ASSUME Typed, NEW p \in [Streams -> Nat], Chain(p), Phases,
           NEW i \in 0..tees, Destroyed({i}, "destroyed"), stage' = "failed",
           stage = "uploading" => ~asking',
           UNCHANGED <<want, sink, tees, flow, sourceEnded, head, received, produced, peek>>,
           cut' \in BOOLEAN, fresh' \in BOOLEAN, asking' \in {asking, FALSE}, waited' \in {waited, 0}
    PROVE  IInv'
<1>n. tees \in Nat
  BY ChainTypes
<1>1. /\ status' \in [Streams -> {"open", "ended", "errored", "destroyed"}]
      /\ reading' \in [Streams -> Seq(Nat)] /\ writing' \in [Streams -> Seq(Nat)]
      /\ Chain(p)'
  <2>1. {i} \in SUBSET (0..tees)
    BY <1>n
  <2>2. peek' \in [Streams -> {"open", "closed"}] /\ \A j \in Streams : peek'[j] = peek[j]
    BY DEF Typed
  <2> QED
    BY <2>1, <2>2, DestroyedKeeps
<1>2. Typed'
  <2>1. waited' \in 0..IdleMs /\ asking' \in BOOLEAN
    <3>1. IdleMs \in Nat /\ waited \in 0..IdleMs /\ asking \in BOOLEAN
      BY Numbers DEF Typed
    <3>2. 0 \in 0..IdleMs
      BY <3>1
    <3> QED
      BY <3>1, <3>2
  <2>2. Streams' = Streams
    BY DEF Streams
  <2> QED
    BY <1>1, <2>1, <2>2 DEF Typed, flow
<1>3. Phases'
  <2>1. asking' = FALSE
    BY DEF Phases, Typed
  <2>2. waited' > 0 => sink = "guarded"
    BY DEF Phases
  <2> QED
    BY <2>1, <2>2 DEF Phases
<1> QED
  BY <1>1, <1>2, <1>3 DEF IInv, Streams

\* A refusal destroys the source.
LEMMA RejectStep ==
    ASSUME Typed, NEW p \in [Streams -> Nat], Chain(p), Phases, Reject
    PROVE  IInv'
<1>1. 0 \in 0..tees
  BY ChainTypes
<1> QED
  BY <1>1, FailedStep DEF Reject, reader, Typed, Phases

\* A failed upload destroys the last stream or the source.
LEMMA GiveUpStep ==
    ASSUME Typed, NEW p \in [Streams -> Nat], Chain(p), Phases, GiveUp
    PROVE  IInv'
<1> DEFINE i == IF sink = "plain" THEN 0 ELSE tees
<1>1. i \in 0..tees /\ Destroyed({i}, "destroyed")
  BY ChainTypes DEF GiveUp
<1> HIDE DEF i
<1> QED
  BY <1>1, FailedStep DEF GiveUp, Typed

\* So does the idle guard, for the last stream.
LEMMA TimeOutStep ==
    ASSUME Typed, NEW p \in [Streams -> Nat], Chain(p), Phases, TimeOut
    PROVE  IInv'
<1>1. tees \in 0..tees
  BY ChainTypes
<1> QED
  BY <1>1, FailedStep DEF TimeOut, Typed

\* A sink that asks starts to wait.
LEMMA AskStep ==
    ASSUME Typed, NEW p \in [Streams -> Nat], Chain(p), Phases, Ask
    PROVE  IInv'
<1>1. Chain(p)' /\ Streams' = Streams
  BY ChainSame DEF Ask, service, Streams
<1>2. Typed'
  BY <1>1 DEF Ask, Typed, service, flow
<1>3. Phases'
  BY DEF Ask, Phases, service, Typed
<1> QED
  BY <1>1, <1>2, <1>3 DEF IInv

\* A sink that finds the last stream ended and empty has the whole body.
LEMMA FinishStep ==
    ASSUME Typed, NEW p \in [Streams -> Nat], Chain(p), Phases, Finish
    PROVE  IInv'
<1>n. tees \in Streams /\ p[tees] \in Nat
  BY ChainTypes
<1>1. Chain(p)' /\ Streams' = Streams
  BY ChainSame DEF Finish, Streams
<1>2. Typed'
  BY <1>1 DEF Finish, Typed, flow
<1>3. Len(received) = produced
  <2>1. status[tees] = "ended" /\ Bare(tees)
    BY DEF Finish, FinishReady, Emptied, Bare
  <2>2. p[tees] = produced
    <3>1. Got(p, tees) = produced
      BY <1>n, <2>1 DEF Chain, EndSeen
    <3>2. Got(p, tees) = p[tees] + 0 + 0
      <4>1. Len(reading[tees]) = 0 /\ Len(writing[tees]) = 0
        BY <1>n, <2>1, NoBytes DEF Bare
      <4> QED
        BY <4>1 DEF Got
    <3> QED
      BY <1>n, <3>1, <3>2
  <2>3. received = Bytes(0, p[tees])
    BY DEF Chain, Carried, UpTo
  <2>4. Len(Bytes(0, p[tees])) = p[tees]
    BY <1>n, BytesType
  <2> QED
    BY <2>2, <2>3, <2>4
<1>4. Phases'
  BY <1>3 DEF Finish, FinishReady, Emptied, Phases, Typed
<1> QED
  BY <1>1, <1>2, <1>4 DEF IInv

\* The clock moves only while all wait.
LEMMA TickStep ==
    ASSUME Typed, NEW p \in [Streams -> Nat], Chain(p), Phases, Tick
    PROVE  IInv'
<1>1. Chain(p)' /\ Streams' = Streams
  BY ChainSame DEF Tick, service, Streams
<1>2. Typed'
  <2>1. waited' \in 0..IdleMs
    BY SMTT(30), Numbers DEF Tick, Typed
  <2> QED
    BY <1>1, <2>1 DEF Tick, Typed, service, flow
<1>3. Phases'
  <2>1. Quiet'
    BY <1>1 DEF Tick, Quiet, service, flow, DataReady, EndReady, ErrorReady, CloseReady,
                TransformReady, TakeReady, FinishReady, BreakReady, Alive, Emptied
  <2> QED
    BY <2>1 DEF Tick, Phases, service, Typed, Waits
<1> QED
  BY <1>1, <1>2, <1>3 DEF IInv

\* A next peek begins on the stream after the last, with nothing passed on yet.
LEMMA AcceptStep ==
    ASSUME Typed, NEW p \in [Streams -> Nat], Chain(p), Phases, Accept
    PROVE  IInv'
<1>n. /\ tees \in Nat /\ tees \in Streams /\ Len(want) \in Nat /\ Streams = 0..Len(want)
      /\ p[tees] \in Nat /\ \A i \in 1..tees : i \in Streams /\ i - 1 \in Streams
  BY ChainTypes
<1>1. /\ Streams' = Streams /\ produced' = produced /\ want' = want /\ sink' = sink
      /\ status' = status /\ writing' = writing /\ reading' = reading
      /\ head' = head /\ sourceEnded' = sourceEnded /\ paused' = paused /\ needDrain' = needDrain
      /\ received' = received /\ peek' = peek /\ asking' = asking /\ waited' = waited
      /\ fresh' = fresh /\ cut' = cut /\ stage = "peeking"
  BY DEF Accept, flow, reader, Streams
<1>2. CASE ~(tees < Len(want))
  <2>1. tees' = tees /\ stage' = "uploading" /\ tees = Len(want)
    BY <1>n, <1>2 DEF Accept
  <2>2. Chain(p)'
    BY <1>1, <2>1, ChainSame DEF flow
  <2>3. Typed'
    BY <1>1, <2>1 DEF Typed
  <2>4. Phases'
    BY <1>1, <2>1 DEF Phases
  <2> QED
    BY <1>1, <2>2, <2>3, <2>4 DEF IInv
<1>3. CASE tees < Len(want)
  <2> DEFINE t == tees + 1
  <2>1. /\ tees' = t /\ stage' = stage /\ t \in Streams /\ t \in Nat /\ t > tees /\ t - 1 = tees
        /\ t \in 1..t /\ t \notin 1..tees /\ 1..t = (1..tees) \cup {t} /\ want[t] \in Nat
    <3>1. want[t] \in Nat
      BY <1>n, <1>3, ElementOfSeq DEF Typed
    <3> QED
      BY <1>n, <1>3, <3>1 DEF Accept
  <2> HIDE DEF t
  <2>2. /\ status[t] = "open" /\ peek[t] = "open" /\ Bare(t) /\ head[t] = <<>>
        /\ ~paused[t] /\ ~sourceEnded[t] /\ p[t] = 0
    BY <2>1 DEF Chain, Untouched, Carried
  <2>3. p[tees] = 0
    <3>1. Bytes(0, p[tees]) = <<>>
      BY <1>1 DEF Phases, Chain, Carried, UpTo
    <3> QED
      BY <1>n, <3>1, BytesType, NoBytes
  <2>4. Got(p, t) = 0
    <3>1. Len(reading[t]) = 0 /\ Len(writing[t]) = 0
      BY <2>2, NoBytes DEF Bare
    <3> QED
      BY <2>2, <3>1 DEF Got
  <2>5. \A i : (Alive(i)' <=> Alive(i)) /\ (Bare(i)' <=> Bare(i)) /\ Got(p, i)' = Got(p, i)
    BY <1>1 DEF Alive, Bare, Got
  <2>6. Carried(p)'
    <3>1. received = UpTo(p[t]) /\ (Alive(0)' => Got(p, 0)' = produced)
      BY <2>2, <2>3, <2>5 DEF Chain, Carried
    <3>2. \A i \in 1..t : Alive(i)' => Got(p, i)' = p[i - 1]
      BY <2>1, <2>3, <2>4, <2>5 DEF Chain, Carried
    <3>3. \A i \in Streams : /\ reading[i] = Bytes(p[i], Len(reading[i]))
                           /\ writing[i] = Bytes(p[i] + Len(reading[i]), Len(writing[i]))
      BY DEF Chain, Carried
    <3>4. \A i \in Streams : Got(p, i)' <= produced
      BY <2>5 DEF Chain, Carried
    <3>5. \A i \in Streams : i > t => p[i] = 0
      BY <1>n, <2>1 DEF Chain, Carried
    <3>6. (received = UpTo(p[tees]))'
      BY <1>1, <2>1, <3>1 DEF UpTo, Bytes
    <3>7. (\A i \in Streams : /\ reading[i] = Bytes(p[i], Len(reading[i]))
                            /\ writing[i] = Bytes(p[i] + Len(reading[i]), Len(writing[i])))'
      BY <1>1, <3>3 DEF Bytes
    <3> QED
      BY <1>1, <2>1, <3>1, <3>2, <3>4, <3>5, <3>6, <3>7 DEF Carried
  <2>7. Peeked(p)'
    <3>1. head[t] = UpTo(Smaller(want[t], p[t - 1]))
      <4>1. Smaller(want[t], p[t - 1]) = 0
        BY <2>1, <2>3 DEF Smaller
      <4> QED
        BY <2>2, <4>1, NoBytes DEF UpTo
    <3>2. want[t] = 0 \/ p[t - 1] < want[t]
      BY <2>1, <2>3
    <3>3. \A i \in 1..t :
            /\ head[i] = UpTo(Smaller(want[i], p[i - 1]))
            /\ peek[i] = "open" => want[i] = 0 \/ p[i - 1] < want[i]
            /\ peek[i] = "closed" => \/ p[i - 1] >= want[i]
                                    \/ sourceEnded[i]
                                    \/ status[i - 1] = "errored"
      BY <2>1, <2>2, <3>1, <3>2 DEF Chain, Peeked
    <3> QED
      BY <1>1, <2>1, <3>3 DEF Peeked, UpTo, Bytes, Smaller
  <2>8. EndSeen(p)'
    <3>1. ASSUME NEW i \in 1..t
          PROVE  /\ status[i] = "ended" => sourceEnded[i]
                 /\ sourceEnded[i] => i \in 1..tees
      BY <2>1, <2>2 DEF Chain, EndSeen
    <3> QED
      BY <1>1, <2>1, <2>5, <3>1 DEF Chain, EndSeen
  <2>9. DeadHoldNothing'
    <3>1. ASSUME NEW i \in 1..t, status[i] = "destroyed"
          PROVE  i < t /\ ~Alive(i + 1)
      BY <1>n, <1>1, <2>1, <2>2, <3>1 DEF Chain, DeadHoldNothing
    <3> QED
      BY <1>1, <2>1, <2>5, <3>1 DEF Chain, DeadHoldNothing
  <2>10. HeldBack'
    <3>1. Len(writing[t]) = 0 /\ High > 0 /\ High \in Nat /\ MaxChunk \in Nat /\ MaxChunk > 0
      BY <2>1, <2>2, Numbers, NoBytes DEF Bare
    <3>2. Len(writing[t]) < MaxChunk + (IF want[t] > High THEN want[t] ELSE High)
      BY <2>1, <3>1
    <3>3. \A i \in 1..t : want[i] > 0 =>
              Len(writing[i]) < MaxChunk + (IF want[i] > High THEN want[i] ELSE High)
      BY <2>1, <3>2 DEF Chain, HeldBack, MemoryBounded
    <3>4. \A i \in 1..t : Alive(i) =>
           /\ paused[i] => needDrain[i] /\ writing[i] # <<>>
           /\ ~paused[i] /\ ~sourceEnded[i] /\ peek[i] = "closed" => Len(writing[i]) < High
      BY <2>1, <2>2, <3>1 DEF Chain, HeldBack
    <3> QED
      BY <1>1, <2>1, <2>5, <3>3, <3>4 DEF HeldBack, MemoryBounded
  <2>11. Untouched'
    <3>1. \A i \in Streams : i > t => i > tees
      BY <1>n, <2>1
    <3> QED
      BY <1>1, <2>1, <2>5, <3>1 DEF Chain, Untouched
  <2>12. Typed'
    BY <1>1, <2>1 DEF Typed
  <2>13. Phases'
    BY <1>1, <2>1 DEF Phases
  <2> QED
    BY <1>1, <2>6, <2>7, <2>8, <2>9, <2>10, <2>11, <2>12, <2>13 DEF IInv, Chain
<1> QED
  BY <1>2, <1>3

\* A chunk of the source joins what stream 0 holds.
LEMMA ProduceStep ==
    ASSUME Typed, NEW p \in [Streams -> Nat], Chain(p), Phases, Produce
    PROVE  IInv'
<1>n. /\ tees \in Nat /\ 0 \in Streams /\ produced \in Nat
      /\ \A i \in 1..tees : i \in Streams /\ i - 1 \in Streams
      /\ \A i \in Streams : p[i] \in Nat /\ Len(reading[i]) \in Nat /\ Len(writing[i]) \in Nat
      /\ \A i \in Streams : Got(p, i) = p[i] + Len(reading[i]) + Len(writing[i]) /\ Got(p, i) \in Nat
  BY ChainTypes
<1>1. PICK n \in 1..Smaller(MaxChunk, MaxBytes - produced) :
          /\ produced' = produced + n
          /\ reading' = [reading EXCEPT ![0] = @ \o [k \in 1..n |-> produced + k]]
  BY DEF Produce
<1>2. n \in Nat /\ n > 0 /\ produced + n \in 0..MaxBytes
  BY <1>n, Numbers DEF Smaller
<1>3. /\ Streams' = Streams /\ tees' = tees /\ want' = want /\ status' = status
      /\ writing' = writing /\ stage' = stage /\ sink' = sink
      /\ head' = head /\ sourceEnded' = sourceEnded /\ paused' = paused /\ needDrain' = needDrain
      /\ received' = received /\ peek' = peek /\ asking' = asking /\ waited' = waited /\ cut' = cut
      /\ fresh' = TRUE /\ status[0] = "open"
  BY DEF Produce, service, flow, reader, Streams
<1>4. writing[0] = <<>> /\ p[0] + Len(reading[0]) = produced
  BY <1>n, <1>3, NoBytes DEF Chain, Untouched, Carried, Alive
<1>5. reading'[0] = Bytes(p[0], Len(reading[0]) + n) /\ Len(reading'[0]) = Len(reading[0]) + n
  <2>1. reading'[0] = Bytes(p[0], Len(reading[0])) \o Bytes(p[0] + Len(reading[0]), n)
    BY <1>n, <1>1, <1>4 DEF Chain, Carried, Bytes, Typed
  <2>2. reading'[0] = Bytes(p[0], Len(reading[0]) + n)
    BY ZenonT(40), <1>n, <1>2, <2>1, BytesJoin
  <2>3. Len(reading[0]) + n \in Nat
    BY <1>n, <1>2
  <2>4. Len(Bytes(p[0], Len(reading[0]) + n)) = Len(reading[0]) + n
    BY <1>n, <2>3, BytesType
  <2> QED
    BY <2>2, <2>4
<1>6. \A i \in Streams : i # 0 => reading'[i] = reading[i]
  BY <1>1 DEF Typed
<1>7. Typed'
  <2>1. Len(reading[0]) + n \in Nat
    BY <1>n, <1>2
  <2>2. Bytes(p[0], Len(reading[0]) + n) \in Seq(Nat)
    BY <1>n, <2>1, BytesType
  <2>3. reading' = [i \in Streams |-> reading'[i]]
    BY <1>n, <1>1 DEF Typed
  <2>4. reading' \in [Streams -> Seq(Nat)]
    <3>1. \A i \in Streams : reading'[i] \in Seq(Nat)
      BY <1>5, <1>6, <2>2 DEF Typed
    <3> QED
      BY <2>3, <3>1
  <2> QED
    BY <1>1, <1>2, <1>3, <2>4 DEF Typed
<1>8. \A i \in Streams :
          /\ (Alive(i)' <=> Alive(i))
          /\ i # 0 => (Bare(i)' <=> Bare(i)) /\ Got(p, i)' = Got(p, i)
          /\ status[i] # "ended"
  BY <1>3, <1>6 DEF Alive, Bare, Got, Chain, EndSeen
<1>9. Got(p, 0)' = produced'
  <2>1. Len(writing'[0]) = 0
    BY <1>3, <1>4, NoBytes
  <2>2. p[0] + (Len(reading[0]) + n) + 0 = produced + n
    <3>1. p[0] \in Nat /\ Len(reading[0]) \in Nat
      BY <1>n
    <3> QED
      BY <1>2, <1>4, <3>1
  <2> QED
    BY <1>1, <1>5, <2>1, <2>2 DEF Got
<1>10. Carried(p)'
  <2>1. \A i \in 1..tees : Alive(i)' => Got(p, i)' = p[i - 1]
    <3>1. \A i \in 1..tees : i # 0
      BY <1>n
    <3> QED
      BY <1>n, <1>8, <3>1 DEF Chain, Carried
  <2>2. ASSUME NEW i \in Streams PROVE Got(p, i)' <= produced'
    <3>1. CASE i = 0
      BY <1>n, <1>1, <1>2, <1>9, <3>1
    <3>2. CASE i # 0
      <4>1. Got(p, i) <= produced /\ Got(p, i)' = Got(p, i) /\ Got(p, i) \in Nat
        BY <1>n, <1>8, <3>2 DEF Chain, Carried
      <4> QED
        BY <1>n, <1>1, <1>2, <4>1
    <3> QED
      BY <3>1, <3>2
  <2>3. \A i \in Streams : i > tees => p[i] = 0
    BY DEF Chain, Carried
  <2>4. (received = UpTo(p[tees]))'
    BY <1>3 DEF Chain, Carried, UpTo, Bytes
  <2>5. ASSUME NEW i \in Streams
        PROVE  (/\ reading[i] = Bytes(p[i], Len(reading[i]))
                /\ writing[i] = Bytes(p[i] + Len(reading[i]), Len(writing[i])))'
    <3>1. CASE i = 0
      <4>1. writing'[0] = Bytes(p[0] + Len(reading'[0]), Len(writing'[0]))
        BY <1>n, <1>2, <1>3, <1>4, <1>5, NoBytes
      <4> QED
        BY <1>5, <3>1, <4>1 DEF Bytes
    <3>2. CASE i # 0
      BY <1>3, <1>6, <3>2 DEF Chain, Carried, Bytes
    <3> QED
      BY <3>1, <3>2
  <2> QED
    BY <1>3, <1>9, <2>1, <2>2, <2>3, <2>4, <2>5 DEF Carried
<1>11. Peeked(p)'
  BY <1>3 DEF Chain, Peeked, UpTo, Bytes, Smaller
<1>12. EndSeen(p)'
  BY <1>3, <1>8 DEF Chain, EndSeen
<1>13. DeadHoldNothing'
  <2>1. \A i \in Streams : ~Alive(i)' => Bare(i)'
    BY <1>n, <1>3, <1>8 DEF Chain, DeadHoldNothing, Alive
  <2>2. ASSUME NEW i \in 1..tees, status[i] = "destroyed", stage # "failed"
        PROVE  i < tees /\ ~Alive(i + 1)'
    <3>1. i < tees /\ ~Alive(i + 1)
      BY <2>2 DEF Chain, DeadHoldNothing
    <3>2. i + 1 \in Streams
      BY <1>n, <3>1
    <3> QED
      BY <1>8, <3>1, <3>2
  <2> QED
    BY <1>3, <2>1, <2>2 DEF DeadHoldNothing
<1>14. HeldBack'
  <2>1. \A i \in 1..tees : Alive(i)' => Alive(i)
    BY <1>n, <1>8
  <2> QED
    BY <1>3, <2>1 DEF Chain, HeldBack, MemoryBounded
<1>15. Untouched'
  BY <1>n, <1>3, <1>8 DEF Chain, Untouched
<1>16. Phases'
  <2>1. stage # "done"
    BY <1>8 DEF Phases, Typed
  <2> QED
    BY <1>3, <2>1 DEF Phases
<1> QED
  BY <1>3, <1>7, <1>10, <1>11, <1>12, <1>13, <1>14, <1>15, <1>16 DEF IInv, Chain

\* A tee that sees the end finds nothing left before it.
LEMMA EndStep ==
    ASSUME Typed, NEW p \in [Streams -> Nat], Chain(p), Phases, NEW i \in 1..tees, End(i)
    PROVE  IInv'
<1>n. /\ tees \in Nat /\ 0 \in Streams
      /\ \A k \in 1..tees : k \in Streams /\ k - 1 \in Streams
  BY ChainTypes
<1>1. /\ Streams' = Streams /\ tees' = tees /\ want' = want /\ produced' = produced
      /\ writing' = writing /\ reading' = reading /\ stage' = stage /\ sink' = sink
      /\ head' = head /\ paused' = paused /\ needDrain' = needDrain /\ received' = received
      /\ asking' = asking /\ waited' = waited /\ cut' = cut /\ fresh' = fresh
  BY DEF End, service, flow, reader, Streams
<1>2. /\ sourceEnded' = [sourceEnded EXCEPT ![i] = TRUE]
      /\ peek' = [peek EXCEPT ![i] = "closed"]
      /\ status' = [status EXCEPT ![i] = IF @ = "open" THEN "ended" ELSE @]
      /\ ~sourceEnded[i] /\ status[i - 1] = "ended" /\ Bare(i - 1)
  BY DEF End, EndReady, Emptied, Bare
<1>3. Typed'
  BY <1>1, <1>2 DEF Typed
<1>4. \A k \in Streams :
          /\ (Alive(k)' <=> Alive(k)) /\ (Bare(k)' <=> Bare(k)) /\ Got(p, k)' = Got(p, k)
          /\ k # i => /\ status'[k] = status[k] /\ sourceEnded'[k] = sourceEnded[k]
                      /\ peek'[k] = peek[k]
          /\ status[k] # "open" => status'[k] = status[k]
          /\ status'[k] # "open" => status[k] # "open" \/ (k = i /\ status'[k] = "ended")
  BY <1>1, <1>2 DEF Alive, Bare, Got, Typed
<1>5. sourceEnded'[i] = TRUE /\ peek'[i] = "closed" /\ status'[i] # "open" /\ status[i] # "ended"
      /\ (status'[i] = "ended" => status[i] = "open") /\ i # 0 /\ i \in Streams
      /\ (status'[i] = "destroyed" => status[i] = "destroyed")
  BY <1>n, <1>2 DEF Typed, Chain, EndSeen
<1>6. p[i - 1] = produced /\ status[0] # "open"
  <2>1. Got(p, i - 1) = produced /\ status[0] # "open"
    BY <1>n, <1>2 DEF Chain, EndSeen
  <2>2. p[i - 1] \in Nat /\ Got(p, i - 1) = p[i - 1] + 0 + 0
    BY <1>n, <1>2, NoBytes DEF Bare, Got
  <2> QED
    BY <2>1, <2>2
<1>7. Carried(p)'
  <2>1. \A k \in 1..tees : Alive(k)' => Got(p, k)' = p[k - 1]
    BY <1>n, <1>4 DEF Chain, Carried
  <2>2. \A k \in Streams : Got(p, k)' <= produced'
    BY <1>1, <1>4 DEF Chain, Carried
  <2>3. \A k \in Streams : k > tees => p[k] = 0
    BY DEF Chain, Carried
  <2>4. (received = UpTo(p[tees]))'
    BY <1>1 DEF Chain, Carried, UpTo, Bytes
  <2>5. (\A k \in Streams : /\ reading[k] = Bytes(p[k], Len(reading[k]))
                          /\ writing[k] = Bytes(p[k] + Len(reading[k]), Len(writing[k])))'
    BY <1>1 DEF Chain, Carried, Bytes
  <2>6. Alive(0)' => Got(p, 0)' = produced
    BY <1>n, <1>4 DEF Chain, Carried
  <2> QED
    BY <1>1, <2>1, <2>2, <2>3, <2>4, <2>5, <2>6 DEF Carried
<1>8. Peeked(p)'
  <2>1. ASSUME NEW k \in 1..tees
        PROVE  /\ head[k] = UpTo(Smaller(want[k], p[k - 1]))
               /\ peek'[k] = "open" => want[k] = 0 \/ p[k - 1] < want[k]
               /\ peek'[k] = "closed" => \/ p[k - 1] >= want[k]
                                        \/ sourceEnded'[k]
                                        \/ status'[k - 1] = "errored"
    BY <1>n, <1>4, <1>5 DEF Chain, Peeked
  <2> QED
    BY <1>1, <2>1 DEF Peeked, UpTo, Bytes, Smaller
<1>9. EndSeen(p)'
  <2>1. ASSUME NEW k \in Streams, status'[k] = "ended"
        PROVE  Got(p, k)' = produced /\ status'[0] # "open"
    <3>1. CASE k = i
      BY <1>n, <1>4, <1>5, <1>6, <2>1, <3>1 DEF Chain, Carried, Alive
    <3>2. CASE k # i
      BY <1>n, <1>4, <1>6, <2>1, <3>2 DEF Chain, EndSeen
    <3> QED
      BY <3>1, <3>2
  <2>2. ASSUME NEW k \in 1..tees
        PROVE  /\ status'[k] = "ended" => sourceEnded'[k]
               /\ sourceEnded'[k] => /\ p[k - 1] = produced /\ Bare(k - 1)' /\ status'[0] # "open"
                                     /\ status'[k - 1] # "open" /\ status'[k] # "open"
    <3>1. CASE k = i
      <4>1. Bare(i - 1)' /\ status'[i - 1] = "ended"
        BY <1>n, <1>2, <1>4, <1>5
      <4>2. status'[0] # "open"
        BY <1>n, <1>4, <1>6
      <4> QED
        BY <1>5, <1>6, <3>1, <4>1, <4>2
    <3>2. CASE k # i
      <4>1. k \in Streams /\ k - 1 \in Streams /\ 0 \in Streams
        BY <1>n
      <4>2. status'[k] = status[k] /\ sourceEnded'[k] = sourceEnded[k]
        BY <1>4, <3>2, <4>1
      <4>3. /\ status[k] = "ended" => sourceEnded[k]
            /\ sourceEnded[k] => /\ p[k - 1] = produced /\ Bare(k - 1) /\ status[0] # "open"
                                 /\ status[k - 1] # "open" /\ status[k] # "open"
        BY DEF Chain, EndSeen
      <4> QED
        BY <1>4, <4>1, <4>2, <4>3
    <3> QED
      BY <3>1, <3>2
  <2>3. ASSUME NEW k \in 1..tees, sourceEnded'[k], stage # "failed", NEW j \in 0..(k - 1)
        PROVE  status'[j] = "ended" /\ Bare(j)'
    <3>1. j \in Streams
      BY <1>n
    <3>2. status[j] = "ended" /\ Bare(j)
      <4>1. CASE k # i
        BY <1>n, <1>4, <2>3, <4>1 DEF Chain, EndSeen
      <4>2. CASE k = i /\ j = i - 1
        BY <1>2, <4>2
      <4>3. CASE k = i /\ j # i - 1
        <5>1. i - 1 \in 1..tees /\ j \in 0..((i - 1) - 1)
          BY <1>n, <4>3
        <5>2. sourceEnded[i - 1]
          BY <1>2, <5>1 DEF Chain, EndSeen
        <5> QED
          BY <2>3, <5>1, <5>2 DEF Chain, EndSeen
      <4> QED
        BY <4>1, <4>2, <4>3
    <3> QED
      BY <1>4, <3>1, <3>2
  <2> QED
    BY <1>1, <2>1, <2>2, <2>3 DEF EndSeen
<1>10. DeadHoldNothing'
  <2>1. \A k \in Streams : ~Alive(k)' => Bare(k)'
    BY <1>4 DEF Chain, DeadHoldNothing
  <2>2. ASSUME NEW k \in 1..tees, status'[k] = "destroyed", stage # "failed"
        PROVE  k < tees /\ ~Alive(k + 1)'
    <3>1. status[k] = "destroyed"
      BY <1>n, <1>4, <1>5, <2>2
    <3>2. k < tees /\ ~Alive(k + 1)
      BY <2>2, <3>1 DEF Chain, DeadHoldNothing
    <3>3. k + 1 \in Streams
      BY <1>n, <3>2
    <3> QED
      BY <1>4, <3>2, <3>3
  <2> QED
    BY <1>1, <2>1, <2>2 DEF DeadHoldNothing
<1>11. HeldBack'
  <2>1. ASSUME NEW k \in 1..tees, Alive(k)'
        PROVE  /\ paused[k] => needDrain[k] /\ writing[k] # <<>>
               /\ ~paused[k] /\ ~sourceEnded'[k] /\ peek'[k] = "closed" => Len(writing[k]) < High
    BY <1>n, <1>4, <1>5, <2>1 DEF Chain, HeldBack
  <2> QED
    BY <1>1, <2>1 DEF Chain, HeldBack, MemoryBounded
<1>12. Untouched'
  <2>1. \A k \in Streams : k > tees => k # i
    BY <1>n
  <2> QED
    BY <1>n, <1>1, <1>4, <2>1 DEF Chain, Untouched
<1>13. Phases'
  <2>1. ~(asking /\ waited > 0 /\ ~fresh)
    BY NotQuiet DEF End
  <2>2. stage = "done" => status'[tees] = "ended"
    BY <1>4 DEF Phases, Typed
  <2> QED
    BY <1>1, <2>1, <2>2 DEF Phases
<1> QED
  BY <1>1, <1>3, <1>7, <1>8, <1>9, <1>10, <1>11, <1>12, <1>13 DEF IInv, Chain

\* A transform moves bytes within a stream, and a drain lets its tee go on.
LEMMA TransformStep ==
    ASSUME Typed, NEW p \in [Streams -> Nat], Chain(p), Phases, NEW i \in Streams, Transform(i)
    PROVE  IInv'
<1>n. /\ tees \in Nat /\ 0 \in Streams
      /\ \A k \in 1..tees : k \in Streams /\ k - 1 \in Streams
  BY ChainTypes
<1>m. i > 0 /\ Alive(i) /\ writing[i] # <<>> /\ i \in 1..tees
  <2>1. i > 0 /\ Alive(i) /\ writing[i] # <<>>
    BY DEF Transform, TransformReady
  <2>2. ~(i > tees)
    BY <2>1 DEF Chain, Untouched, Bare
  <2> QED
    BY SMTT(30), <2>1, <2>2, ChainTypes
<1> DEFINE r == Len(reading[i])
           w == Len(writing[i])
<1>l. /\ p[i] \in Nat /\ r \in Nat /\ w \in Nat /\ Got(p, i) = p[i] + r + w
      /\ reading[i] = Bytes(p[i], r) /\ writing[i] = Bytes(p[i] + r, w) /\ writing[i] \in Seq(Nat)
  BY NoBytes DEF Chain, Carried, Typed, Got
<1> HIDE DEF r, w
<1>1. PICK n \in 1..Smaller(MaxChunk, w) :
          /\ reading' = [reading EXCEPT ![i] = @ \o SubSeq(writing[i], 1, n)]
          /\ writing' = [writing EXCEPT ![i] = SubSeq(@, n + 1, w)]
  BY DEF Transform, w
<1>2. n \in 1..w
  BY <1>l, Numbers DEF Smaller
<1>3. /\ Streams' = Streams /\ tees' = tees /\ want' = want /\ status' = status
      /\ produced' = produced /\ stage' = stage /\ sink' = sink /\ fresh' = fresh
      /\ head' = head /\ sourceEnded' = sourceEnded /\ received' = received /\ peek' = peek
      /\ asking' = asking /\ waited' = waited /\ cut' = cut
  BY DEF Transform, service, reader, Streams
<1>4. reading'[i] = Bytes(p[i], r + n) /\ Len(reading'[i]) = r + n
  <2>1. SubSeq(writing[i], 1, n) = Bytes(p[i] + r, n)
    <3>1. /\ p[i] + r \in Nat /\ 1 \in 1..(w + 1) /\ n \in 0..w /\ 1 <= n + 1
          /\ p[i] + r + 1 - 1 = p[i] + r /\ n - 1 + 1 = n
      BY <1>l, <1>2
    <3>2. SubSeq(Bytes(p[i] + r, w), 1, n) = Bytes(p[i] + r + 1 - 1, n - 1 + 1)
      BY <1>l, <3>1, BytesCut
    <3> QED
      BY <1>l, <3>1, <3>2
  <2>2. reading'[i] = Bytes(p[i], r) \o Bytes(p[i] + r, n)
    BY <1>l, <1>1, <2>1 DEF Typed
  <2>3. reading'[i] = Bytes(p[i], r + n) /\ r + n \in Nat
    <3>1. n \in Nat /\ r + n \in Nat
      BY <1>l, <1>2
    <3>2. Bytes(p[i], r) \o Bytes(p[i] + r, n) = Bytes(p[i], r + n)
      BY <1>l, <3>1, BytesJoin
    <3> QED
      BY <2>2, <3>1, <3>2
  <2> QED
    BY <1>l, <2>3, BytesType
<1>5. writing'[i] = Bytes(p[i] + (r + n), w - n) /\ Len(writing'[i]) = w - n /\ w - n \in Nat
  <2>1. /\ p[i] + r \in Nat /\ n + 1 \in 1..(w + 1) /\ w \in 0..w /\ n + 1 <= w + 1
        /\ p[i] + r + (n + 1) - 1 = p[i] + (r + n) /\ w - (n + 1) + 1 = w - n
        /\ w - n \in Nat /\ p[i] + (r + n) \in Nat
    <3>1. p[i] \in Nat /\ r \in Nat /\ w \in Nat /\ n \in 1..w
      BY <1>l, <1>2
    <3>2. p[i] + r \in Nat /\ p[i] + r + (n + 1) - 1 = p[i] + (r + n) /\ p[i] + (r + n) \in Nat
      BY <3>1
    <3> QED
      BY <3>1, <3>2
  <2>2. SubSeq(Bytes(p[i] + r, w), n + 1, w) = Bytes(p[i] + r + (n + 1) - 1, w - (n + 1) + 1)
    BY ZenonT(40), <1>l, <2>1, BytesCut
  <2>3. writing'[i] = SubSeq(Bytes(p[i] + r, w), n + 1, w)
    BY <1>l, <1>1 DEF Typed
  <2>4. writing'[i] = Bytes(p[i] + (r + n), w - n)
    BY <2>1, <2>2, <2>3
  <2> QED
    BY <2>1, <2>4, BytesType
<1>6. \A k \in Streams : k # i => reading'[k] = reading[k] /\ writing'[k] = writing[k]
  BY <1>1 DEF Typed
<1>7. \A k \in Streams :
          /\ (Alive(k)' <=> Alive(k))
          /\ k # i => (Bare(k)' <=> Bare(k))
          /\ ~Bare(i)
  BY <1>m, <1>3, <1>6 DEF Alive, Bare
<1>8. \A k \in Streams : Got(p, k)' = Got(p, k)
  <2>1. Got(p, i)' = Got(p, i)
    <3>1. p[i] + (r + n) + (w - n) = p[i] + r + w
      BY <1>l, <1>2
    <3> QED
      BY <1>l, <1>4, <1>5, <3>1 DEF Got
  <2> QED
    BY <1>6, <2>1 DEF Got
<1>9. reading' \in [Streams -> Seq(Nat)] /\ writing' \in [Streams -> Seq(Nat)]
  <2>1. reading'[i] \in Seq(Nat) /\ writing'[i] \in Seq(Nat)
    <3>1. p[i] + (r + n) \in Nat /\ r + n \in Nat
      BY <1>l, <1>2
    <3> QED
      BY <1>l, <1>4, <1>5, <3>1, BytesType
  <2>2. \A k \in Streams : reading'[k] \in Seq(Nat) /\ writing'[k] \in Seq(Nat)
    BY <1>6, <2>1 DEF Typed
  <2>3. reading' = [k \in Streams |-> reading'[k]] /\ writing' = [k \in Streams |-> writing'[k]]
    BY <1>1 DEF Typed
  <2> QED
    BY <2>2, <2>3
<1>10. /\ needDrain' \in [Streams -> BOOLEAN] /\ paused' \in [Streams -> BOOLEAN]
       /\ \A k \in Streams : k # i => needDrain'[k] = needDrain[k] /\ paused'[k] = paused[k]
       /\ paused'[i] => needDrain'[i] /\ writing'[i] # <<>> /\ paused[i]
       /\ ~paused'[i] => ~paused[i] \/ Len(writing'[i]) = 0
  <2>1. CASE writing'[i] = <<>> /\ needDrain[i]
    <3>1. /\ needDrain' = [needDrain EXCEPT ![i] = FALSE] /\ paused' = [paused EXCEPT ![i] = FALSE]
      BY <2>1 DEF Transform, Resume
    <3> QED
      BY <2>1, <3>1, NoBytes DEF Typed
  <2>2. CASE ~(writing'[i] = <<>> /\ needDrain[i])
    <3>1. needDrain' = needDrain /\ paused' = paused
      BY <2>2 DEF Transform, flow
    <3>2. paused[i] => needDrain[i]
      BY <1>m DEF Chain, HeldBack
    <3> QED
      BY <2>2, <3>1, <3>2 DEF Typed
  <2> QED
    BY <2>1, <2>2
<1>11. Typed'
  BY <1>3, <1>9, <1>10 DEF Typed
<1>12. Carried(p)'
  <2>1. \A k \in 1..tees : Alive(k)' => Got(p, k)' = p[k - 1]
    BY <1>n, <1>7, <1>8 DEF Chain, Carried
  <2>2. \A k \in Streams : Got(p, k)' <= produced'
    BY <1>3, <1>8 DEF Chain, Carried
  <2>3. \A k \in Streams : k > tees => p[k] = 0
    BY DEF Chain, Carried
  <2>4. (received = UpTo(p[tees]))'
    BY <1>3 DEF Chain, Carried, UpTo, Bytes
  <2>5. ASSUME NEW k \in Streams
        PROVE  (/\ reading[k] = Bytes(p[k], Len(reading[k]))
                /\ writing[k] = Bytes(p[k] + Len(reading[k]), Len(writing[k])))'
    <3>1. CASE k = i
      BY <1>4, <1>5, <3>1 DEF Bytes
    <3>2. CASE k # i
      BY <1>6, <3>2 DEF Chain, Carried, Bytes
    <3> QED
      BY <3>1, <3>2
  <2>6. Alive(0)' => Got(p, 0)' = produced
    BY <1>n, <1>7, <1>8 DEF Chain, Carried
  <2> QED
    BY <1>3, <2>1, <2>2, <2>3, <2>4, <2>5, <2>6 DEF Carried
<1>13. Peeked(p)'
  BY <1>3 DEF Chain, Peeked, UpTo, Bytes, Smaller
<1>14. EndSeen(p)'
  <2>1. \A k \in Streams : status[k] = "ended" => Got(p, k)' = produced /\ status[0] # "open"
    BY <1>8 DEF Chain, EndSeen
  <2>2. ASSUME NEW k \in 1..tees
        PROVE  /\ status[k] = "ended" => sourceEnded[k]
               /\ sourceEnded[k] => /\ p[k - 1] = produced /\ Bare(k - 1)' /\ status[0] # "open"
                                    /\ status[k - 1] # "open" /\ status[k] # "open"
    <3>1. /\ status[k] = "ended" => sourceEnded[k]
          /\ sourceEnded[k] => /\ p[k - 1] = produced /\ Bare(k - 1) /\ status[0] # "open"
                               /\ status[k - 1] # "open" /\ status[k] # "open"
      BY DEF Chain, EndSeen
    <3>2. Bare(k - 1) => Bare(k - 1)'
      BY <1>n, <1>7
    <3> QED
      BY <3>1, <3>2
  <2>3. ASSUME NEW k \in 1..tees, sourceEnded[k], stage # "failed", NEW j \in 0..(k - 1)
        PROVE  status[j] = "ended" /\ Bare(j)'
    <3>1. j \in Streams
      BY <1>n
    <3>2. status[j] = "ended" /\ Bare(j)
      BY <2>3 DEF Chain, EndSeen
    <3> QED
      BY <1>7, <3>1, <3>2
  <2> QED
    BY <1>3, <2>1, <2>2, <2>3 DEF EndSeen
<1>15. DeadHoldNothing'
  <2>1. \A k \in Streams : ~Alive(k)' => Bare(k)'
    BY <1>m, <1>7 DEF Chain, DeadHoldNothing
  <2>2. ASSUME NEW k \in 1..tees, status[k] = "destroyed", stage # "failed"
        PROVE  k < tees /\ ~Alive(k + 1)'
    <3>1. k < tees /\ ~Alive(k + 1)
      BY <2>2 DEF Chain, DeadHoldNothing
    <3>2. k + 1 \in Streams
      BY <1>n, <3>1
    <3> QED
      BY <1>7, <3>1, <3>2
  <2> QED
    BY <1>3, <2>1, <2>2 DEF DeadHoldNothing
<1>16. HeldBack'
  <2>1. ASSUME NEW k \in 1..tees, Alive(k)'
        PROVE  /\ paused'[k] => needDrain'[k] /\ writing'[k] # <<>>
               /\ ~paused'[k] /\ ~sourceEnded[k] /\ peek[k] = "closed" => Len(writing'[k]) < High
    <3>1. Alive(k) /\ k \in Streams
      BY <1>n, <1>7, <2>1
    <3>2. CASE k = i
      <4>1. w - n < w /\ 0 < High /\ High \in Nat
        BY SMTT(30), <1>l, <1>2, Numbers
      <4>2. ~paused[i] /\ ~sourceEnded[i] /\ peek[i] = "closed" => w < High
        BY <1>m DEF Chain, HeldBack, w
      <4>3. w - n \in Nat /\ w \in Nat
        BY <1>l, <1>5
      <4> QED
        BY <1>5, <1>10, <3>2, <4>1, <4>2, <4>3
    <3>3. CASE k # i
      BY <1>6, <1>10, <3>1, <3>3 DEF Chain, HeldBack
    <3> QED
      BY <3>2, <3>3
  <2>2. ASSUME NEW k \in 1..tees, want[k] > 0
        PROVE  Len(writing'[k]) < MaxChunk + (IF want[k] > High THEN want[k] ELSE High)
    <3>1. Len(writing[k]) < MaxChunk + (IF want[k] > High THEN want[k] ELSE High)
      BY <2>2 DEF Chain, HeldBack, MemoryBounded
    <3>2. CASE k = i
      <4>1. w - n < w /\ w \in Nat /\ w - n \in Nat /\ MaxChunk \in Nat /\ High \in Nat /\ want[k] \in Nat
        BY <1>l, <1>2, Numbers
      <4> QED
        BY SMTT(30), <1>5, <3>1, <3>2, <4>1 DEF w
    <3>3. CASE k # i
      BY <1>n, <1>6, <3>1, <3>3
    <3> QED
      BY <3>2, <3>3
  <2> QED
    BY <1>3, <2>1, <2>2 DEF HeldBack, MemoryBounded
<1>17. Untouched'
  <2>1. \A k \in Streams : k > tees => k # i
    BY <1>n, <1>m
  <2>2. writing'[0] = <<>>
    BY <1>n, <1>m, <1>6 DEF Chain, Untouched
  <2>3. \A k \in Streams : k > tees =>
           /\ status[k] = "open" /\ peek[k] = "open"
           /\ Bare(k)' /\ head[k] = <<>>
           /\ ~paused'[k] /\ ~sourceEnded[k]
    BY <1>7, <1>10, <2>1 DEF Chain, Untouched
  <2> QED
    BY <1>3, <2>2, <2>3 DEF Untouched
<1>18. Phases'
  <2>1. ~(asking /\ waited > 0 /\ ~fresh)
    BY NotQuiet DEF Transform
  <2> QED
    BY <1>3, <2>1 DEF Phases
<1> QED
  BY <1>3, <1>11, <1>12, <1>13, <1>14, <1>15, <1>16, <1>17, <1>18 DEF IInv, Chain

\* What the sink takes joins what it received, or breaks the limit and is lost.
LEMMA TakeStep ==
    ASSUME Typed, NEW p \in [Streams -> Nat], Chain(p), Phases, Take
    PROVE  IInv'
<1>n. /\ tees \in Nat /\ 0 \in Streams /\ tees \in Streams
      /\ \A k \in 1..tees : k \in Streams /\ k - 1 \in Streams
  BY ChainTypes
<1> DEFINE r == Len(reading[tees])
<1>l. /\ p[tees] \in Nat /\ r \in Nat /\ reading[tees] = Bytes(p[tees], r) /\ reading[tees] # <<>>
      /\ asking /\ Alive(tees)
  BY <1>n, NoBytes DEF Chain, Carried, Typed, Take, TakeReady
<1> HIDE DEF r
<1>1. /\ UNCHANGED <<want, sink, tees, produced, flow, sourceEnded, head, peek, fresh, cut>>
      /\ asking' = FALSE /\ waited' = 0 /\ stage = "uploading"
  BY <1>l DEF Take, Phases
<1>2. PICK n \in 1..Smaller(MaxChunk, r) :
           IF sink = "buffer" /\ ~Fits(n)
           THEN /\ stage' = "failed" /\ Destroyed({tees}, "destroyed")
                /\ UNCHANGED received
           ELSE /\ received' = received \o SubSeq(reading[tees], 1, n)
                /\ reading' = [reading EXCEPT ![tees] = SubSeq(@, n + 1, r)]
                /\ UNCHANGED <<stage, status, writing>>
  BY DEF Take, r
<1>3. n \in 1..r
  BY <1>l, Numbers DEF Smaller
<1>4. CASE sink = "buffer" /\ ~Fits(n)
  <2>1. tees \in 0..tees
    BY <1>n
  <2> QED
    BY <1>1, <1>2, <1>4, <2>1, FailedStep DEF Typed
<1>5. CASE ~(sink = "buffer" /\ ~Fits(n))
  <2>1. /\ received' = received \o SubSeq(reading[tees], 1, n)
        /\ reading' = [reading EXCEPT ![tees] = SubSeq(@, n + 1, r)]
        /\ UNCHANGED <<stage, status, writing>>
    BY <1>2, <1>5
  <2>2. /\ Streams' = Streams /\ tees' = tees /\ want' = want /\ status' = status
        /\ produced' = produced /\ stage' = stage /\ sink' = sink /\ fresh' = fresh
        /\ head' = head /\ sourceEnded' = sourceEnded /\ peek' = peek /\ cut' = cut
        /\ paused' = paused /\ needDrain' = needDrain /\ writing' = writing
    BY <1>1, <2>1 DEF flow, Streams
  <2>3. PICK q \in [Streams -> Nat] : /\ q[tees] = p[tees] + n
                                     /\ \A k \in Streams : k # tees => q[k] = p[k]
    <3> DEFINE after == [p EXCEPT ![tees] = @ + n]
    <3>1. /\ after \in [Streams -> Nat] /\ after[tees] = p[tees] + n
          /\ \A k \in Streams : k # tees => after[k] = p[k]
      BY <1>n, <1>l, <1>3
    <3> QED
      BY <3>1
  <2>4. received' = UpTo(q[tees]) /\ Len(received') = Len(received) + n
    <3>1. /\ 1 \in 1..(r + 1) /\ n \in 0..r /\ 1 <= n + 1 /\ n \in Nat /\ 0 + p[tees] = p[tees]
          /\ p[tees] + 1 - 1 = p[tees] /\ n - 1 + 1 = n /\ p[tees] + n \in Nat
      BY <1>l, <1>3
    <3>2. SubSeq(Bytes(p[tees], r), 1, n) = Bytes(p[tees] + 1 - 1, n - 1 + 1)
      BY <1>l, <3>1, BytesCut
    <3>3. SubSeq(reading[tees], 1, n) = Bytes(0 + p[tees], n)
      BY <1>l, <3>1, <3>2
    <3>4. received = Bytes(0, p[tees])
      BY DEF Chain, Carried, UpTo
    <3>5. received' = Bytes(0, p[tees] + n)
      <4>1. Bytes(0, p[tees]) \o Bytes(0 + p[tees], n) = Bytes(0, p[tees] + n)
        BY <1>l, <3>1, BytesJoin
      <4> QED
        BY <2>1, <3>3, <3>4, <4>1
    <3>6. Len(received) = p[tees] /\ Len(received') = p[tees] + n
      BY <1>l, <3>1, <3>4, <3>5, BytesType
    <3> QED
      BY <2>3, <3>5, <3>6 DEF UpTo
  <2>5. reading'[tees] = Bytes(p[tees] + n, r - n) /\ Len(reading'[tees]) = r - n /\ r - n \in Nat
    <3>1. /\ n + 1 \in 1..(r + 1) /\ r \in 0..r /\ n + 1 <= r + 1
          /\ p[tees] + (n + 1) - 1 = p[tees] + n /\ r - (n + 1) + 1 = r - n
          /\ r - n \in Nat /\ p[tees] + n \in Nat
      BY <1>l, <1>3
    <3>2. SubSeq(Bytes(p[tees], r), n + 1, r) = Bytes(p[tees] + (n + 1) - 1, r - (n + 1) + 1)
      BY <1>l, <3>1, BytesCut
    <3>3. reading'[tees] = SubSeq(Bytes(p[tees], r), n + 1, r)
      BY <1>n, <1>l, <2>1 DEF Typed
    <3>4. reading'[tees] = Bytes(p[tees] + n, r - n)
      BY <3>1, <3>2, <3>3
    <3>5. Len(Bytes(p[tees] + n, r - n)) = r - n
      BY <3>1, BytesType
    <3> QED
      BY <3>1, <3>4, <3>5
  <2>6. \A k \in Streams : k # tees => reading'[k] = reading[k]
    BY <2>1 DEF Typed
  <2>7. reading' \in [Streams -> Seq(Nat)] /\ received' \in Seq(Nat)
    <3>1. reading'[tees] \in Seq(Nat) /\ received' \in Seq(Nat)
      <4>1. p[tees] + n \in Nat
        BY <1>l, <1>3
      <4> QED
        BY <2>3, <2>4, <2>5, <4>1, BytesType DEF UpTo
    <3>2. \A k \in Streams : reading'[k] \in Seq(Nat)
      BY <2>6, <3>1 DEF Typed
    <3>3. reading' = [k \in Streams |-> reading'[k]]
      BY <2>1 DEF Typed
    <3> QED
      BY <3>1, <3>2, <3>3
  <2>8. Typed'
    <3>1. waited' \in 0..IdleMs
      BY <1>1, Numbers
    <3> QED
      BY <1>1, <2>2, <2>7, <3>1 DEF Typed
  <2>9. \A k \in Streams :
            /\ (Alive(k)' <=> Alive(k))
            /\ Bare(k) => k # tees /\ Bare(k)'
    BY <1>l, <2>2, <2>6 DEF Alive, Bare
  <2>10. \A k \in Streams : Got(q, k)' = Got(p, k)
    <3>1. Got(q, tees)' = Got(p, tees)
      <4>1. Len(writing[tees]) \in Nat
        BY <1>n, NoBytes DEF Typed
      <4>2. (p[tees] + n) + (r - n) + Len(writing[tees]) = p[tees] + r + Len(writing[tees])
        BY <1>l, <1>3, <4>1
      <4> QED
        BY <2>2, <2>3, <2>5, <4>2 DEF Got, r
    <3> QED
      BY <2>2, <2>3, <2>6, <3>1 DEF Got
  <2>11. \A k \in 1..tees : q[k - 1] = p[k - 1]
    BY <1>n, <2>3
  <2>12. Carried(q)'
    <3>1. \A k \in 1..tees : Alive(k)' => Got(q, k)' = q[k - 1]
      BY <1>n, <2>9, <2>10, <2>11 DEF Chain, Carried
    <3>2. \A k \in Streams : Got(q, k)' <= produced'
      BY <2>2, <2>10 DEF Chain, Carried
    <3>3. \A k \in Streams : k > tees => q[k] = 0
      BY <1>n, <2>3 DEF Chain, Carried
    <3>4. (received = UpTo(q[tees]))'
      BY <2>2, <2>4 DEF UpTo, Bytes
    <3>5. ASSUME NEW k \in Streams
          PROVE  (/\ reading[k] = Bytes(q[k], Len(reading[k]))
                  /\ writing[k] = Bytes(q[k] + Len(reading[k]), Len(writing[k])))'
      <4>1. CASE k = tees
        <5>1. writing[tees] = Bytes(p[tees] + r, Len(writing[tees]))
          BY <1>n DEF Chain, Carried, r
        <5>2. (p[tees] + n) + (r - n) = p[tees] + r
          BY <1>l, <1>3
        <5> QED
          BY ZenonT(40), <2>2, <2>3, <2>5, <4>1, <5>1, <5>2 DEF Bytes
      <4>2. CASE k # tees
        BY <2>2, <2>3, <2>6, <4>2 DEF Chain, Carried, Bytes
      <4> QED
        BY <4>1, <4>2
    <3>6. Alive(0)' => Got(q, 0)' = produced
      BY <1>n, <2>9, <2>10 DEF Chain, Carried
    <3> QED
      BY <2>2, <2>3, <3>1, <3>2, <3>3, <3>4, <3>5, <3>6 DEF Carried
  <2>13. Peeked(q)'
    BY <2>2, <2>11 DEF Chain, Peeked, UpTo, Bytes, Smaller
  <2>14. EndSeen(q)'
    <3>1. \A k \in Streams : status[k] = "ended" => Got(q, k)' = produced /\ status[0] # "open"
      BY <2>10 DEF Chain, EndSeen
    <3>2. ASSUME NEW k \in 1..tees
          PROVE  /\ status[k] = "ended" => sourceEnded[k]
                 /\ sourceEnded[k] => /\ q[k - 1] = produced /\ Bare(k - 1)' /\ status[0] # "open"
                                      /\ status[k - 1] # "open" /\ status[k] # "open"
      <4>1. /\ status[k] = "ended" => sourceEnded[k]
            /\ sourceEnded[k] => /\ p[k - 1] = produced /\ Bare(k - 1) /\ status[0] # "open"
                                 /\ status[k - 1] # "open" /\ status[k] # "open"
        BY DEF Chain, EndSeen
      <4>2. Bare(k - 1) => Bare(k - 1)'
        BY <1>n, <2>9
      <4> QED
        BY <2>11, <4>1, <4>2
    <3>3. ASSUME NEW k \in 1..tees, sourceEnded[k], stage # "failed", NEW j \in 0..(k - 1)
          PROVE  status[j] = "ended" /\ Bare(j)'
      <4>1. j \in Streams
        BY <1>n
      <4>2. status[j] = "ended" /\ Bare(j)
        BY <3>3 DEF Chain, EndSeen
      <4> QED
        BY <2>9, <4>1, <4>2
    <3> QED
      BY <2>2, <3>1, <3>2, <3>3 DEF EndSeen
  <2>15. DeadHoldNothing'
    <3>1. \A k \in Streams : ~Alive(k)' => Bare(k)'
      BY <2>9 DEF Chain, DeadHoldNothing
    <3>2. ASSUME NEW k \in 1..tees, status[k] = "destroyed", stage # "failed"
          PROVE  k < tees /\ ~Alive(k + 1)'
      <4>1. k < tees /\ ~Alive(k + 1)
        BY <3>2 DEF Chain, DeadHoldNothing
      <4>2. k + 1 \in Streams
        BY <1>n, <4>1
      <4> QED
        BY <2>9, <4>1, <4>2
    <3> QED
      BY <2>2, <3>1, <3>2 DEF DeadHoldNothing
  <2>16. HeldBack'
    <3>1. \A k \in 1..tees : Alive(k)' => Alive(k)
      BY <1>n, <2>9
    <3> QED
      BY <2>2, <3>1 DEF Chain, HeldBack, MemoryBounded
  <2>17. Untouched'
    BY <1>n, <2>2, <2>9 DEF Chain, Untouched
  <2>18. Phases'
    <3>1. sink = "buffer" => Len(received') <= Limit
      BY <1>5, <2>4 DEF Fits
    <3> QED
      BY <1>1, <2>2, <3>1 DEF Phases
  <2> QED
    BY <2>2, <2>3, <2>8, <2>12, <2>13, <2>14, <2>15, <2>16, <2>17, <2>18 DEF IInv, Chain
<1> QED
  BY <1>4, <1>5

\* A chunk passes to the next stream, whose peek copies what it still wants; a stream
\* that is gone drops it.
LEMMA DataStep ==
    ASSUME Typed, NEW p \in [Streams -> Nat], Chain(p), Phases, NEW i \in 1..tees, Data(i)
    PROVE  IInv'
<1> DEFINE j == i - 1
           r == Len(reading[j])
           w == Len(writing[i])
<1>n. /\ tees \in Nat /\ 0 \in Streams /\ i \in Streams /\ j \in Streams /\ j # i /\ j \in Nat
      /\ j < tees /\ \A k \in 1..tees : k \in Streams /\ k - 1 \in Streams /\ (k # i => k - 1 # j)
      /\ want[i] \in Nat
  BY SMTT(30), ChainTypes
<1>l. /\ p[j] \in Nat /\ r \in Nat /\ reading[j] = Bytes(p[j], r) /\ reading[j] # <<>> /\ w \in Nat
      /\ Alive(j) /\ ~paused[i] /\ ~Bare(j)
  BY <1>n, NoBytes DEF Chain, Carried, Typed, Data, DataReady, Bare
<1>s. /\ ~sourceEnded[i] /\ status[i] # "ended" /\ status[j] # "errored"
      /\ (Alive(i) <=> status[i] = "open")
  BY <1>l DEF Chain, EndSeen, Alive
<1> HIDE DEF r, w
<1>1. PICK n \in 1..Smaller(MaxChunk, r) :
           LET chunk == SubSeq(reading[j], 1, n)
               open == Writable(i)
               full == open /\ w + n >= High
           IN  /\ head' = IF Len(head[i]) < want[i]
                          THEN [head EXCEPT ![i] = @ \o Slice(i, chunk)] ELSE head
               /\ peek' = IF Len(head[i]) < want[i] /\ Len(head'[i]) >= want[i]
                          THEN [peek EXCEPT ![i] = "closed"] ELSE peek
               /\ reading' = [reading EXCEPT ![j] = SubSeq(@, n + 1, r)]
               /\ writing' = IF open THEN [writing EXCEPT ![i] = @ \o chunk] ELSE writing
               /\ needDrain' = [needDrain EXCEPT ![i] = @ \/ full]
               /\ paused' = [paused EXCEPT ![i] = MustPause(i, full)]
  BY DEF Data, r, w
<1> HIDE DEF j
<1>2. /\ n \in 1..r /\ n \in Nat /\ n > 0 /\ r - n \in Nat /\ p[j] + n \in Nat /\ n <= MaxChunk
      /\ MaxChunk \in Nat /\ High \in Nat /\ High > 0
  BY SMTT(30), <1>l, Numbers DEF Smaller
<1>a. /\ want[i] \in Nat /\ p[j] \in Nat /\ r \in Nat /\ w \in Nat /\ n \in Nat
      /\ 1 <= n /\ n <= r /\ n <= MaxChunk /\ MaxChunk \in Nat /\ High \in Nat /\ 1 <= High
  BY <1>n, <1>l, <1>2
<1> DEFINE chunk == SubSeq(reading[j], 1, n)
<1>3. chunk = Bytes(p[j], n)
  <2>1. /\ 1 \in 1..(r + 1) /\ n \in 0..r /\ 1 <= n + 1 /\ p[j] + 1 - 1 = p[j] /\ n - 1 + 1 = n
    BY <1>l, <1>2
  <2>2. SubSeq(Bytes(p[j], r), 1, n) = Bytes(p[j] + 1 - 1, n - 1 + 1)
    BY <1>l, <2>1, BytesCut
  <2> QED
    BY <1>l, <2>1, <2>2
<1> HIDE DEF chunk
<1>4. /\ head' = IF Len(head[i]) < want[i]
                THEN [head EXCEPT ![i] = @ \o Slice(i, Bytes(p[j], n))] ELSE head
      /\ peek' = IF Len(head[i]) < want[i] /\ Len(head'[i]) >= want[i]
                THEN [peek EXCEPT ![i] = "closed"] ELSE peek
      /\ reading' = [reading EXCEPT ![j] = SubSeq(@, n + 1, r)]
      /\ writing' = IF status[i] = "open" THEN [writing EXCEPT ![i] = @ \o Bytes(p[j], n)] ELSE writing
      /\ needDrain' = [needDrain EXCEPT ![i] = @ \/ (status[i] = "open" /\ w + n >= High)]
      /\ paused' = [paused EXCEPT ![i] = (status[i] = "open" /\ w + n >= High) /\ peek'[i] = "closed"]
  BY <1>1, <1>3 DEF chunk, Writable, MustPause
<1>5. /\ Streams' = Streams /\ tees' = tees /\ want' = want /\ status' = status
      /\ produced' = produced /\ stage' = stage /\ sink' = sink /\ fresh' = fresh
      /\ sourceEnded' = sourceEnded /\ cut' = cut /\ received' = received
      /\ asking' = asking /\ waited' = waited
  BY DEF Data, service, reader, Streams
<1>6. PICK q \in [Streams -> Nat] : /\ q[j] = p[j] + n
                                   /\ \A k \in Streams : k # j => q[k] = p[k]
  <2> DEFINE after == [p EXCEPT ![j] = @ + n]
  <2>1. /\ after \in [Streams -> Nat] /\ after[j] = p[j] + n
        /\ \A k \in Streams : k # j => after[k] = p[k]
    BY <1>n, <1>2
  <2> QED
    BY <2>1
\* What the tee reads, and what it writes.
<1>7. reading'[j] = Bytes(q[j], r - n) /\ Len(reading'[j]) = r - n
  <2>1. /\ n + 1 \in 1..(r + 1) /\ r \in 0..r /\ n + 1 <= r + 1
        /\ p[j] + (n + 1) - 1 = p[j] + n /\ r - (n + 1) + 1 = r - n
    BY <1>l, <1>2
  <2>2. SubSeq(Bytes(p[j], r), n + 1, r) = Bytes(p[j] + (n + 1) - 1, r - (n + 1) + 1)
    BY <1>l, <2>1, BytesCut
  <2>3. reading'[j] = SubSeq(Bytes(p[j], r), n + 1, r)
    BY <1>n, <1>l, <1>4 DEF Typed
  <2>4. Len(Bytes(p[j] + n, r - n)) = r - n
    BY <1>2, BytesType
  <2> QED
    BY <1>6, <2>1, <2>2, <2>3, <2>4
<1>8. /\ \A k \in Streams : k # j => reading'[k] = reading[k]
      /\ \A k \in Streams : k # i => writing'[k] = writing[k]
      /\ status[i] # "open" => writing'[i] = writing[i]
  BY <1>4 DEF Typed
<1>9. ASSUME status[i] = "open"
      PROVE  /\ writing'[i] = Bytes(p[i] + Len(reading[i]), w + n) /\ Len(writing'[i]) = w + n
             /\ Got(q, i)' = q[j] /\ w <= p[j] /\ writing'[i] # <<>>
  <2>1. /\ p[i] \in Nat /\ Len(reading[i]) \in Nat /\ p[i] + Len(reading[i]) \in Nat
        /\ writing[i] = Bytes(p[i] + Len(reading[i]), w)
    <3>1. p[i] \in Nat /\ Len(reading[i]) \in Nat
      BY <1>n, NoBytes DEF Typed
    <3>2. writing[i] = Bytes(p[i] + Len(reading[i]), w)
      BY <1>n DEF Chain, Carried, w
    <3> QED
      BY <3>1, <3>2
  <2>2. Got(p, i) = p[j]
    BY <1>9, <1>s DEF Chain, Carried, j
  <2>3. p[i] + Len(reading[i]) + w = p[j]
    BY <2>2 DEF Got, w
  <2>4. writing'[i] = Bytes(p[i] + Len(reading[i]), w) \o Bytes(p[i] + Len(reading[i]) + w, n)
    BY <1>n, <1>4, <1>9, <2>1, <2>3 DEF Typed
  <2>5. writing'[i] = Bytes(p[i] + Len(reading[i]), w + n) /\ w + n \in Nat
    <3> DEFINE m == p[i] + Len(reading[i])
    <3>1. m \in Nat /\ w \in Nat /\ n \in Nat /\ w + n \in Nat
      BY <1>a, <2>1
    <3>2. writing'[i] = Bytes(m, w) \o Bytes(m + w, n)
      BY <2>4
    <3> HIDE DEF m
    <3>3. writing'[i] = Bytes(m, w + n)
      BY <3>1, <3>2, BytesJoin
    <3> QED
      BY <3>1, <3>3 DEF m
  <2>6. Len(writing'[i]) = w + n
    <3>1. Len(Bytes(p[i] + Len(reading[i]), w + n)) = w + n
      BY <2>1, <2>5, BytesType
    <3> QED
      BY <2>5, <3>1
  <2>7. Got(q, i)' = q[j]
    <3>1. Got(q, i)' = p[i] + Len(reading[i]) + (w + n)
      BY <1>n, <1>6, <1>8, <2>6 DEF Got
    <3>2. p[i] + Len(reading[i]) + (w + n) = p[j] + n
      BY <1>l, <1>2, <2>1, <2>3
    <3> QED
      BY <1>6, <3>1, <3>2
  <2>8. w <= p[j]
    BY <1>l, <2>1, <2>3
  <2>9. writing'[i] # <<>>
    <3>1. w + n # 0
      BY <1>l, <1>2
    <3> QED
      BY <2>6, <3>1, NoBytes
  <2> QED
    BY <2>5, <2>6, <2>7, <2>8, <2>9
<1>10. /\ \A k \in Streams : k # i => Got(q, k)' = Got(p, k)
       /\ status[i] # "open" => Got(q, i)' = Got(p, i)
  <2>1. Got(q, j)' = Got(p, j)
    <3>1. Len(writing[j]) \in Nat
      BY <1>n, NoBytes DEF Typed
    <3>2. (p[j] + n) + (r - n) + Len(writing[j]) = p[j] + r + Len(writing[j])
      BY <1>l, <1>2, <3>1
    <3> QED
      BY <1>n, <1>6, <1>7, <1>8, <3>2 DEF Got, r
  <2> QED
    BY <1>n, <1>6, <1>8, <2>1 DEF Got
<1>11. \A k \in Streams :
           /\ (Alive(k)' <=> Alive(k))
           /\ Bare(k) => k # j
           /\ Bare(k) /\ (k = i => status[i] # "open") => Bare(k)'
  BY <1>l, <1>5, <1>8 DEF Alive, Bare
\* What the peek gets.
<1>12. /\ head'[i] = UpTo(Smaller(want[i], q[j]))
       /\ peek'[i] = "open" => want[i] = 0 \/ q[j] < want[i]
       /\ peek'[i] = "closed" => q[j] >= want[i]
       /\ peek[i] = "open" => want[i] = 0 \/ p[j] < want[i]
  <2>1. /\ head[i] = Bytes(0, Smaller(want[i], p[j]))
        /\ peek[i] = "open" => want[i] = 0 \/ p[j] < want[i]
        /\ peek[i] = "closed" => p[j] >= want[i]
    BY <1>s DEF Chain, Peeked, UpTo, j
  <2>2. CASE p[j] < want[i]
    <3> DEFINE m == Smaller(n, want[i] - p[j])
    <3>1. /\ Smaller(want[i], p[j]) = p[j] /\ m \in 0..n /\ m \in Nat
          /\ p[j] + m = Smaller(want[i], p[j] + n) /\ p[j] + m \in Nat
          /\ (p[j] + m >= want[i] <=> p[j] + n >= want[i])
      BY <1>a, <2>2 DEF Smaller
    <3>2. head[i] = Bytes(0, p[j]) /\ Len(head[i]) = p[j]
      <4>1. Len(Bytes(0, p[j])) = p[j]
        BY <1>a, BytesType
      <4> QED
        BY <2>1, <3>1, <4>1
    <3>3. Slice(i, Bytes(p[j], n)) = SubSeq(Bytes(p[j], n), 1, m)
      <4>1. Len(Bytes(p[j], n)) = n
        BY <1>l, <1>2, BytesType
      <4> QED
        BY <3>2, <4>1 DEF Slice
    <3> HIDE DEF m
    <3>4. Slice(i, Bytes(p[j], n)) = Bytes(0 + p[j], m)
      <4>1. /\ 1 \in 1..(n + 1) /\ 1 <= m + 1 /\ p[j] + 1 - 1 = p[j] /\ m - 1 + 1 = m /\ 0 + p[j] = p[j]
        BY <1>a, <3>1
      <4>2. SubSeq(Bytes(p[j], n), 1, m) = Bytes(p[j] + 1 - 1, m - 1 + 1)
        <5>1. 1 \in 1..(n + 1) /\ m \in 0..n /\ 1 <= m + 1 /\ p[j] \in Nat /\ n \in Nat
          BY <1>a, <3>1, <4>1
        <5> QED
          BY <5>1, BytesCut
      <4> QED
        BY <3>3, <4>1, <4>2
    <3>5. head'[i] = Bytes(0, p[j] + m) /\ Len(head'[i]) = p[j] + m
      <4>1. head'[i] = Bytes(0, p[j]) \o Bytes(0 + p[j], m)
        BY <1>n, <1>4, <2>2, <3>2, <3>4 DEF Typed
      <4>2. Bytes(0, p[j]) \o Bytes(0 + p[j], m) = Bytes(0, p[j] + m)
        <5>1. 0 \in Nat /\ p[j] \in Nat /\ m \in Nat
          BY <1>a, <3>1
        <5> QED
          BY <5>1, BytesJoin, Zenon
      <4>3. Len(Bytes(0, p[j] + m)) = p[j] + m
        BY <3>1, BytesType
      <4> QED
        BY <4>1, <4>2, <4>3
    <3>6. peek'[i] = IF p[j] + m >= want[i] THEN "closed" ELSE peek[i]
      BY <1>n, <1>4, <2>2, <3>2, <3>5 DEF Typed
    <3>7. peek[i] = "open"
      <4>1. peek[i] # "closed"
        BY <1>a, <2>1, <2>2
      <4> QED
        BY <1>n, <4>1 DEF Typed
    <3>8. q[j] = p[j] + n
      BY <1>6
    <3>9. head'[i] = UpTo(Smaller(want[i], q[j]))
      BY <3>1, <3>5, <3>8 DEF UpTo
    <3>10. (peek'[i] = "open" => q[j] < want[i]) /\ (peek'[i] = "closed" => q[j] >= want[i])
      BY <1>a, <3>1, <3>6, <3>7, <3>8
    <3> QED
      BY <2>1, <3>9, <3>10
  <2>3. CASE ~(p[j] < want[i])
    <3>1. Smaller(want[i], p[j]) = want[i] /\ Smaller(want[i], p[j] + n) = want[i] /\ p[j] + n >= want[i]
      BY <1>a, <2>3 DEF Smaller
    <3>2. Len(head[i]) = want[i]
      <4>1. Len(Bytes(0, want[i])) = want[i]
        BY <1>a, BytesType
      <4> QED
        BY <2>1, <3>1, <4>1
    <3>3. head' = head /\ peek' = peek
      <4>1. ~(Len(head[i]) < want[i])
        BY <1>a, <3>2
      <4> QED
        BY <1>4, <4>1
    <3> QED
      BY <1>6, <2>1, <2>3, <3>1, <3>3 DEF UpTo
  <2> QED
    BY <2>2, <2>3
<1>13. \A k \in Streams : k # i => /\ head'[k] = head[k] /\ peek'[k] = peek[k]
                                  /\ paused'[k] = paused[k] /\ needDrain'[k] = needDrain[k]
  BY <1>4 DEF Typed
<1>14. Typed'
  <2>1. /\ peek' \in [Streams -> {"open", "closed"}]
        /\ needDrain' \in [Streams -> BOOLEAN] /\ paused' \in [Streams -> BOOLEAN]
    BY <1>n, <1>4 DEF Typed
  <2>2. reading' \in [Streams -> Seq(Nat)]
    <3>1. reading'[j] \in Seq(Nat)
      <4>1. q[j] \in Nat /\ r - n \in Nat
        BY <1>2, <1>6
      <4> QED
        BY <1>7, <4>1, BytesType
    <3>2. \A k \in Streams : reading'[k] \in Seq(Nat)
      BY <1>8, <3>1 DEF Typed
    <3>3. reading' = [k \in Streams |-> reading'[k]]
      BY <1>4 DEF Typed
    <3> QED
      BY <3>2, <3>3
  <2>3. writing' \in [Streams -> Seq(Nat)]
    <3>1. writing'[i] \in Seq(Nat)
      <4>1. CASE status[i] = "open"
        <5>1. p[i] + Len(reading[i]) \in Nat /\ w + n \in Nat
          <6>1. p[i] \in Nat /\ Len(reading[i]) \in Nat
            BY <1>n, NoBytes DEF Typed
          <6> QED
            BY <1>l, <1>2, <6>1
        <5> QED
          BY <1>9, <4>1, <5>1, BytesType
      <4>2. CASE status[i] # "open"
        BY <1>n, <1>8, <4>2 DEF Typed
      <4> QED
        BY <4>1, <4>2
    <3>2. \A k \in Streams : writing'[k] \in Seq(Nat)
      BY <1>8, <3>1 DEF Typed
    <3>3. writing' = [k \in Streams |-> writing'[k]]
      BY <1>4 DEF Typed
    <3> QED
      BY <3>2, <3>3
  <2>4. head' \in [Streams -> Seq(Nat)]
    <3>1. head'[i] \in Seq(Nat)
      <4>1. Smaller(want[i], q[j]) \in Nat
        BY <1>n, <1>2, <1>6 DEF Smaller
      <4> QED
        BY <1>12, <4>1, BytesType DEF UpTo
    <3>2. \A k \in Streams : head'[k] \in Seq(Nat)
      BY <1>13, <3>1 DEF Typed
    <3>3. head' = [k \in Streams |-> head'[k]]
      BY <1>4 DEF Typed
    <3> QED
      BY <3>2, <3>3
  <2> QED
    BY <1>5, <2>1, <2>2, <2>3, <2>4 DEF Typed
<1>15. Carried(q)'
  <2>1. ASSUME NEW k \in 1..tees, Alive(k)' PROVE Got(q, k)' = q[k - 1]
    <3>1. Alive(k)
      BY <1>n, <1>11, <2>1
    <3>2. CASE k = i
      BY <1>s, <1>9, <3>1, <3>2 DEF j
    <3>3. CASE k # i
      <4>1. Got(p, k) = p[k - 1]
        BY <3>1 DEF Chain, Carried
      <4> QED
        BY <1>n, <1>6, <1>10, <3>3, <4>1
    <3> QED
      BY <3>2, <3>3
  <2>2. ASSUME NEW k \in Streams PROVE Got(q, k)' <= produced'
    <3>1. Got(p, k) <= produced
      BY DEF Chain, Carried
    <3>2. CASE k = i /\ status[i] = "open"
      <4>1. Got(p, j) <= produced /\ Got(p, j) = p[j] + r + Len(writing[j])
        BY <1>n DEF Chain, Carried, Got, r
      <4>2. Len(writing[j]) \in Nat /\ produced \in Nat
        BY <1>n, NoBytes, Numbers DEF Typed
      <4>3. p[j] + n <= produced
        BY SMTT(30), <1>a, <4>1, <4>2
      <4> QED
        BY <1>5, <1>6, <1>9, <3>2, <4>3
    <3>3. CASE ~(k = i /\ status[i] = "open")
      BY <1>5, <1>10, <3>1, <3>3
    <3> QED
      BY <3>2, <3>3
  <2>3. \A k \in Streams : k > tees => q[k] = 0
    BY <1>n, <1>6 DEF Chain, Carried
  <2>4. (received = UpTo(q[tees]))'
    <3>1. q[tees] = p[tees]
      BY <1>n, <1>6 DEF Typed
    <3> QED
      BY <1>5, <3>1 DEF Chain, Carried, UpTo, Bytes
  <2>5. ASSUME NEW k \in Streams
        PROVE  (/\ reading[k] = Bytes(q[k], Len(reading[k]))
                /\ writing[k] = Bytes(q[k] + Len(reading[k]), Len(writing[k])))'
    <3>1. reading[k] = Bytes(p[k], Len(reading[k])) /\ writing[k] = Bytes(p[k] + Len(reading[k]), Len(writing[k]))
      BY DEF Chain, Carried
    <3>2. CASE k = j
      <4>1. q[j] + (r - n) = p[j] + r
        BY <1>a, <1>6
      <4> QED
        <5>1. writing'[j] = writing[j] /\ writing[j] = Bytes(p[j] + r, Len(writing[j]))
          BY <1>n, <1>8, <3>1, <3>2 DEF r
        <5>2. writing'[j] = Bytes(q[j] + Len(reading'[j]), Len(writing'[j]))
          BY <1>7, <4>1, <5>1
        <5>3. reading'[j] = Bytes(q[j], Len(reading'[j]))
          BY <1>7
        <5> QED
          BY <3>2, <5>2, <5>3 DEF Bytes
    <3>3. CASE k = i
      <4>1. CASE status[i] = "open"
        BY <1>n, <1>6, <1>8, <1>9, <3>1, <3>3, <4>1 DEF Bytes
      <4>2. CASE status[i] # "open"
        BY <1>n, <1>6, <1>8, <3>1, <3>3, <4>2 DEF Bytes
      <4> QED
        BY <4>1, <4>2
    <3>4. CASE k # i /\ k # j
      BY <1>6, <1>8, <3>1, <3>4 DEF Bytes
    <3> QED
      BY <3>2, <3>3, <3>4
  <2>6. Alive(0)' => Got(q, 0)' = produced
    <3>1. 0 # i
      BY <1>n DEF j
    <3> QED
      BY <1>n, <1>10, <1>11, <3>1 DEF Chain, Carried
  <2> QED
    BY <1>5, <1>6, <2>1, <2>2, <2>3, <2>4, <2>5, <2>6 DEF Carried
<1>16. Peeked(q)'
  <2>1. ASSUME NEW k \in 1..tees
        PROVE  /\ head'[k] = UpTo(Smaller(want[k], q[k - 1]))
               /\ peek'[k] = "open" => want[k] = 0 \/ q[k - 1] < want[k]
               /\ peek'[k] = "closed" => \/ q[k - 1] >= want[k]
                                        \/ sourceEnded[k]
                                        \/ status[k - 1] = "errored"
    <3>1. CASE k = i
      BY <1>12, <3>1 DEF j
    <3>2. CASE k # i
      <4>1. q[k - 1] = p[k - 1] /\ head'[k] = head[k] /\ peek'[k] = peek[k]
        BY <1>n, <1>6, <1>13, <3>2
      <4> QED
        BY <4>1 DEF Chain, Peeked
    <3> QED
      BY <3>1, <3>2
  <2> QED
    BY <1>5, <2>1 DEF Peeked, UpTo, Bytes, Smaller
<1>17. EndSeen(q)'
  <2>1. \A k \in Streams : status[k] = "ended" => Got(q, k)' = produced /\ status[0] # "open"
    BY <1>s, <1>10 DEF Chain, EndSeen
  <2>2. ASSUME NEW k \in 1..tees
        PROVE  /\ status[k] = "ended" => sourceEnded[k]
               /\ sourceEnded[k] => /\ q[k - 1] = produced /\ Bare(k - 1)' /\ status[0] # "open"
                                    /\ status[k - 1] # "open" /\ status[k] # "open"
    <3>1. /\ status[k] = "ended" => sourceEnded[k]
          /\ sourceEnded[k] => /\ p[k - 1] = produced /\ Bare(k - 1) /\ status[0] # "open"
                               /\ status[k - 1] # "open" /\ status[k] # "open"
      BY DEF Chain, EndSeen
    <3>2. sourceEnded[k] => Bare(k - 1)' /\ k - 1 # j
      BY <1>n, <1>11, <3>1
    <3>3. k - 1 # j => q[k - 1] = p[k - 1]
      BY <1>n, <1>6
    <3> QED
      BY <3>1, <3>2, <3>3
  <2>3. ASSUME NEW k \in 1..tees, sourceEnded[k], stage # "failed", NEW m \in 0..(k - 1)
        PROVE  status[m] = "ended" /\ Bare(m)'
    <3>1. m \in Streams
      BY <1>n
    <3>2. status[m] = "ended" /\ Bare(m)
      BY <2>3 DEF Chain, EndSeen
    <3> QED
      BY <1>s, <1>11, <3>1, <3>2
  <2> QED
    BY <1>5, <2>1, <2>2, <2>3 DEF EndSeen
<1>18. DeadHoldNothing'
  <2>1. ASSUME NEW k \in Streams, ~Alive(k)' PROVE Bare(k)'
    <3>1. ~Alive(k) /\ Bare(k)
      BY <1>11, <2>1 DEF Chain, DeadHoldNothing
    <3> QED
      BY <1>s, <1>11, <3>1
  <2>2. ASSUME NEW k \in 1..tees, status[k] = "destroyed", stage # "failed"
        PROVE  k < tees /\ ~Alive(k + 1)'
    <3>1. k < tees /\ ~Alive(k + 1)
      BY <2>2 DEF Chain, DeadHoldNothing
    <3>2. k + 1 \in Streams
      BY <1>n, <3>1
    <3> QED
      BY <1>11, <3>1, <3>2
  <2> QED
    BY <1>5, <2>1, <2>2 DEF DeadHoldNothing
<1>19. HeldBack'
  <2>1. ASSUME NEW k \in 1..tees, Alive(k)'
        PROVE  /\ paused'[k] => needDrain'[k] /\ writing'[k] # <<>>
               /\ ~paused'[k] /\ ~sourceEnded[k] /\ peek'[k] = "closed" => Len(writing'[k]) < High
    <3>1. Alive(k) /\ k \in Streams
      BY <1>n, <1>11, <2>1
    <3>2. CASE k = i
      <4>1. status[i] = "open"
        BY <1>s, <3>1, <3>2
      <4>2. /\ paused'[i] <=> w + n >= High /\ peek'[i] = "closed"
            /\ w + n >= High => needDrain'[i]
        BY <1>n, <1>4, <4>1 DEF Typed
      <4> QED
        BY SMTT(30), <1>l, <1>2, <1>9, <3>2, <4>1, <4>2
    <3>3. CASE k # i
      BY <1>8, <1>13, <3>1, <3>3 DEF Chain, HeldBack
    <3> QED
      BY <3>2, <3>3
  <2>2. ASSUME NEW k \in 1..tees, want[k] > 0
        PROVE  Len(writing'[k]) < MaxChunk + (IF want[k] > High THEN want[k] ELSE High)
    <3>1. Len(writing[k]) < MaxChunk + (IF want[k] > High THEN want[k] ELSE High)
      BY <2>2 DEF Chain, HeldBack, MemoryBounded
    <3>2. CASE k = i /\ status[i] = "open"
      <4>1. CASE peek[i] = "open"
        <5>1. p[j] < want[i] /\ w <= p[j]
          BY <1>a, <1>9, <1>12, <2>2, <3>2, <4>1
        <5>2. w + n < MaxChunk + (IF want[i] > High THEN want[i] ELSE High)
          BY <1>a, <5>1
        <5> QED
          BY <1>9, <3>2, <5>2
      <4>2. CASE peek[i] = "closed"
        <5>1. w < High
          BY <1>l, <1>s, <3>2, <4>2 DEF Chain, HeldBack, w
        <5>2. w + n < MaxChunk + (IF want[i] > High THEN want[i] ELSE High)
          BY <1>a, <5>1
        <5> QED
          BY <1>9, <3>2, <5>2
      <4> QED
        BY <1>n, <4>1, <4>2 DEF Typed
    <3>3. CASE ~(k = i /\ status[i] = "open")
      BY <1>n, <1>8, <3>1, <3>3
    <3> QED
      BY <3>2, <3>3
  <2> QED
    BY <1>5, <2>1, <2>2 DEF HeldBack, MemoryBounded
<1>20. Untouched'
  <2>1. \A k \in Streams : k > tees => k # i /\ k # j
    BY <1>n
  <2>2. writing'[0] = <<>>
    <3>1. 0 # i
      BY <1>n DEF j
    <3> QED
      BY <1>n, <1>8, <3>1 DEF Chain, Untouched
  <2>3. \A k \in Streams : k > tees =>
           /\ status[k] = "open" /\ peek'[k] = "open"
           /\ Bare(k)' /\ head'[k] = <<>>
           /\ ~paused'[k] /\ ~sourceEnded[k]
    BY <1>11, <1>13, <2>1 DEF Chain, Untouched
  <2> QED
    BY <1>5, <2>2, <2>3 DEF Untouched
<1>21. Phases'
  <2>1. ~(asking /\ waited > 0 /\ ~fresh)
    BY NotQuiet DEF Data
  <2> QED
    BY <1>5, <2>1 DEF Phases
<1> QED
  BY <1>5, <1>14, <1>15, <1>16, <1>17, <1>18, <1>19, <1>20, <1>21 DEF IInv, Chain
-----------------------------------------------------------------------------
\* Every step keeps the inductive invariant.
LEMMA NextInv == IInv /\ [Next]_vars => IInv'
<1> SUFFICES ASSUME Typed, NEW p \in [Streams -> Nat], Chain(p), Phases, [Next]_vars
             PROVE  IInv'
  BY DEF IInv
<1>1. CASE \E i \in 1..tees : Data(i) \/ End(i) \/ Error(i) \/ Close(i)
  BY <1>1, DataStep, EndStep, ErrorStep, CloseStep
<1>2. CASE \E i \in Streams : Transform(i)
  BY <1>2, TransformStep
<1>3. CASE Produce \/ SourceEnds \/ SourceBreaks
  BY <1>3, ProduceStep, SourceEndsStep, SourceBreaksStep
<1>4. CASE Accept \/ Reject \/ Ask \/ UploadFails
  BY <1>4, AcceptStep, RejectStep, AskStep, GiveUpStep DEF UploadFails
<1>5. CASE Take \/ Finish \/ Break \/ Tick \/ TimeOut
  BY <1>5, TakeStep, FinishStep, GiveUpStep, TickStep, TimeOutStep DEF Break
<1>6. CASE UNCHANGED vars
  <2>1. Chain(p)' /\ Streams' = Streams
    BY <1>6, ChainSame DEF vars, flow, Streams
  <2>2. Typed'
    BY <1>6, <2>1 DEF vars, Typed
  <2>3. Phases'
    <3>1. Quiet' <=> Quiet
      BY <1>6, <2>1 DEF vars, Quiet, DataReady, EndReady, ErrorReady, CloseReady, TransformReady,
                        TakeReady, FinishReady, BreakReady, Alive, Emptied
    <3> QED
      BY <1>6, <3>1 DEF vars, Phases
  <2> QED
    BY <2>1, <2>2, <2>3 DEF IInv
<1> QED
  BY <1>1, <1>2, <1>3, <1>4, <1>5, <1>6 DEF Next, Library

\* The inductive invariant holds in every reachable state.
THEOREM StreamInvariant == Spec => []IInv
BY InitInv, NextInv, PTL DEF Spec

\* Every stream of the chain is well formed, and those that are dead or not yet
\* teed hold nothing.
THEOREM StreamTypes == Spec => []TypeOK
<1>1. IInv => TypeOK
  <2> SUFFICES ASSUME Typed, NEW p \in [Streams -> Nat], Chain(p), Phases PROVE TypeOK
    BY DEF IInv
  <2>1. ASSUME NEW i \in Streams
        PROVE  /\ status[i] \in {"open", "ended", "errored", "destroyed"}
               /\ ~Alive(i) => Held(i) = <<>>
               /\ i > tees => Held(i) = <<>> /\ head[i] = <<>>
    BY HeldNothing DEF Typed, Chain, DeadHoldNothing, Untouched
  <2> QED
    BY <2>1 DEF Typed, Phases, TypeOK
<1> QED
  BY <1>1, StreamInvariant, PTL

\* Each byte of the source is sent once and in order, and an upload that is done
\* sent a body that ended, and all of it.
THEOREM BytesStayInOrder == Spec => []BytesInOrder
<1>1. IInv => BytesInOrder
  <2> SUFFICES ASSUME Typed, NEW p \in [Streams -> Nat], Chain(p), Phases PROVE BytesInOrder
    BY DEF IInv
  <2>n. /\ tees \in Nat /\ tees \in Streams /\ 0..tees \subseteq Streams /\ produced \in Nat
        /\ \A i \in 1..tees : i - 1 \in 0..tees
        /\ \A i \in 0..tees : i \in Streams /\ p[i] \in Nat /\ (i # 0 => i \in 1..tees)
    <3>1. /\ tees \in Nat /\ tees \in Streams /\ produced \in Nat
          /\ Len(want) \in Nat /\ Streams = 0..Len(want)
      BY Numbers DEF Typed
    <3>2. 0..tees \subseteq Streams
      BY <3>1
    <3>3. \A i \in 1..tees : i - 1 \in 0..tees
      BY <3>1
    <3>4. \A i \in 0..tees : i # 0 => i \in 1..tees
      BY <3>1
    <3> QED
      BY <3>1, <3>2, <3>3, <3>4
  <2>1. received = UpTo(p[tees]) /\ Len(received) = p[tees]
    <3>1. Len(Bytes(0, p[tees])) = p[tees]
      BY <2>n, BytesType
    <3> QED
      BY <3>1 DEF Chain, Carried, UpTo
  <2>2. ASSUME \A i \in 0..tees : Alive(i)
        PROVE  \E taken \in [0..tees -> 0..produced] :
                   /\ taken[tees] = Len(received)
                   /\ \A i \in 0..tees :
                          LET given == IF i = 0 THEN produced ELSE taken[i - 1]
                          IN  taken[i] <= given /\ Held(i) = Bytes(taken[i], given - taken[i])
    <3> DEFINE q == [i \in 0..tees |-> p[i]]
    <3>1. ASSUME NEW i \in 0..tees PROVE p[i] \in 0..produced
      <4>1. Got(p, i) <= produced
        BY <2>n DEF Chain, Carried
      <4>2. Len(reading[i]) \in Nat /\ Len(writing[i]) \in Nat
        BY <2>n, NoBytes DEF Typed
      <4> QED
        BY <2>n, <4>1, <4>2 DEF Got
    <3>2. q \in [0..tees -> 0..produced] /\ q[tees] = Len(received)
      BY <2>n, <2>1, <3>1
    <3>3. ASSUME NEW i \in 0..tees
          PROVE  LET given == IF i = 0 THEN produced ELSE p[i - 1]
                 IN  p[i] <= given /\ Held(i) = Bytes(p[i], given - p[i])
      <4> DEFINE given == IF i = 0 THEN produced ELSE p[i - 1]
                 r == Len(reading[i])
                 w == Len(writing[i])
      <4>1. p[i] + r + w = given /\ reading[i] = Bytes(p[i], r) /\ writing[i] = Bytes(p[i] + r, w)
        BY <2>n, <2>2 DEF Chain, Carried, Got
      <4>2. p[i] \in Nat /\ r \in Nat /\ w \in Nat
        BY <2>n, NoBytes DEF Typed
      <4> HIDE DEF given, r, w
      <4>3. Held(i) = Bytes(p[i], r + w)
        <5>1. Bytes(p[i], r) \o Bytes(p[i] + r, w) = Bytes(p[i], r + w)
          BY <4>2, BytesJoin
        <5> QED
          BY <4>1, <5>1 DEF Held
      <4>4. p[i] <= given /\ r + w = given - p[i]
        BY <4>1, <4>2
      <4> QED
        BY <4>3, <4>4 DEF given
    <3>4. ASSUME NEW i \in 0..tees
          PROVE  LET given == IF i = 0 THEN produced ELSE q[i - 1]
                 IN  q[i] <= given /\ Held(i) = Bytes(q[i], given - q[i])
      BY <2>n, <3>3
    <3> HIDE DEF q
    <3> QED
      BY <3>2, <3>4
  <2>3. ASSUME stage = "done" PROVE status[0] = "ended" /\ Len(received) = produced
    <3>1. status[tees] = "ended" /\ Len(received) = produced
      BY <2>3 DEF Phases
    <3>2. CASE tees = 0
      BY <3>1, <3>2
    <3>3. CASE tees # 0
      <4>1. tees \in 1..tees /\ 0 \in 0..(tees - 1)
        BY <2>n, <3>3
      <4>2. sourceEnded[tees]
        BY <3>1, <4>1 DEF Chain, EndSeen
      <4> QED
        BY <2>3, <3>1, <4>1, <4>2 DEF Chain, EndSeen
    <3> QED
      BY <3>2, <3>3
  <2> QED
    BY <2>1, <2>2, <2>3 DEF BytesInOrder, Phases
<1> QED
  BY <1>1, StreamInvariant, PTL

\* A validator gets the first bytes of the body, all that it asked for or all
\* there are.
THEOREM HeadsStayFirst == Spec => []HeadsAreFirst
<1>1. IInv => HeadsAreFirst
  <2> SUFFICES ASSUME Typed, NEW p \in [Streams -> Nat], Chain(p), NEW i \in 1..tees
               PROVE  /\ head[i] = UpTo(Len(head[i])) /\ Len(head[i]) <= want[i]
                      /\ peek[i] = "closed" =>
                             \/ Len(head[i]) = want[i]
                             \/ sourceEnded[i] /\ Len(head[i]) = produced
                             \/ status[i - 1] = "errored"
    BY DEF IInv, HeadsAreFirst
  <2>1. want[i] \in Nat /\ p[i - 1] \in Nat
    BY ChainTypes
  <2> DEFINE n == Smaller(want[i], p[i - 1])
  <2>2. n \in Nat /\ n <= want[i] /\ (n = want[i] \/ n = p[i - 1]) /\ (p[i - 1] >= want[i] => n = want[i])
    BY <2>1 DEF Smaller
  <2>3. head[i] = UpTo(n)
    BY DEF Chain, Peeked
  <2> HIDE DEF n
  <2>4. Len(head[i]) = n
    <3>1. Len(Bytes(0, n)) = n
      BY <2>2, BytesType
    <3> QED
      BY <2>3, <3>1 DEF UpTo
  <2>5. sourceEnded[i] => p[i - 1] = produced
    BY DEF Chain, EndSeen
  <2>6. peek[i] = "closed" => p[i - 1] >= want[i] \/ sourceEnded[i] \/ status[i - 1] = "errored"
    BY DEF Chain, Peeked
  <2> QED
    BY <2>2, <2>3, <2>4, <2>5, <2>6
<1> QED
  BY <1>1, StreamInvariant, PTL

\* A tee holds no more than the peeked bytes, a high-water mark and a chunk.
THEOREM MemoryStaysBounded == Spec => []MemoryBounded
<1>1. IInv => MemoryBounded
  BY DEF IInv, Chain, HeldBack
<1> QED
  BY <1>1, StreamInvariant, PTL
-----------------------------------------------------------------------------
\* What holds of n, and of i - 1 whenever it holds of i, holds down to 0.
LEMMA DownToZero ==
    ASSUME NEW n \in Nat, NEW T, n \in T, \A i \in 1..n : i \in T => i - 1 \in T
    PROVE  \A i \in 0..n : i \in T
<1> SUFFICES ASSUME NEW j \in 0..n, j \notin T PROVE FALSE
  OBVIOUS
<1> DEFINE U == {k \in 0..n : n - k \notin T}
           R == OpToRel(<, Nat)
<1>1. U \subseteq Nat /\ U # {}
  <2>1. n - j \in 0..n /\ n - (n - j) = j
    OBVIOUS
  <2>2. n - j \in U
    BY <2>1
  <2>3. U \subseteq Nat
    OBVIOUS
  <2> QED
    BY <2>2, <2>3
<1>2. IsWellFoundedOn(R, Nat)
  BY NatLessThanWellFounded
<1>3. \A x, y \in Nat : x < y => <<x, y>> \in R
  BY DEF OpToRel
<1> HIDE DEF U, R
<1>4. PICK x \in U : \A y \in U : <<y, x>> \notin R
  BY <1>1, <1>2, WFMin
<1>5. x \in 0..n /\ n - x \notin T
  BY <1>4 DEF U
<1>6. x # 0
  BY <1>5
<1>7. x - 1 \in 0..n /\ x - 1 < x /\ n - x + 1 \in 1..n /\ n - (x - 1) = n - x + 1 /\ n - x + 1 - 1 = n - x
  BY <1>5, <1>6
<1>8. x - 1 \notin U
  <2>1. x \in Nat /\ x - 1 \in Nat
    <3>1. x \in 0..n
      BY <1>5
    <3>2. x - 1 \in 0..n
      BY <1>7
    <3> QED
      BY <3>1, <3>2
  <2>2. <<x - 1, x>> \in R
    BY <1>3, <1>7, <2>1
  <2> QED
    BY <1>4, <2>2
<1>9. n - x + 1 \in T
  BY <1>7, <1>8 DEF U
<1> QED
  BY <1>5, <1>7, <1>9

\* When the sink waits and nothing moves, no stream holds a byte: what is still
\* to come has not left the source.
LEMMA QuietIsEmpty ==
    ASSUME Typed, NEW p \in [Streams -> Nat], Chain(p), Phases, Quiet, asking
    PROVE  (\A i \in 0..tees : Bare(i)) /\ status[0] \in {"open", "destroyed"}
<1>n. /\ tees \in Nat /\ tees \in Streams /\ 0 \in Streams /\ High \in Nat /\ High > 0
      /\ \A i \in 1..tees : i \in Streams /\ i - 1 \in Streams /\ i - 1 \in 0..tees
      /\ stage # "failed"
  BY ChainTypes, Numbers DEF Phases
\* A live stream with nothing to be read has nothing to transform either.
<1>1. \A i \in Streams : Alive(i) /\ reading[i] = <<>> => Bare(i)
  <2>1. ASSUME NEW i \in Streams, Alive(i), reading[i] = <<>>, i # 0 PROVE writing[i] = <<>>
    BY <1>n, <2>1, ChainTypes, NoBytes DEF Quiet, TransformReady
  <2> QED
    BY <2>1 DEF Bare, Chain, Untouched
<1> DEFINE T == {k \in 0..tees : /\ reading[k] = <<>> /\ writing[k] = <<>>
                                 /\ status[k] = "open" \/ (k = 0 /\ status[0] = "destroyed")}
<1>2. tees \in T
  <2>1. Alive(tees) /\ reading[tees] = <<>> /\ ~Emptied(tees)
    BY DEF Quiet, TakeReady, FinishReady, BreakReady
  <2>2. Bare(tees) /\ status[tees] = "open"
    BY <1>n, <1>1, <2>1 DEF Alive, Emptied, Bare
  <2> QED
    BY <1>n, <2>2 DEF Bare
<1>3. ASSUME NEW i \in 1..tees, i \in T PROVE i - 1 \in T
  <2>1. Bare(i) /\ status[i] = "open" /\ Alive(i) /\ i \in Streams /\ i - 1 \in Streams
    BY <1>n, <1>3 DEF Alive, Bare
  <2>2. ~paused[i]
    BY <2>1 DEF Chain, HeldBack, Bare
  <2>3. ~sourceEnded[i]
    BY <2>1 DEF Chain, EndSeen
  <2>4. ~DataReady(i) /\ ~EndReady(i) /\ ~ErrorReady(i)
    BY DEF Quiet
  <2>5. status[i - 1] # "errored" /\ ~Emptied(i - 1) /\ (Alive(i - 1) => reading[i - 1] = <<>>)
    BY <2>1, <2>2, <2>3, <2>4 DEF DataReady, EndReady, ErrorReady
  <2>6. Alive(i - 1) => Bare(i - 1) /\ status[i - 1] = "open"
    BY <1>1, <2>1, <2>5 DEF Alive, Emptied, Bare
  <2>7. ~Alive(i - 1) => i - 1 = 0 /\ status[0] = "destroyed" /\ Bare(0)
    <3>1. SUFFICES ASSUME ~Alive(i - 1) PROVE i - 1 = 0 /\ status[0] = "destroyed" /\ Bare(0)
      OBVIOUS
    <3>2. status[i - 1] = "destroyed" /\ Bare(i - 1)
      BY <2>1, <2>5, <3>1 DEF Alive, Typed, Chain, DeadHoldNothing
    <3>3. i - 1 = 0
      <4>1. SUFFICES ASSUME i - 1 # 0 PROVE FALSE
        OBVIOUS
      <4>2. i - 1 \in 1..tees /\ (i - 1) + 1 = i
        BY <1>n, <4>1
      <4> QED
        BY <1>n, <2>1, <3>2, <4>2 DEF Chain, DeadHoldNothing
    <3> QED
      BY <3>2, <3>3
  <2> QED
    BY <1>n, <2>6, <2>7 DEF Bare
<1> HIDE DEF T
<1>4. \A i \in 0..tees : i \in T
  BY <1>n, <1>2, <1>3, DownToZero
<1>5. 0 \in T
  BY <1>n, <1>4
<1>6. ASSUME NEW i \in 0..tees PROVE Bare(i)
  <2>1. i \in T
    BY <1>4
  <2> QED
    BY <2>1 DEF T, Bare
<1>7. status[0] = "open" \/ status[0] = "destroyed"
  BY <1>5 DEF T
<1> QED
  BY <1>6, <1>7

\* The idle guard gives up only when the uploader has taken all that a live
\* source delivered, or at the very moment something comes.
THEOREM CutsOnlySilentSources == Spec => CutOnlyWhenSilent
<1> DEFINE Silent == cut' /\ ~cut => \/ fresh
                                     \/ /\ \A i \in 0..tees : Held(i) = <<>>
                                        /\ status[0] \in {"open", "destroyed"}
<1>1. IInv /\ [Next]_vars => [Silent]_vars
  <2> SUFFICES ASSUME Typed, NEW p \in [Streams -> Nat], Chain(p), Phases, Next, cut', ~cut, ~fresh
               PROVE  /\ \A i \in 0..tees : Held(i) = <<>>
                      /\ status[0] \in {"open", "destroyed"}
    BY DEF IInv
  <2>1. TimeOut
    BY DEF Next, Library, Produce, SourceEnds, SourceBreaks, Accept, Reject, Ask, UploadFails, GiveUp,
           Data, End, Error, Close, Transform, Take, Finish, Break, Tick, reader
  <2>2. asking /\ Quiet
    BY <2>1, Numbers DEF TimeOut, Phases
  <2>3. (\A i \in 0..tees : Bare(i)) /\ status[0] \in {"open", "destroyed"}
    BY <2>2, QuietIsEmpty
  <2>4. \A i \in 0..tees : i \in Streams
    BY ChainTypes
  <2> QED
    BY <2>3, <2>4, HeldNothing
<1> QED
  BY <1>1, StreamInvariant, PTL DEF Spec, CutOnlyWhenSilent
=============================================================================
