---------------------------- MODULE Speech_proofs ----------------------------
(***************************************************************************)
(* Theorems about the plugins around the assistant, `stt`, `tts`, `ai` and *)
(* `search`, for every value of their constants. Each section has the      *)
(* inductive invariant of its plugin, a lemma per action or group of       *)
(* actions, and the theorem.                                               *)
(***************************************************************************)
EXTENDS Listen, Speak, Assistant, Cloud, FiniteSetTheorems, WellFoundedInduction, TLAPS

-----------------------------------------------------------------------------
(* Numbers and sequences                                                     *)

\* The smallest of some numbers is one of them.
LEMMA LeastElement ==
  ASSUME NEW S, S \subseteq Nat, S # {}
  PROVE  \E x \in S : \A y \in S : x <= y
<1>1. \E x \in S : \A y \in S : ~ (<<y, x>> \in OpToRel(<, Nat))
  BY NatLessThanWellFounded, WFMin
<1>2. PICK x \in S : \A y \in S : ~ (<<y, x>> \in OpToRel(<, Nat))
  BY <1>1
<1>3. \A y \in S : x <= y
  <2> SUFFICES ASSUME NEW y \in S PROVE x <= y
    OBVIOUS
  <2>1. ~ (y < x)
    BY <1>2 DEF OpToRel
  <2> QED
    BY <2>1
<1> QED
  BY <1>3

LEMMA MinIsElement ==
  ASSUME NEW S, S \subseteq Nat, S # {}
  PROVE  Min(S) \in S
BY LeastElement DEF Min

IsSequence(s) == \E S : s \in Seq(S)

\* Sequences whose elements have no common type.
LEMMA SequenceAppend ==
  ASSUME NEW s, IsSequence(s), NEW x
  PROVE  /\ IsSequence(Append(s, x)) /\ Len(s) \in Nat /\ Len(Append(s, x)) = Len(s) + 1
         /\ \A i \in 1..Len(s) : Append(s, x)[i] = s[i]
         /\ Append(s, x)[Len(s) + 1] = x
<1>1. PICK S : s \in Seq(S)
  BY DEF IsSequence
<1>2. s \in Seq(S \cup {x})
  BY <1>1
<1>3. Append(s, x) \in Seq(S \cup {x})
  BY <1>2
<1> QED
  BY <1>1, <1>2, <1>3 DEF IsSequence

LEMMA SequenceTail ==
  ASSUME NEW s, IsSequence(s), s # <<>>
  PROVE  /\ IsSequence(Tail(s)) /\ Len(s) \in Nat /\ Len(s) >= 1 /\ Len(Tail(s)) = Len(s) - 1
         /\ \A i \in 1..Len(s) - 1 : Tail(s)[i] = s[i + 1]
         /\ Head(s) = s[1]
<1>1. PICK S : s \in Seq(S)
  BY DEF IsSequence
<1>2. Tail(s) \in Seq(S)
  BY <1>1
<1> QED
  BY <1>1, <1>2 DEF IsSequence

LEMMA SequenceDomain ==
  ASSUME NEW s, IsSequence(s)
  PROVE  DOMAIN s = 1..Len(s) /\ Len(s) \in Nat
<1>1. PICK S : s \in Seq(S)
  BY DEF IsSequence
<1> QED
  BY <1>1

LEMMA Concatenated ==
  ASSUME NEW T, NEW a \in Seq(T), NEW b \in Seq(T)
  PROVE  /\ a \o b \in Seq(T) /\ Len(a \o b) = Len(a) + Len(b)
         /\ \A k \in 1..Len(a) + Len(b) :
              (a \o b)[k] = IF k <= Len(a) THEN a[k] ELSE b[k - Len(a)]
OBVIOUS

LEMMA EmptySequence == IsSequence(<<>>) /\ Len(<<>>) = 0
<1>1. <<>> \in Seq({})
  OBVIOUS
<1> QED
  BY <1>1 DEF IsSequence

LEMMA AtMostOne ==
  ASSUME NEW S, \A x, y \in S : x = y
  PROVE  Cardinality(S) <= 1
<1>1. CASE S = {}
  BY <1>1, FS_EmptySet
<1>2. CASE S # {}
  <2>1. PICK x \in S : TRUE
    BY <1>2
  <2>2. S = {x}
    BY <2>1
  <2>3. Cardinality({x}) = 1
    BY FS_Singleton, Zenon
  <2> QED
    BY <2>2, <2>3
<1> QED
  BY <1>1, <1>2

-----------------------------------------------------------------------------
(* Listen: texts are complete                                                *)

\* The frames with usable audio for a stream among those received after its
\* start and before `stop`, in their order.
Covers(chunks, id, rate, start, stop) ==
  /\ chunks \in Seq(Nat)
  /\ \A i, j \in DOMAIN chunks : i < j => chunks[i] < chunks[j]
  /\ ToSet(chunks) = {n \in start + 1..stop - 1 : UsableAudio([id |-> id, rate |-> rate], n)}

\* What a stream has buffered so far; its earlier texts are from before its start.
StreamOK(id, stream) ==
  stream # NoStream =>
    /\ DOMAIN stream = {"rate", "start", "pcm"} /\ stream.start \in 1..listenNext - 1
    /\ Covers(stream.pcm, id, stream.rate, stream.start, listenNext)
    /\ \A t \in Streamed : t.id = id => t.stop < stream.start

TextOK(t) ==
  /\ t.start \in Nat /\ t.stop \in Nat /\ t.start < t.stop /\ t.stop < listenNext
  /\ Covers(t.chunks, t.id, t.rate, t.start, t.stop)

WholeUpload(f, samples) ==
  \E n \in AudioBytes(f) : n - 2 * f.channels * samples \in 0..2 * f.channels - 1
UploadOK(t) == t.upload \in 1..listenNext - 1 /\ WholeUpload(listenFrames[t.upload], t.samples)

\* The texts of one stream were said one after the other.
TextsApart ==
  \A t, u \in Streamed : t.id = u.id => t = u \/ t.stop < u.start \/ u.stop < t.start

ListenInv ==
  /\ listenFrames \in Seq(ListenFrames)
  /\ listenNext \in 1..Len(listenFrames) + 1
  /\ missed \subseteq 1..listenNext - 1
  /\ DOMAIN streams = ListenIds
  /\ \A id \in ListenIds : StreamOK(id, streams[id])
  /\ \A t \in Streamed : TextOK(t)
  /\ \A t \in transcripts \ Streamed : UploadOK(t)
  /\ TextsApart

\* The frames received so far, and which of them were discarded, stay.
ListenPastKept ==
  /\ listenNext \in Nat /\ listenNext' \in Nat /\ listenNext <= listenNext'
  /\ \A n \in 1..listenNext - 1 :
       listenFrames'[n] = listenFrames[n] /\ (n \in missed' <=> n \in missed)

LEMMA UsableSame ==
  ASSUME ListenPastKept, NEW t, NEW n \in 1..listenNext - 1
  PROVE  UsableAudio(t, n)' <=> UsableAudio(t, n)
BY DEF ListenPastKept, UsableAudio, MonoSamples

LEMMA CoversSame ==
  ASSUME ListenPastKept, NEW chunks, NEW id, NEW rate, NEW start \in Nat, NEW stop \in Nat,
         stop <= listenNext, Covers(chunks, id, rate, start, stop)
  PROVE  Covers(chunks, id, rate, start, stop)'
<1>1. \A n \in start + 1..stop - 1 : n \in 1..listenNext - 1
  BY DEF ListenPastKept
<1>2. \A n \in start + 1..stop - 1 :
        UsableAudio([id |-> id, rate |-> rate], n)' <=> UsableAudio([id |-> id, rate |-> rate], n)
  BY <1>1, UsableSame
<1> QED
  BY <1>2 DEF Covers

LEMMA TextStays ==
  ASSUME ListenPastKept, NEW t, TextOK(t)
  PROVE  TextOK(t)'
<1>1. Covers(t.chunks, t.id, t.rate, t.start, t.stop)'
  BY CoversSame DEF TextOK, ListenPastKept
<1> QED
  BY <1>1 DEF TextOK, ListenPastKept

LEMMA UploadStays ==
  ASSUME ListenPastKept, NEW t, UploadOK(t)
  PROVE  UploadOK(t)'
BY DEF UploadOK, ListenPastKept, WholeUpload, AudioBytes

\* A stream over the next frame.
LEMMA CoversNext ==
  ASSUME ListenPastKept, NEW M, M = listenNext, NEW N, N = listenNext', N = M + 1,
         NEW chunks, NEW id, NEW rate, NEW start \in 1..listenNext - 1,
         Covers(chunks, id, rate, start, listenNext),
         NEW u, u = [id |-> id, rate |-> rate]
  PROVE  /\ ~UsableAudio(u, M)' => Covers(chunks, id, rate, start, N)'
         /\ UsableAudio(u, M)' => Covers(Append(chunks, M), id, rate, start, N)'
<1>1. M \in Nat
  BY DEF ListenPastKept
<1>2. \A n \in start + 1..M - 1 : UsableAudio(u, n)' <=> UsableAudio(u, n)
  BY <1>1, UsableSame
<1>3. /\ chunks \in Seq(Nat) /\ \A i, j \in DOMAIN chunks : i < j => chunks[i] < chunks[j]
      /\ ToSet(chunks) = {n \in start + 1..M - 1 : UsableAudio(u, n)}
  BY <1>1 DEF Covers
<1>4. ToSet(chunks) = {n \in start + 1..M - 1 : UsableAudio(u, n)'}
  BY <1>2, <1>3
<1>5. start + 1..N - 1 = (start + 1..M - 1) \cup {M}
  BY <1>1
<1>6. CASE ~UsableAudio(u, M)'
  <2>1. ToSet(chunks) = {n \in start + 1..N - 1 : UsableAudio(u, n)'}
    BY <1>4, <1>5, <1>6
  <2>2. ToSet(chunks) = {n \in start + 1..N - 1 :
                            UsableAudio([id |-> id, rate |-> rate], n)'}
    BY <1>1, <2>1
  <2>3. Covers(chunks, id, rate, start, N)'
    BY <1>3, <2>2 DEF Covers
  <2> QED
    BY <1>1, <1>6, <2>3
<1>7. CASE UsableAudio(u, M)'
  <2>1. ToSet(chunks) \cup {M} = {n \in start + 1..N - 1 : UsableAudio(u, n)'}
    BY <1>4, <1>5, <1>7
  <2>2. PICK more : more = Append(chunks, M)
    OBVIOUS
  <2>3. /\ more \in Seq(Nat) /\ DOMAIN more = DOMAIN chunks \cup {Len(chunks) + 1}
        /\ more[Len(chunks) + 1] = M /\ \A i \in DOMAIN chunks : more[i] = chunks[i]
        /\ DOMAIN chunks = 1..Len(chunks) /\ Len(chunks) \in Nat
    BY <1>1, <1>3, <2>2
  <2>4. ToSet(more) = ToSet(chunks) \cup {M}
    BY <2>3 DEF ToSet
  <2>5. \A i \in DOMAIN chunks : chunks[i] < M
    <3>1. \A i \in DOMAIN chunks : chunks[i] \in ToSet(chunks)
      BY DEF ToSet
    <3> QED
      BY <1>1, <1>3, <3>1
  <2>6. \A i, j \in DOMAIN more : i < j => more[i] < more[j]
    BY <1>3, <2>3, <2>5
  <2>7. ToSet(more) = {n \in start + 1..N - 1 :
                          UsableAudio([id |-> id, rate |-> rate], n)'}
    BY <1>1, <2>1, <2>4
  <2>8. Covers(more, id, rate, start, N)'
    BY <2>3, <2>6, <2>7 DEF Covers
  <2> QED
    BY <1>1, <1>7, <2>2, <2>8
<1> QED
  BY <1>1, <1>6, <1>7

\* The plugin takes the next frame.
TakesFrame ==
  /\ listenNext <= Len(listenFrames) /\ listenNext' = listenNext + 1
  /\ listenFrames' = listenFrames /\ missed' \in {missed, missed \cup {listenNext}}

LEMMA FrameTaken ==
  ASSUME ListenInv, TakesFrame
  PROVE  /\ ListenPastKept
         /\ listenFrames' \in Seq(ListenFrames) /\ listenNext' \in 1..Len(listenFrames') + 1
         /\ missed' \subseteq 1..listenNext' - 1
         /\ listenNext \in 1..Len(listenFrames) /\ listenNext \in 1..listenNext' - 1
         /\ listenFrames[listenNext] \in ListenFrames
         /\ \A t \in Streamed : TextOK(t)'
         /\ \A t \in transcripts \ Streamed : UploadOK(t)'
<1>1. Len(listenFrames) \in Nat /\ listenNext \in 1..Len(listenFrames)
  BY DEF ListenInv, TakesFrame
<1>2. ListenPastKept
  BY <1>1 DEF ListenInv, TakesFrame, ListenPastKept
<1>3. /\ \A t \in Streamed : TextOK(t)'
      /\ \A t \in transcripts \ Streamed : UploadOK(t)'
  BY <1>2, TextStays, UploadStays DEF ListenInv
<1>4. listenFrames' \in Seq(ListenFrames) /\ listenNext' \in 1..Len(listenFrames') + 1
  BY <1>1 DEF ListenInv, TakesFrame
<1>5. missed' \subseteq 1..listenNext' - 1
  BY <1>1 DEF ListenInv, TakesFrame
<1>6. listenFrames[listenNext] \in ListenFrames /\ listenNext \in 1..listenNext' - 1
  BY <1>1 DEF ListenInv, TakesFrame
<1> QED
  BY <1>1, <1>2, <1>3, <1>4, <1>5, <1>6

\* A stream that the frame is not for.
LEMMA StreamOver ==
  ASSUME ListenInv, TakesFrame, NEW M, M = listenNext, NEW id, NEW s, StreamOK(id, s),
         \A t \in Streamed' : t.id = id => t \in Streamed,
         s # NoStream => ~UsableAudio([id |-> id, rate |-> s.rate], M)'
  PROVE  StreamOK(id, s)'
<1> SUFFICES ASSUME s # NoStream PROVE StreamOK(id, s)'
  BY DEF StreamOK
<1> DEFINE u == [id |-> id, rate |-> s.rate]
<1>1. PICK N : N = listenNext'
  OBVIOUS
<1>2. /\ s.start \in 1..listenNext - 1 /\ Covers(s.pcm, id, s.rate, s.start, listenNext)
      /\ DOMAIN s = {"rate", "start", "pcm"}
      /\ \A t \in Streamed : t.id = id => t.stop < s.start
  BY DEF StreamOK
<1>3. ListenPastKept /\ N = M + 1
  BY <1>1, FrameTaken DEF TakesFrame
<1>4. Covers(s.pcm, id, s.rate, s.start, N)'
  BY <1>1, <1>2, <1>3, CoversNext
<1>5. s.start \in 1..N - 1
  BY <1>2, <1>3 DEF ListenPastKept
<1> QED
  BY <1>1, <1>2, <1>4, <1>5 DEF StreamOK

\* Frames that no stream has use for.
LEMMA UselessFrame ==
  ASSUME TakesFrame, NEW M, M = listenNext, NEW u, NEW f, f = listenFrames[M],
         \/ f.kind # "chunk" \/ f.id # u.id \/ ~Usable(f, u.rate) \/ ~(MonoSamples(f) > 0)
         \/ M \in missed'
  PROVE  ~UsableAudio(u, M)'
BY DEF TakesFrame, UsableAudio, Usable, MonoSamples

LEMMA UsefulFrame ==
  ASSUME TakesFrame, NEW M, M = listenNext, NEW u, NEW f, f = listenFrames[M],
         f.kind = "chunk", f.id = u.id, Usable(f, u.rate), MonoSamples(f) > 0, M \notin missed'
  PROVE  UsableAudio(u, M)'
BY DEF TakesFrame, UsableAudio, Usable, MonoSamples

LEMMA ModelsListen ==
  ASSUME ListenInv, ListenModels \/ ListenMisses
  PROVE  ListenInv'
<1>1. TakesFrame /\ transcripts' = transcripts /\ streams' = streams
  BY DEF ListenModels, ListenMisses, TakesFrame, Receives
<1>2. PICK M : M = listenNext
  OBVIOUS
<1>3. listenFrames[M].kind # "chunk" \/ M \in missed'
  BY <1>2 DEF ListenModels, ListenMisses, Receives
<1>4. \A id \in ListenIds : StreamOK(id, streams[id])'
  <2> TAKE id \in ListenIds
  <2>1. PICK s : s = streams[id]
    OBVIOUS
  <2>2. ~UsableAudio([id |-> id, rate |-> s.rate], M)'
    BY <1>1, <1>2, <1>3, UselessFrame
  <2>3. StreamOK(id, s)'
    BY <1>1, <1>2, <2>1, <2>2, StreamOver DEF ListenInv, Streamed
  <2> QED
    BY <1>1, <2>1, <2>3
<1>5. Streamed' = Streamed
  BY <1>1 DEF Streamed
<1> QED
  BY <1>1, <1>4, <1>5, FrameTaken DEF ListenInv, TextsApart

LEMMA PushListen ==
  ASSUME ListenInv, ListenPush
  PROVE  ListenInv'
<1>1. TakesFrame /\ transcripts' = transcripts /\ missed' = missed
  BY DEF ListenPush, TakesFrame, Receives
<1>2. PICK M : M = listenNext
  OBVIOUS
<1>3. PICK f : f = listenFrames[M]
  OBVIOUS
<1>4. f = Frame /\ f.kind = "chunk" /\ M \notin missed'
  BY <1>1, <1>2, <1>3 DEF ListenPush, Receives, Frame, ListenInv
<1>5. Streamed' = Streamed
  BY <1>1 DEF Streamed
<1>6. \A id \in ListenIds : StreamOK(id, streams[id])'
  <2> TAKE id \in ListenIds
  <2>1. PICK s : s = streams[id]
    OBVIOUS
  <2>2. StreamOK(id, s)
    BY <2>1 DEF ListenInv
  <2>3. CASE s # NoStream /\ f.id = id /\ Usable(f, s.rate) /\ MonoSamples(f) > 0
    <3>1. PICK t : t = [s EXCEPT !.pcm = Append(@, M)]
      OBVIOUS
    <3>2. streams'[id] = t
      BY <1>2, <1>4, <2>1, <2>3, <3>1 DEF ListenPush, Buffered, Active, ListenInv
    <3>3. /\ s.start \in 1..listenNext - 1 /\ Covers(s.pcm, id, s.rate, s.start, listenNext)
          /\ DOMAIN s = {"rate", "start", "pcm"}
          /\ \A v \in Streamed : v.id = id => v.stop < s.start
      BY <2>2, <2>3 DEF StreamOK
    <3>4. /\ DOMAIN t = {"rate", "start", "pcm"} /\ t.start = s.start /\ t.rate = s.rate
          /\ t.pcm = Append(s.pcm, M)
      BY <3>1, <3>3
    <3>5. PICK u : u = [id |-> id, rate |-> s.rate]
      OBVIOUS
    <3>6. UsableAudio(u, M)'
      BY <1>1, <1>2, <1>3, <1>4, <2>3, <3>5, UsefulFrame
    <3>7. PICK N : N = listenNext'
      OBVIOUS
    <3>8. ListenPastKept /\ N = M + 1
      BY <1>1, <1>2, <3>7, FrameTaken DEF TakesFrame
    <3>9. Covers(t.pcm, id, t.rate, t.start, N)'
      BY <1>2, <3>3, <3>4, <3>5, <3>6, <3>7, <3>8, CoversNext
    <3>10. t.start \in 1..N - 1
      BY <1>2, <3>3, <3>4, <3>8 DEF ListenPastKept
    <3>11. StreamOK(id, t)'
      BY <1>5, <3>3, <3>4, <3>7, <3>9, <3>10 DEF StreamOK
    <3> QED
      BY <3>2, <3>11
  <2>4. CASE ~(s # NoStream /\ f.id = id /\ Usable(f, s.rate) /\ MonoSamples(f) > 0)
    <3>1. streams'[id] = s
      BY <1>4, <2>1, <2>4 DEF ListenPush, Buffered, Active, ListenInv
    <3>2. s # NoStream => ~UsableAudio([id |-> id, rate |-> s.rate], M)'
      BY <1>1, <1>2, <1>3, <2>4, UselessFrame
    <3>3. StreamOK(id, s)'
      BY <1>1, <1>2, <1>5, <2>2, <3>2, StreamOver
    <3> QED
      BY <3>1, <3>3
  <2> QED
    BY <2>3, <2>4
<1>7. DOMAIN streams' = ListenIds
  BY DEF ListenInv, ListenPush
<1> QED
  BY <1>1, <1>5, <1>6, <1>7, FrameTaken DEF ListenInv, TextsApart

LEMMA StartListen ==
  ASSUME ListenInv, ListenStart
  PROVE  ListenInv'
<1>1. TakesFrame /\ transcripts' = transcripts
  BY DEF ListenStart, TakesFrame, Receives
<1>2. PICK M : M = listenNext
  OBVIOUS
<1>3. PICK f : f = listenFrames[M]
  OBVIOUS
<1>4. f = Frame /\ f.kind = "start" /\ f.id \in ListenIds
  BY <1>1, <1>2, <1>3, FrameTaken DEF ListenStart, Receives, Frame, ListenIds
<1>5. Streamed' = Streamed
  BY <1>1 DEF Streamed
<1>6. \A u : ~UsableAudio(u, M)'
  BY <1>1, <1>2, <1>3, <1>4, UselessFrame
<1>7. PICK old : old = streams
  OBVIOUS
<1>8. \A id \in ListenIds : StreamOK(id, old[id])'
  BY <1>1, <1>2, <1>5, <1>6, <1>7, StreamOver DEF ListenInv
<1>9. PICK s : s = [rate |-> f.rate, start |-> M, pcm |-> <<>>]
  OBVIOUS
<1>10. StreamOK(f.id, s)'
  <2>1. PICK N : N = listenNext'
    OBVIOUS
  <2>2. N = M + 1 /\ M \in Nat /\ M \in 1..N - 1
    BY <1>1, <1>2, <2>1, FrameTaken DEF TakesFrame, ListenPastKept
  <2>3. \A t \in Streamed : t.stop < M
    BY <1>2 DEF ListenInv, TextOK
  <2>4. M + 1..N - 1 = {}
    BY <2>2
  <2>5. Covers(<<>>, f.id, s.rate, M, N)'
    BY <2>4 DEF Covers, ToSet
  <2> QED
    BY <1>5, <1>9, <2>1, <2>2, <2>3, <2>5 DEF StreamOK
<1>11. \A id \in ListenIds : StreamOK(id, streams[id])'
  <2> TAKE id \in ListenIds
  <2>1. PICK new : new = streams'[id]
    OBVIOUS
  <2>2. new = old[id] \/ (id = f.id /\ new = s)
    BY <1>2, <1>4, <1>7, <1>9, <2>1 DEF ListenStart, ListenInv
  <2>3. StreamOK(id, new)'
    BY <1>10, <1>8, <2>2
  <2> QED
    BY <2>1, <2>3
<1>12. DOMAIN streams' = ListenIds
  BY DEF ListenInv, ListenStart
<1> QED
  BY <1>1, <1>5, <1>11, <1>12, FrameTaken DEF ListenInv, TextsApart

\* A text is published for the stream that is taken.
LEMMA StopListen ==
  ASSUME ListenInv, ListenStop
  PROVE  ListenInv'
<1>1. TakesFrame
  BY DEF ListenStop, TakesFrame, Receives
<1>2. PICK M : M = listenNext
  OBVIOUS
<1>3. PICK f : f = listenFrames[M]
  OBVIOUS
<1>4. f = Frame /\ f.kind = "stop"
  BY <1>1, <1>2, <1>3, FrameTaken DEF ListenStop, Receives, Frame
<1>5. \A u : ~UsableAudio(u, M)'
  BY <1>1, <1>2, <1>3, <1>4, UselessFrame
<1>6. PICK old : old = streams
  OBVIOUS
<1>7. PICK text : text = [id |-> f.id, rate |-> old[f.id].rate, start |-> old[f.id].start,
                          stop |-> M, chunks |-> old[f.id].pcm]
  OBVIOUS
<1>8. \/ transcripts' = transcripts
      \/ Active(f.id) /\ transcripts' = transcripts \cup {text}
  BY <1>2, <1>4, <1>6, <1>7 DEF ListenStop
<1>9. /\ DOMAIN streams' = ListenIds
      /\ \A id \in ListenIds : streams'[id] = old[id] \/ streams'[id] = NoStream
      /\ f.id \in ListenIds => streams'[f.id] = NoStream
  BY <1>4, <1>6 DEF ListenStop, Taken, ListenInv
<1>10. /\ text.id = f.id /\ text.rate = old[f.id].rate /\ text.start = old[f.id].start
       /\ text.stop = M /\ text.chunks = old[f.id].pcm
       /\ "stop" \in DOMAIN text
  BY <1>7
<1>11. Streamed' \subseteq Streamed \cup {text}
  BY <1>8 DEF Streamed
<1>12. \A id \in ListenIds : StreamOK(id, streams[id])'
  <2> TAKE id \in ListenIds
  <2>1. PICK new : new = streams'[id]
    OBVIOUS
  <2>2. CASE new = NoStream
    BY <2>1, <2>2 DEF StreamOK
  <2>3. CASE new # NoStream
    <3>1. new = old[id] /\ id # f.id
      BY <1>9, <2>1, <2>3
    <3>2. \A t \in Streamed' : t.id = id => t \in Streamed
      BY <1>10, <1>11, <3>1
    <3>3. StreamOK(id, new)
      BY <1>6, <3>1 DEF ListenInv
    <3>4. StreamOK(id, new)'
      BY <1>1, <1>2, <1>5, <3>2, <3>3, StreamOver
    <3> QED
      BY <2>1, <3>4
  <2> QED
    BY <2>2, <2>3
<1>13. Active(f.id) => TextOK(text)' /\ \A t \in Streamed : t.id = f.id => t.stop < text.start
  <2> SUFFICES ASSUME Active(f.id)
               PROVE  TextOK(text)' /\ \A t \in Streamed : t.id = f.id => t.stop < text.start
    OBVIOUS
  <2>1. PICK s : s = old[f.id]
    OBVIOUS
  <2>2. s # NoStream /\ StreamOK(f.id, s)
    BY <1>6, <2>1 DEF Active, ListenInv
  <2>3. /\ s.start \in 1..listenNext - 1
        /\ Covers(s.pcm, f.id, s.rate, s.start, listenNext)
        /\ \A t \in Streamed : t.id = f.id => t.stop < s.start
    BY <2>2 DEF StreamOK
  <2>4. ListenPastKept /\ listenNext \in Nat /\ listenNext' = listenNext + 1
    BY <1>1, FrameTaken DEF ListenPastKept, TakesFrame
  <2>5. Covers(s.pcm, f.id, s.rate, s.start, M)'
    BY <1>2, <2>3, <2>4, CoversSame
  <2>6. TextOK(text)'
    BY <1>2, <1>10, <2>1, <2>3, <2>4, <2>5 DEF TextOK
  <2> QED
    BY <1>10, <2>1, <2>3, <2>6
<1>14. \A t \in Streamed' : t \in Streamed \/ (t = text /\ Active(f.id))
  BY <1>8 DEF Streamed
<1>15. \A t \in Streamed : TextOK(t)'
  BY <1>1, <1>13, <1>14, FrameTaken
<1>16. \A t \in Streamed' : TextOK(t)'
  BY <1>13, <1>14, <1>15
<1>17. \A t \in (transcripts \ Streamed)' : UploadOK(t)'
  <2>1. (transcripts \ Streamed)' \subseteq transcripts \ Streamed
    BY <1>8, <1>10 DEF Streamed
  <2> QED
    BY <1>1, <2>1, FrameTaken
<1>18. TextsApart'
  BY <1>10, <1>13, <1>14 DEF TextsApart, ListenInv
<1> QED
  BY <1>1, <1>9, <1>12, <1>16, <1>17, <1>18, FrameTaken DEF ListenInv

\* The mono samples of a piece of audio leave less than one group of channels.
LEMMA GroupsAreWhole ==
  ASSUME NEW a, a.bytes \in Nat, a.bytes % 2 = 0, a.channels \in Nat, a.channels > 0
  PROVE  a.bytes - 2 * a.channels * MonoSamples(a) \in 0..2 * a.channels - 1
<1>1. PICK n \in Nat : n = a.bytes
  OBVIOUS
<1>2. PICK c \in Nat : c = a.channels
  OBVIOUS
<1>3. PICK h \in Int : h = n \div 2
  BY <1>1
<1>4. h \in Nat /\ n = 2 * h
  BY <1>1, <1>3
<1>5. c > 0
  BY <1>2
<1>6. CASE c <= 1
  <2>1. c = 1 /\ MonoSamples(a) = h
    BY <1>1, <1>2, <1>3, <1>5, <1>6 DEF MonoSamples
  <2> QED
    BY <1>1, <1>2, <1>4, <2>1
<1>7. CASE ~(c <= 1)
  <2>1. PICK q \in Int : q = h \div c
    BY <1>4, <1>5
  <2>2. MonoSamples(a) = q
    BY <1>1, <1>2, <1>3, <1>7, <2>1 DEF MonoSamples
  <2>3. c * q <= h /\ h < c * q + c
    BY <1>4, <1>5, <2>1
  <2>4. PICK p \in Int : p = c * q
    OBVIOUS
  <2>5. 2 * c * q = 2 * p
    BY <2>4
  <2>6. n - 2 * p \in 0..2 * c - 1
    BY <1>4, <2>3, <2>4
  <2> QED
    BY <1>1, <1>2, <2>2, <2>5, <2>6
<1> QED
  BY <1>6, <1>7

LEMMA DecodedIsWhole ==
  ASSUME NEW f \in ListenFrames, f.kind = "transcribe", f.format \in {"wav", "pcm"},
         DecodedSamples(f) # NoAudio
  PROVE  WholeUpload(f, MonoSamples(DecodedSamples(f)))
<1>1. PICK a : a = DecodedSamples(f)
  OBVIOUS
<1>2. /\ a.bytes \in AudioBytes(f) /\ a.bytes \in Nat /\ a.bytes % 2 = 0
      /\ a.channels = f.channels /\ a.channels \in Nat /\ a.channels > 0
  <2>1. CASE f.format = "wav"
    <3>1. /\ f.channels > 0 /\ \E i \in DOMAIN f.chunks : f.chunks[i].data
          /\ f.chunks[FirstData(f)].bytes % 2 = 0
          /\ a = [bytes |-> f.chunks[FirstData(f)].bytes, channels |-> f.channels,
                  rate |-> f.rate]
      BY <1>1, <2>1 DEF DecodedSamples, ParsedWav
    <3>2. PICK S : S = {i \in DOMAIN f.chunks : f.chunks[i].data}
      OBVIOUS
    <3>3. /\ DOMAIN f.chunks = 1..Len(f.chunks) /\ Len(f.chunks) \in Nat
          /\ \A i \in DOMAIN f.chunks : f.chunks[i].bytes \in Nat
          /\ f.channels \in Nat
      BY <2>1, ListenAssumption
    <3>4. S \subseteq Nat /\ S # {}
      BY <3>1, <3>2, <3>3
    <3>5. PICK k \in S : \A y \in S : k <= y
      BY <3>4, LeastElement
    <3>6. k \in DOMAIN f.chunks /\ f.chunks[k].data /\ \A j \in 1..k-1 : ~f.chunks[j].data
      <4> SUFFICES ASSUME NEW j \in 1..k-1, f.chunks[j].data PROVE FALSE
        BY <3>2
      <4>1. j \in DOMAIN f.chunks /\ j < k
        BY <3>2, <3>3, <3>4
      <4> QED
        BY <3>2, <3>4, <3>5, <4>1
    <3>7. /\ FirstData(f) \in DOMAIN f.chunks /\ f.chunks[FirstData(f)].data
          /\ \A j \in 1..FirstData(f)-1 : ~f.chunks[j].data
      BY <3>6 DEF FirstData
    <3>8. f.chunks[FirstData(f)].bytes \in AudioBytes(f)
      BY <2>1, <3>7 DEF AudioBytes
    <3> QED
      BY <3>1, <3>3, <3>7, <3>8
  <2>2. CASE f.format = "pcm"
    <3>1. /\ f.channels > 0 /\ f.bytes % 2 = 0
          /\ a = [bytes |-> f.bytes, channels |-> f.channels, rate |-> f.rate]
      BY <1>1, <2>2 DEF DecodedSamples, ValidListenStart
    <3>2. f.bytes \in Nat /\ f.channels \in Nat
      BY <2>2, ListenAssumption
    <3> QED
      BY <2>2, <3>1, <3>2 DEF AudioBytes
  <2> QED
    BY <2>1, <2>2
<1>3. a.bytes - 2 * a.channels * MonoSamples(a) \in 0..2 * a.channels - 1
  BY <1>2, GroupsAreWhole
<1> QED
  BY <1>1, <1>2, <1>3 DEF WholeUpload

LEMMA TranscribeListen ==
  ASSUME ListenInv, ListenTranscribe
  PROVE  ListenInv'
<1>1. TakesFrame /\ streams' = streams
  BY DEF ListenTranscribe, TakesFrame, Receives
<1>2. PICK M : M = listenNext
  OBVIOUS
<1>3. PICK f : f = listenFrames[M]
  OBVIOUS
<1>4. f = Frame /\ f.kind = "transcribe" /\ f \in ListenFrames /\ f = listenFrames'[M]
  BY <1>1, <1>2, <1>3, FrameTaken DEF ListenTranscribe, Receives, Frame, TakesFrame
<1>5. \A u : ~UsableAudio(u, M)'
  BY <1>1, <1>2, <1>3, <1>4, UselessFrame
<1>6. PICK text : text = [upload |-> M, samples |-> MonoSamples(DecodedSamples(f))]
  OBVIOUS
<1>7. text.upload = M /\ text.samples = MonoSamples(DecodedSamples(f)) /\ "stop" \notin DOMAIN text
  BY <1>6
<1>8. \/ transcripts' = transcripts
      \/ transcripts' = transcripts \cup {text} /\ WholeUpload(f, text.samples)
  <2>1. transcripts' # transcripts =>
          /\ transcripts' = transcripts \cup {text} /\ ValidTranscribe(f)
          /\ f.provider # "openai" /\ DecodedSamples(f) # NoAudio
    BY <1>2, <1>4, <1>6 DEF ListenTranscribe
  <2>2. ValidTranscribe(f) /\ f.provider # "openai" => f.format \in {"wav", "pcm"}
    BY DEF ValidTranscribe
  <2> QED
    BY <1>4, <1>7, <2>1, <2>2, DecodedIsWhole
<1>9. Streamed' = Streamed
  BY <1>7, <1>8 DEF Streamed
<1>10. \A t \in (transcripts \ Streamed)' : UploadOK(t)'
  <2>1. \A t \in (transcripts \ Streamed)' : t \in transcripts \ Streamed
                                          \/ (t = text /\ WholeUpload(f, text.samples))
    BY <1>8, <1>9
  <2>2. ASSUME WholeUpload(f, text.samples) PROVE UploadOK(text)'
    <3>1. WholeUpload(f, text.samples)'
      BY <2>2 DEF WholeUpload, AudioBytes
    <3>2. M \in 1..listenNext' - 1
      BY <1>1, <1>2, FrameTaken
    <3> QED
      BY <1>4, <1>7, <3>1, <3>2 DEF UploadOK
  <2> QED
    BY <1>1, <2>1, <2>2, FrameTaken
<1>11. \A id \in ListenIds : StreamOK(id, streams[id])'
  <2> TAKE id \in ListenIds
  <2>1. PICK s : s = streams[id]
    OBVIOUS
  <2>2. StreamOK(id, s)'
    BY <1>1, <1>2, <1>5, <1>9, <2>1, StreamOver DEF ListenInv
  <2> QED
    BY <1>1, <2>1, <2>2
<1> QED
  BY <1>1, <1>9, <1>10, <1>11, FrameTaken DEF ListenInv, TextsApart

\* Steps in which the plugin receives nothing.
LEMMA NothingReceived ==
  ASSUME ListenInv, UNCHANGED <<listenNext, streams, transcripts, missed>>,
         listenFrames' \in Seq(ListenFrames), Len(listenFrames) <= Len(listenFrames'),
         \A n \in 1..Len(listenFrames) : listenFrames'[n] = listenFrames[n]
  PROVE  ListenInv'
<1>1. Len(listenFrames) \in Nat /\ Len(listenFrames') \in Nat /\ listenNext \in 1..Len(listenFrames) + 1
  BY DEF ListenInv
<1>2. ListenPastKept
  BY <1>1 DEF ListenPastKept
<1>3. Streamed' = Streamed
  BY DEF Streamed
<1>4. \A id \in ListenIds : StreamOK(id, streams[id])'
  <2> TAKE id \in ListenIds
  <2>1. PICK s : s = streams[id]
    OBVIOUS
  <2>2. PICK N \in Nat : N = listenNext
    BY <1>2 DEF ListenPastKept
  <2>3. StreamOK(id, s)
    BY <2>1 DEF ListenInv
  <2>4. CASE s # NoStream
    <3>1. /\ s.start \in 1..N - 1 /\ Covers(s.pcm, id, s.rate, s.start, N)
          /\ DOMAIN s = {"rate", "start", "pcm"}
          /\ \A t \in Streamed : t.id = id => t.stop < s.start
      BY <2>2, <2>3, <2>4 DEF StreamOK
    <3>2. Covers(s.pcm, id, s.rate, s.start, N)'
      BY <1>2, <2>2, <3>1, CoversSame
    <3>3. StreamOK(id, s)'
      BY <1>3, <2>2, <3>1, <3>2 DEF StreamOK
    <3> QED
      BY <2>1, <3>3
  <2>5. CASE s = NoStream
    BY <2>1, <2>5 DEF StreamOK
  <2> QED
    BY <2>4, <2>5
<1>5. /\ \A t \in Streamed : TextOK(t)'
      /\ \A t \in transcripts \ Streamed : UploadOK(t)'
  BY <1>2, TextStays, UploadStays DEF ListenInv
<1> QED
  BY <1>1, <1>3, <1>4, <1>5 DEF ListenInv, TextsApart

LEMMA CrashListen ==
  ASSUME ListenInv, ListenCrash
  PROVE  ListenInv'
<1>1. Len(listenFrames) \in Nat /\ listenNext \in 1..Len(listenFrames) + 1
  BY DEF ListenInv
<1>2. ListenPastKept
  BY <1>1 DEF ListenPastKept, ListenCrash
<1>3. Streamed' = Streamed
  BY DEF Streamed, ListenCrash
<1>4. /\ \A t \in Streamed : TextOK(t)'
      /\ \A t \in transcripts \ Streamed : UploadOK(t)'
  BY <1>2, TextStays, UploadStays DEF ListenInv
<1>5. \A id \in ListenIds : streams'[id] = NoStream
  BY DEF ListenCrash
<1>6. \A id \in ListenIds : StreamOK(id, streams[id])'
  <2> TAKE id \in ListenIds
  <2>1. PICK s : s = streams'[id]
    OBVIOUS
  <2>2. s = NoStream
    BY <1>5, <2>1
  <2>3. StreamOK(id, s)'
    BY <2>2 DEF StreamOK
  <2> QED
    BY <2>1, <2>3
<1>7. missed' \subseteq 1..listenNext' - 1 /\ listenNext' \in 1..Len(listenFrames') + 1
  <2>1. /\ listenNext' = Len(listenFrames) + 1 /\ listenFrames' = listenFrames
        /\ missed' = missed \cup listenNext..Len(listenFrames)
    BY DEF ListenCrash
  <2>2. missed \subseteq 1..listenNext - 1
    BY DEF ListenInv
  <2>3. missed' \subseteq 1..Len(listenFrames)
    <3> SUFFICES ASSUME NEW n \in missed' PROVE n \in 1..Len(listenFrames)
      OBVIOUS
    <3>1. n \in 1..listenNext - 1 \/ n \in listenNext..Len(listenFrames)
      BY <2>1, <2>2
    <3> QED
      BY <1>1, <3>1
  <2>4. listenNext' - 1 = Len(listenFrames)
    BY <1>1, <2>1
  <2>5. listenNext' \in 1..Len(listenFrames) + 1
    BY <1>1, <2>1
  <2> QED
    BY <2>1, <2>3, <2>4, <2>5
<1> QED
  BY <1>3, <1>4, <1>6, <1>7 DEF ListenInv, ListenCrash, TextsApart

LEMMA ListenStarts == ListenInit => ListenInv
<1> SUFFICES ASSUME ListenInit PROVE ListenInv
  OBVIOUS
<1>1. Streamed = {}
  BY DEF ListenInit, Streamed
<1>2. \A id \in ListenIds : streams[id] = NoStream
  BY DEF ListenInit
<1> QED
  BY <1>1, <1>2 DEF ListenInit, ListenInv, StreamOK, TextsApart

LEMMA ListenStep == ListenInv /\ [ListenNext]_listenVars => ListenInv'
<1> SUFFICES ASSUME ListenInv, [ListenNext]_listenVars PROVE ListenInv'
  OBVIOUS
<1>1. CASE \E f \in ListenFrames : FrameSent(f)
  <2>1. PICK f \in ListenFrames : FrameSent(f)
    BY <1>1
  <2>2. listenFrames' = Append(listenFrames, f) /\ listenFrames \in Seq(ListenFrames)
    BY <2>1 DEF FrameSent, ListenInv
  <2>3. /\ listenFrames' \in Seq(ListenFrames) /\ Len(listenFrames) <= Len(listenFrames')
        /\ \A n \in 1..Len(listenFrames) : listenFrames'[n] = listenFrames[n]
    BY <2>2
  <2> QED
    BY <2>1, <2>3, NothingReceived DEF FrameSent
<1>2. CASE WaitEnds \/ ModelChanges \/ UNCHANGED listenVars
  <2>1. UNCHANGED <<listenFrames, listenNext, streams, transcripts, missed>>
    BY <1>2 DEF WaitEnds, ModelChanges, listenVars
  <2>2. listenFrames \in Seq(ListenFrames)
    BY DEF ListenInv
  <2>3. listenFrames' \in Seq(ListenFrames) /\ Len(listenFrames) <= Len(listenFrames')
    BY <2>1, <2>2
  <2> QED
    BY <2>1, <2>3, NothingReceived
<1>3. CASE ListenStart
  BY <1>3, StartListen
<1>4. CASE ListenPush
  BY <1>4, PushListen
<1>5. CASE ListenStop
  BY <1>5, StopListen
<1>6. CASE ListenTranscribe
  BY <1>6, TranscribeListen
<1>7. CASE ListenModels \/ ListenMisses
  BY <1>7, ModelsListen
<1>8. CASE ListenCrash
  BY <1>8, CrashListen
<1> QED
  BY <1>1, <1>2, <1>3, <1>4, <1>5, <1>6, <1>7, <1>8 DEF ListenNext

LEMMA ListenInvComplete == ListenInv => TranscriptsAreComplete
<1> SUFFICES ASSUME ListenInv PROVE TranscriptsAreComplete
  OBVIOUS
<1>1. \A t \in transcripts \ Streamed : WholeUpload(listenFrames[t.upload], t.samples)
  BY DEF ListenInv, UploadOK
<1>2. \A t \in Streamed : Covers(t.chunks, t.id, t.rate, t.start, t.stop)
  BY DEF ListenInv, TextOK
<1>3. \A t, n : UsableAudio([id |-> t.id, rate |-> t.rate], n) <=> UsableAudio(t, n)
  BY DEF UsableAudio
<1>4. \A t \in Streamed :
        /\ \A i, j \in DOMAIN t.chunks : i < j => t.chunks[i] < t.chunks[j]
        /\ ToSet(t.chunks) = {n \in t.start + 1..t.stop - 1 : UsableAudio(t, n)}
  <2> TAKE t \in Streamed
  <2>1. /\ \A i, j \in DOMAIN t.chunks : i < j => t.chunks[i] < t.chunks[j]
        /\ ToSet(t.chunks) = {n \in t.start + 1..t.stop - 1 :
                                UsableAudio([id |-> t.id, rate |-> t.rate], n)}
    BY <1>2 DEF Covers
  <2> QED
    BY <1>3, <2>1
<1>5. \A t, u \in Streamed : t # u => ToSet(t.chunks) \cap ToSet(u.chunks) = {}
  <2> SUFFICES ASSUME NEW t \in Streamed, NEW u \in Streamed, t # u,
                      NEW n \in ToSet(t.chunks), n \in ToSet(u.chunks)
               PROVE  FALSE
    OBVIOUS
  <2>1. /\ n \in t.start + 1..t.stop - 1 /\ n \in u.start + 1..u.stop - 1
        /\ listenFrames[n].id = t.id /\ listenFrames[n].id = u.id
    BY <1>4 DEF UsableAudio
  <2>2. t.stop < u.start \/ u.stop < t.start
    BY <2>1 DEF ListenInv, TextsApart
  <2>3. t.start \in Nat /\ t.stop \in Nat /\ u.start \in Nat /\ u.stop \in Nat
    BY DEF ListenInv, TextOK
  <2> QED
    BY <2>1, <2>2, <2>3
<1> QED
  BY <1>1, <1>4, <1>5 DEF TranscriptsAreComplete, WholeUpload

\* A text holds the usable chunks of its stream between its start and its stop,
\* in order and no other but those that came while a handler waited; no chunk is
\* in two texts; and an upload's text leaves out no whole group of samples.
THEOREM TranscriptsHold == ListenSpec => []TranscriptsAreComplete
<1>1. ListenInit => ListenInv
  BY ListenStarts
<1>2. ListenInv /\ [ListenNext]_listenVars => ListenInv'
  BY ListenStep
<1>3. ListenInv => TranscriptsAreComplete
  BY ListenInvComplete
<1> QED
  BY <1>1, <1>2, <1>3, PTL DEF ListenSpec

-----------------------------------------------------------------------------
(* Speak: speech is whole                                                    *)

\* The packets of a synthesis hold all its samples, the last one at least one.
PacketsHold(packets, samples, rate) ==
  samples \in (packets - 1) * FrameSamples(rate) + 1..packets * FrameSamples(rate)

\* The chunks of an utterance that are on the wire, after the chunk `from`.
Sent(u, from, count, packets, rate) ==
  /\ from \in 0..Len(spokenWire) /\ count \in Nat
  /\ OnWire(u) = from + 1..from + count
  /\ \A k \in 1..count : spokenWire[from + k].nr = k /\ spokenWire[from + k].rate = rate
                         /\ spokenWire[from + k].end = (k = packets)

ReplyOK(u, reply) ==
  /\ "ok" \in DOMAIN reply
  /\ reply.ok /\ "packets" \in DOMAIN reply =>
       /\ reply.packets \in Nat
       /\ \E from \in 0..Len(spokenWire) : Sent(u, from, reply.packets, reply.packets, reply.rate)
       /\ reply.packets > 0 => PacketsHold(reply.packets, reply.samples, reply.rate)
  /\ ~(reply.ok /\ "packets" \in DOMAIN reply) => \A i \in OnWire(u) : ~spokenWire[i].end
  /\ reply.ok /\ "voices" \in DOMAIN reply => \A v \in reply.voices : ResolveSid(v) # NoSid

\* What is being said is the last on the wire.
SaidOK(said) ==
  /\ DOMAIN said = {"packets", "sent", "samples", "rate", "to", "stream"}
  /\ said.packets \in Nat /\ said.sent \in Nat /\ said.sent < said.packets
  /\ PacketsHold(said.packets, said.samples, said.rate)
  /\ \E from \in 0..Len(spokenWire) :
       /\ Sent(Len(speakReplies) + 1, from, said.sent, said.packets, said.rate)
       /\ from + said.sent = Len(spokenWire)

SpeakingOK ==
  /\ speaking = Silent => OnWire(Len(speakReplies) + 1) = {}
  /\ speaking # Silent => SaidOK(speaking)

InTurn ==
  \A i, j \in DOMAIN spokenWire : i < j => spokenWire[i].utterance <= spokenWire[j].utterance

SpeakInv ==
  /\ voiceModel \in VoiceModels
  /\ IsSequence(spokenWire) /\ IsSequence(speakReplies)
  /\ \A i \in DOMAIN spokenWire : spokenWire[i].utterance \in 1..Len(speakReplies) + 1
  /\ \A u \in DOMAIN speakReplies : ReplyOK(u, speakReplies[u])
  /\ SpeakingOK /\ InTurn

LEMMA FrameIsPositive ==
  ASSUME NEW rate \in OpusRates
  PROVE  FrameSamples(rate) \in Nat /\ FrameSamples(rate) > 0
BY DEF OpusRates, FrameSamples

LEMMA EncodedWhole ==
  ASSUME NEW rate \in OpusRates, NEW samples \in Nat
  PROVE  /\ PacketCount(samples, rate) \in Nat
         /\ PacketCount(samples, rate) # 0 => PacketsHold(PacketCount(samples, rate), samples, rate)
<1>1. PICK f \in Nat : f = FrameSamples(rate)
  BY FrameIsPositive
<1>2. f > 0
  BY <1>1, FrameIsPositive
<1>3. PICK q \in Int : q = samples \div f
  BY <1>2
<1>4. PICK m \in Int : m = samples % f
  BY <1>2
<1>5. q \in Nat /\ m \in 0..f - 1 /\ samples = f * q + m
  BY <1>2, <1>3, <1>4
<1>6. PICK p \in Nat : p = f * q
  BY <1>2, <1>5
<1>7. CASE m = 0
  <2>1. PacketCount(samples, rate) = q
    BY <1>1, <1>3, <1>4, <1>7 DEF PacketCount
  <2>2. (q - 1) * f = p - f /\ q * f = p /\ samples = p
    BY <1>5, <1>6, <1>7
  <2>3. samples \in p - f + 1..p
    BY <1>2, <2>2
  <2>4. PacketsHold(q, samples, rate)
    BY <1>1, <2>2, <2>3 DEF PacketsHold
  <2> QED
    BY <1>5, <2>1, <2>4
<1>8. CASE m # 0
  <2>1. PacketCount(samples, rate) = q + 1
    BY <1>1, <1>3, <1>4, <1>8 DEF PacketCount
  <2>2. (q + 1 - 1) * f = p /\ (q + 1) * f = p + f
    BY <1>5, <1>6
  <2>3. samples \in p + 1..p + f
    BY <1>2, <1>5, <1>6, <1>8
  <2>4. PacketsHold(q + 1, samples, rate)
    BY <1>1, <2>2, <2>3 DEF PacketsHold
  <2> QED
    BY <1>5, <2>1, <2>4
<1> QED
  BY <1>5, <1>7, <1>8

LEMMA ListedResolve ==
  ASSUME voiceModel \in VoiceModels, NEW v \in ListedVoices
  PROVE  ResolveSid(v) # NoSid
<1>1. voiceModel.speakers \in Nat
  BY SpeakAssumption
<1>2. CASE \E k \in 0..voiceModel.speakers - 1 : v = [sid |-> k]
  <2>1. PICK k \in 0..voiceModel.speakers - 1 : v = [sid |-> k]
    BY <1>2
  <2>2. "sid" \in DOMAIN v /\ v.sid = k
    BY <2>1
  <2>3. ResolveSid(v) = k
    BY <2>1, <2>2 DEF ResolveSid, AskedSid
  <2> QED
    BY <1>1, <2>1, <2>3 DEF NoSid
<1>3. CASE \E n \in DOMAIN KokoroVoices :
             /\ v = [name |-> n] /\ voiceModel.family = "kokoro"
             /\ KokoroVoices[n] < voiceModel.speakers
  <2>1. PICK n \in DOMAIN KokoroVoices :
          /\ v = [name |-> n] /\ voiceModel.family = "kokoro"
          /\ KokoroVoices[n] < voiceModel.speakers
    BY <1>3
  <2>2. "sid" \notin DOMAIN v /\ v.name = n
    BY <2>1
  <2>3. KokoroVoices[n] \in Nat
    BY DEF KokoroVoices
  <2>4. KokoroVoices[n] \in 0..voiceModel.speakers - 1
    BY <1>1, <2>1, <2>3
  <2>5. ResolveSid(v) = KokoroVoices[n]
    BY <2>1, <2>2, <2>4 DEF ResolveSid, AskedSid, NamedSid
  <2> QED
    BY <2>3, <2>5 DEF NoSid
<1> QED
  BY <1>2, <1>3 DEF ListedVoices

\* Replies and the wire as it was.
LEMMA ReplyStays ==
  ASSUME UNCHANGED <<spokenWire, voiceModel>>, NEW u, NEW reply, ReplyOK(u, reply)
  PROVE  ReplyOK(u, reply)'
<1>1. OnWire(u)' = OnWire(u)
  BY DEF OnWire
<1>2. \A from : Sent(u, from, reply.packets, reply.packets, reply.rate)' <=>
                Sent(u, from, reply.packets, reply.packets, reply.rate)
  BY <1>1 DEF Sent
<1>3. \A v : ResolveSid(v)' = ResolveSid(v)
  BY DEF ResolveSid, AskedSid, NamedSid
<1>4. PacketsHold(reply.packets, reply.samples, reply.rate)' <=>
        PacketsHold(reply.packets, reply.samples, reply.rate)
  BY DEF PacketsHold, FrameSamples
<1>5. (reply.ok /\ "voices" \in DOMAIN reply => \A v \in reply.voices : ResolveSid(v) # NoSid)'
  BY <1>3 DEF ReplyOK, NoSid
<1> QED
  BY <1>1, <1>2, <1>4, <1>5 DEF ReplyOK

\* A reply is added to the others, and nothing is said any more.
LEMMA AnsweredKeeps ==
  ASSUME SpeakInv, NEW reply, SpeakAnswered(reply), UNCHANGED <<spokenWire, voiceModel>>,
         speaking' = Silent, ReplyOK(Len(speakReplies) + 1, reply)
  PROVE  SpeakInv'
<1>1. PICK n \in Nat : n = Len(speakReplies)
  BY SequenceDomain DEF SpeakInv
<1>2. /\ IsSequence(speakReplies') /\ Len(speakReplies') = n + 1
      /\ \A u \in 1..n : speakReplies'[u] = speakReplies[u]
      /\ speakReplies'[n + 1] = reply
      /\ DOMAIN speakReplies' = 1..n + 1 /\ DOMAIN speakReplies = 1..n
  BY <1>1, SequenceAppend, SequenceDomain DEF SpeakInv, SpeakAnswered
<1>3. \A u \in 1..n : ReplyOK(u, speakReplies[u])
  BY <1>2 DEF SpeakInv
<1>4. PICK old : old = speakReplies
  OBVIOUS
<1>5. \A u \in 1..n : ReplyOK(u, old[u])'
  BY <1>3, <1>4, ReplyStays
<1>6. ReplyOK(n + 1, reply)'
  BY <1>1, ReplyStays
<1>7. \A u \in DOMAIN speakReplies' : ReplyOK(u, speakReplies[u])'
  <2> SUFFICES ASSUME NEW u \in 1..n + 1 PROVE ReplyOK(u, speakReplies[u])'
    BY <1>2
  <2>1. PICK r : r = speakReplies'[u]
    OBVIOUS
  <2>2. ReplyOK(u, r)'
    BY <1>1, <1>2, <1>4, <1>5, <1>6, <2>1
  <2> QED
    BY <2>1, <2>2
<1>8. \A i \in DOMAIN spokenWire : spokenWire[i].utterance \in 1..n + 1
  BY <1>1 DEF SpeakInv
<1>9. PICK u : u = n + 2
  OBVIOUS
<1>10. OnWire(u)' = {}
  BY <1>1, <1>8, <1>9 DEF OnWire
<1>11. SpeakingOK'
  BY <1>2, <1>9, <1>10 DEF SpeakingOK
<1>12. \A i \in DOMAIN spokenWire' : spokenWire'[i].utterance \in 1..Len(speakReplies') + 1
  BY <1>1, <1>2, <1>8
<1> QED
  BY <1>2, <1>7, <1>11, <1>12 DEF SpeakInv, InTurn

\* Replies to requests that say nothing.
LEMMA PlainReply ==
  ASSUME SpeakInv, speaking = Silent,
         NEW reply, "ok" \in DOMAIN reply,
         reply.ok /\ "packets" \in DOMAIN reply => reply.packets = 0,
         reply.ok /\ "voices" \in DOMAIN reply => reply.voices \subseteq ListedVoices
  PROVE  ReplyOK(Len(speakReplies) + 1, reply)
<1>1. PICK n \in Nat : n = Len(speakReplies)
  BY SequenceDomain DEF SpeakInv
<1>2. OnWire(n + 1) = {}
  BY <1>1 DEF SpeakInv, SpeakingOK
<1>3. reply.ok /\ "voices" \in DOMAIN reply => \A v \in reply.voices : ResolveSid(v) # NoSid
  BY ListedResolve DEF SpeakInv
<1>4. 0 \in 0..Len(spokenWire) /\ 0 + 1..0 + 0 = {}
  BY SequenceDomain DEF SpeakInv
<1>5. \A rate : Sent(n + 1, 0, 0, 0, rate)
  BY <1>2, <1>4 DEF Sent
<1> QED
  BY <1>1, <1>2, <1>3, <1>4, <1>5 DEF ReplyOK

LEMMA SpeakKeeps ==
  ASSUME SpeakInv, NEW r, NEW samples \in Nat, Speak(r, samples)
  PROVE  SpeakInv'
<1>1. speaking = Silent /\ UNCHANGED <<voiceModel, spokenWire>>
  BY DEF Speak, Requested
<1>2. PICK rate : rate = WireRate(r)
  OBVIOUS
<1>3. PICK count : count = PacketCount(samples, rate)
  OBVIOUS
<1>4. \/ SpeakAnswered(SpeakRefusal) /\ speaking' = Silent
      \/ /\ rate \in OpusRates /\ count = 0 /\ speaking' = Silent
         /\ SpeakAnswered([ok |-> TRUE, packets |-> 0, samples |-> samples, rate |-> rate])
      \/ /\ rate \in OpusRates /\ count # 0 /\ speakReplies' = speakReplies
         /\ speaking' = [packets |-> count, sent |-> 0, samples |-> samples, rate |-> rate,
                         to |-> r.target, stream |-> r.stream]
  BY <1>1, <1>2, <1>3 DEF Speak
<1>5. CASE SpeakAnswered(SpeakRefusal) /\ speaking' = Silent
  <2>1. PICK reply : reply = SpeakRefusal
    OBVIOUS
  <2>2. "ok" \in DOMAIN reply /\ ~reply.ok
    BY <2>1 DEF SpeakRefusal
  <2>3. ReplyOK(Len(speakReplies) + 1, reply)
    BY <1>1, <2>2, PlainReply
  <2> QED
    BY <1>1, <1>5, <2>1, <2>3, AnsweredKeeps
<1>6. CASE /\ speaking' = Silent
           /\ SpeakAnswered([ok |-> TRUE, packets |-> 0, samples |-> samples, rate |-> rate])
  <2>1. PICK reply : reply = [ok |-> TRUE, packets |-> 0, samples |-> samples, rate |-> rate]
    OBVIOUS
  <2>2. "ok" \in DOMAIN reply /\ reply.packets = 0 /\ "voices" \notin DOMAIN reply
    BY <2>1
  <2>3. ReplyOK(Len(speakReplies) + 1, reply)
    BY <1>1, <2>2, PlainReply
  <2> QED
    BY <1>1, <1>6, <2>1, <2>3, AnsweredKeeps
<1>7. CASE /\ rate \in OpusRates /\ count # 0 /\ speakReplies' = speakReplies
           /\ speaking' = [packets |-> count, sent |-> 0, samples |-> samples, rate |-> rate,
                           to |-> r.target, stream |-> r.stream]
  <2>1. count \in Nat /\ PacketsHold(count, samples, rate)
    BY <1>3, <1>7, EncodedWhole
  <2>2. PICK said : said = speaking'
    OBVIOUS
  <2>3. /\ DOMAIN said = {"packets", "sent", "samples", "rate", "to", "stream"}
        /\ said.packets = count /\ said.sent = 0 /\ said.samples = samples /\ said.rate = rate
    BY <1>7, <2>2
  <2>4. said # Silent
    BY <2>3 DEF Silent
  <2>5. PICK n \in Nat : n = Len(speakReplies)
    BY SequenceDomain DEF SpeakInv
  <2>6. PICK from \in Nat : from = Len(spokenWire)
    BY SequenceDomain DEF SpeakInv
  <2>7. OnWire(n + 1) = {}
    BY <1>1, <2>5 DEF SpeakInv, SpeakingOK
  <2>8. Sent(n + 1, from, 0, count, rate)
    <3>1. from \in 0..Len(spokenWire) /\ from + 1..from + 0 = {}
      BY <2>6
    <3> QED
      BY <2>7, <3>1, SMTT(30) DEF Sent
  <2>9. Sent(n + 1, from, 0, count, rate)'
    BY <1>1, <2>8 DEF Sent, OnWire
  <2>10. PacketsHold(count, samples, rate)'
    BY <2>1 DEF PacketsHold, FrameSamples
  <2>11. SpeakingOK'
    <3>1. speaking' # Silent
      BY <2>2, <2>4
    <3>2. PICK wire : wire = Len(spokenWire')
      OBVIOUS
    <3>3. Len(speakReplies') = n /\ from \in 0..wire /\ from + said.sent = wire
      BY <1>1, <1>7, <2>3, <2>5, <2>6, <3>2
    <3>4. SaidOK(said)'
      BY <1>7, <2>1, <2>3, <2>9, <2>10, <3>2, <3>3 DEF SaidOK
    <3> QED
      BY <2>2, <3>1, <3>4 DEF SpeakingOK
  <2>12. \A u \in DOMAIN speakReplies : ReplyOK(u, speakReplies[u])'
    <3> TAKE u \in DOMAIN speakReplies
    <3>1. PICK reply : reply = speakReplies[u]
      OBVIOUS
    <3>2. ReplyOK(u, reply)'
      BY <1>1, <3>1, ReplyStays DEF SpeakInv
    <3> QED
      BY <1>7, <3>1, <3>2
  <2> QED
    BY <1>1, <1>7, <2>11, <2>12 DEF SpeakInv, InTurn
<1> QED
  BY <1>4, <1>5, <1>6, <1>7

\* A chunk more on the wire: earlier utterances do not notice.
LEMMA ReplyStaysWhileSaying ==
  ASSUME SpeakInv, NEW chunk, spokenWire' = Append(spokenWire, chunk),
         UNCHANGED voiceModel, NEW u, u # chunk.utterance, NEW reply, ReplyOK(u, reply)
  PROVE  ReplyOK(u, reply)'
<1>1. PICK w \in Nat : w = Len(spokenWire)
  BY SequenceDomain DEF SpeakInv
<1>2. /\ DOMAIN spokenWire = 1..w /\ DOMAIN spokenWire' = 1..w + 1 /\ Len(spokenWire') = w + 1
      /\ \A i \in 1..w : spokenWire'[i] = spokenWire[i]
      /\ spokenWire'[w + 1] = chunk
  BY <1>1, SequenceAppend, SequenceDomain DEF SpeakInv
<1>3. OnWire(u)' = OnWire(u) /\ OnWire(u) \subseteq 1..w
  BY <1>1, <1>2 DEF OnWire
<1>4. \A i \in OnWire(u) : spokenWire'[i] = spokenWire[i]
  BY <1>2, <1>3
<1>5. ASSUME NEW from, NEW count, NEW rate, Sent(u, from, count, count, rate)
      PROVE  Sent(u, from, count, count, rate)' /\ from \in 0..w + 1
  <2>1. from \in 0..w /\ count \in Nat /\ OnWire(u) = from + 1..from + count
    BY <1>1, <1>5 DEF Sent
  <2>2. \A k \in 1..count : from + k \in OnWire(u)
    BY <2>1
  <2>3. \A k \in 1..count : spokenWire'[from + k] = spokenWire[from + k]
    BY <1>4, <2>2
  <2>4. from \in 0..w + 1
    BY <1>1, <2>1
  <2> QED
    BY <1>1, <1>2, <1>3, <1>5, <2>1, <2>3, <2>4, ZenonT(30) DEF Sent
<1>6. \A v : ResolveSid(v)' = ResolveSid(v)
  BY DEF ResolveSid, AskedSid, NamedSid
<1>7. PacketsHold(reply.packets, reply.samples, reply.rate)' <=>
        PacketsHold(reply.packets, reply.samples, reply.rate)
  BY DEF PacketsHold, FrameSamples
<1>8. (reply.ok /\ "voices" \in DOMAIN reply => \A v \in reply.voices : ResolveSid(v) # NoSid)'
  BY <1>6 DEF ReplyOK, NoSid
<1>9. reply.ok /\ "packets" \in DOMAIN reply =>
        (\E from \in 0..Len(spokenWire) : Sent(u, from, reply.packets, reply.packets, reply.rate))'
  <2> SUFFICES ASSUME reply.ok, "packets" \in DOMAIN reply
               PROVE  (\E from \in 0..Len(spokenWire) :
                         Sent(u, from, reply.packets, reply.packets, reply.rate))'
    OBVIOUS
  <2>1. PICK from : Sent(u, from, reply.packets, reply.packets, reply.rate)
    BY DEF ReplyOK
  <2>2. Sent(u, from, reply.packets, reply.packets, reply.rate)' /\ from \in 0..w + 1
    BY <1>5, <2>1
  <2> QED
    BY <1>2, <2>2
<1>10. ~(reply.ok /\ "packets" \in DOMAIN reply) => (\A i \in OnWire(u) : ~spokenWire[i].end)'
  BY <1>3, <1>4 DEF ReplyOK
<1> QED
  BY <1>7, <1>8, <1>9, <1>10 DEF ReplyOK

\* The next chunk of what is being said.
LEMMA ChunkSent ==
  ASSUME SpeakInv, speaking # Silent, NEW chunk, spokenWire' = Append(spokenWire, chunk),
         NEW n, n = Len(speakReplies), NEW k, k = speaking.sent + 1,
         NEW p, p = speaking.packets, NEW rate, rate = speaking.rate,
         chunk.utterance = n + 1, chunk.nr = k, chunk.rate = rate, chunk.end = (k = p)
  PROVE  /\ k \in 1..p /\ k \in Nat /\ p \in Nat /\ n \in Nat
         /\ \E from \in Nat : Sent(n + 1, from, k, p, rate)' /\ from + k = Len(spokenWire')
         /\ IsSequence(spokenWire') /\ InTurn'
         /\ \A i \in DOMAIN spokenWire' : spokenWire'[i].utterance \in 1..n + 1
<1>1. PICK w \in Nat : w = Len(spokenWire)
  BY SequenceDomain DEF SpeakInv
<1>2. /\ DOMAIN spokenWire = 1..w /\ DOMAIN spokenWire' = 1..w + 1 /\ Len(spokenWire') = w + 1
      /\ \A i \in 1..w : spokenWire'[i] = spokenWire[i]
      /\ spokenWire'[w + 1] = chunk /\ IsSequence(spokenWire')
  BY <1>1, SequenceAppend, SequenceDomain DEF SpeakInv
<1>3. SaidOK(speaking) /\ n \in Nat
  BY SequenceDomain DEF SpeakInv, SpeakingOK
<1>4. PICK sent : sent = speaking.sent
  OBVIOUS
<1>5. sent \in Nat /\ p \in Nat /\ sent < p /\ k = sent + 1
  BY <1>3, <1>4 DEF SaidOK
<1>6. k \in 1..p /\ k \in Nat
  BY <1>5
<1>7. PICK from \in 0..w : Sent(n + 1, from, sent, p, rate) /\ from + sent = w
  BY <1>1, <1>3, <1>4 DEF SaidOK
<1>8. OnWire(n + 1) = from + 1..w
  BY <1>7 DEF Sent
<1>9. OnWire(n + 1)' = OnWire(n + 1) \cup {w + 1}
  BY <1>1, <1>2, <1>3 DEF OnWire
<1>10. from + k = w + 1 /\ from \in 0..w + 1 /\ from \in Nat
  <2>1. from \in Nat /\ from <= w /\ from + sent = w
    BY <1>1, <1>7
  <2>2. from + (sent + 1) = w + 1
    <3>1. \A a, b, c \in Nat : a + b = c => a + (b + 1) = c + 1
      OBVIOUS
    <3>2. from \in Nat /\ sent \in Nat /\ w \in Nat /\ from + sent = w
      BY <1>1, <1>5, <2>1
    <3> QED
      BY <3>1, <3>2
  <2>3. from \in 0..w + 1
    BY <1>1, <2>1
  <2> QED
    BY <1>5, <2>1, <2>2, <2>3
<1>11. from + 1..from + k = (from + 1..w) \cup {w + 1}
  BY <1>1, <1>7, <1>10
<1>12. OnWire(n + 1)' = from + 1..from + k
  BY <1>8, <1>9, <1>11
<1>13. \A j \in 1..k : /\ spokenWire'[from + j].nr = j /\ spokenWire'[from + j].rate = rate
                       /\ spokenWire'[from + j].end = (j = p)
  <2> TAKE j \in 1..k
  <2>1. CASE j = k
    BY <1>2, <1>10, <2>1
  <2>2. CASE j # k
    <3>1. j \in 1..sent /\ from + j \in 1..w
      <4>1. j \in Nat /\ 1 <= j /\ j <= sent
        BY <1>5, <2>2
      <4>2. from \in Nat /\ sent \in Nat /\ w \in Nat /\ from + sent = w
        BY <1>1, <1>5, <1>7
      <4>3. \A a, b, c, d \in Nat : 1 <= b /\ b <= c /\ a + c = d => a + b \in 1..d
        OBVIOUS
      <4> QED
        BY <1>5, <4>1, <4>2, <4>3
    <3>2. /\ spokenWire[from + j].nr = j /\ spokenWire[from + j].rate = rate
          /\ spokenWire[from + j].end = (j = p)
      BY <1>7, <3>1 DEF Sent
    <3> QED
      BY <1>2, <3>1, <3>2
  <2> QED
    BY <2>1, <2>2
<1>14. Sent(n + 1, from, k, p, rate)'
  BY <1>2, <1>6, <1>10, <1>12, <1>13 DEF Sent
<1>15. \A i \in 1..w : spokenWire[i].utterance \in 1..n + 1
  BY <1>2 DEF SpeakInv
<1>16. \A i \in 1..w + 1 : spokenWire'[i].utterance \in 1..n + 1
  BY <1>1, <1>2, <1>3, <1>15
<1>17. InTurn'
  <2> SUFFICES ASSUME NEW i \in 1..w + 1, NEW j \in 1..w + 1, i < j
               PROVE  spokenWire'[i].utterance <= spokenWire'[j].utterance
    BY <1>2 DEF InTurn
  <2>1. i \in 1..w
    BY <1>1
  <2>2. CASE j = w + 1
    <3>1. spokenWire'[j].utterance = n + 1
      BY <1>2, <2>2
    <3> QED
      BY <1>2, <1>3, <1>15, <2>1, <3>1
  <2>3. CASE j # w + 1
    <3>1. j \in 1..w
      BY <1>1, <2>3
    <3> QED
      BY <1>2, <2>1, <3>1 DEF SpeakInv, InTurn
  <2> QED
    BY <2>2, <2>3
<1> QED
  BY <1>2, <1>3, <1>5, <1>6, <1>10, <1>14, <1>16, <1>17

LEMMA ChunkKeeps ==
  ASSUME SpeakInv, SpeakChunk
  PROVE  SpeakInv'
<1>1. speaking # Silent /\ UNCHANGED voiceModel
  BY DEF SpeakChunk
<1>2. PICK n : n = Len(speakReplies)
  OBVIOUS
<1>3. PICK k : k = speaking.sent + 1
  OBVIOUS
<1>4. PICK p : p = speaking.packets
  OBVIOUS
<1>5. PICK rate : rate = speaking.rate
  OBVIOUS
<1>6. PICK chunk : chunk = [utterance |-> n + 1, nr |-> k, to |-> speaking.to,
                            stream |-> speaking.stream, rate |-> rate, end |-> (k = p)]
  OBVIOUS
<1>7. /\ chunk.utterance = n + 1 /\ chunk.nr = k /\ chunk.rate = rate /\ chunk.end = (k = p)
  BY <1>6
<1>8. spokenWire' = Append(spokenWire, chunk)
  BY <1>2, <1>3, <1>4, <1>5, <1>6 DEF SpeakChunk, EndMark
<1>9. /\ k \in 1..p /\ k \in Nat /\ p \in Nat /\ n \in Nat
      /\ IsSequence(spokenWire') /\ InTurn'
      /\ \A i \in DOMAIN spokenWire' : spokenWire'[i].utterance \in 1..n + 1
  BY <1>1, <1>2, <1>3, <1>4, <1>5, <1>7, <1>8, ChunkSent
<1>10. PICK from \in Nat : Sent(n + 1, from, k, p, rate)' /\ from + k = Len(spokenWire')
  BY <1>1, <1>2, <1>3, <1>4, <1>5, <1>7, <1>8, ChunkSent
<1>11. PICK w \in Nat : w = Len(spokenWire')
  BY <1>9, SequenceDomain
<1>12. from \in 0..w
  BY <1>9, <1>10, <1>11
<1>13. DOMAIN speakReplies = 1..n /\ IsSequence(speakReplies)
  BY <1>2, SequenceDomain DEF SpeakInv
<1>14. PICK old : old = speakReplies
  OBVIOUS
<1>15. \A u \in 1..n : ReplyOK(u, old[u])'
  <2> TAKE u \in 1..n
  <2>1. u # chunk.utterance /\ ReplyOK(u, old[u])
    BY <1>7, <1>9, <1>13, <1>14 DEF SpeakInv
  <2> QED
    BY <1>1, <1>8, <2>1, ReplyStaysWhileSaying
<1>16. PICK samples : samples = speaking.samples
  OBVIOUS
<1>17. SaidOK(speaking)
  BY <1>1 DEF SpeakInv, SpeakingOK
<1>18. PacketsHold(p, samples, rate)
  BY <1>4, <1>5, <1>16, <1>17 DEF SaidOK
<1>19. PacketsHold(p, samples, rate)'
  BY <1>18 DEF PacketsHold, FrameSamples
<1>20. CASE k < p
  <2>1. speaking' = [speaking EXCEPT !.sent = k] /\ speakReplies' = speakReplies
    BY <1>3, <1>4, <1>20 DEF SpeakChunk
  <2>2. PICK said : said = speaking'
    OBVIOUS
  <2>3. /\ DOMAIN said = {"packets", "sent", "samples", "rate", "to", "stream"}
        /\ said.packets = p /\ said.sent = k /\ said.samples = samples /\ said.rate = rate
    BY <1>4, <1>5, <1>16, <1>17, <2>1, <2>2 DEF SaidOK
  <2>4. said # Silent
    BY <2>3 DEF Silent
  <2>5. Len(speakReplies') = n
    BY <1>2, <2>1
  <2>6. SaidOK(said)'
    BY <1>9, <1>10, <1>11, <1>12, <1>19, <1>20, <2>3, <2>5 DEF SaidOK
  <2>7. SpeakingOK'
    BY <2>2, <2>4, <2>6 DEF SpeakingOK
  <2>8. \A u \in DOMAIN speakReplies : ReplyOK(u, speakReplies[u])'
    <3> TAKE u \in DOMAIN speakReplies
    <3>1. PICK reply : reply = speakReplies'[u]
      OBVIOUS
    <3>2. ReplyOK(u, reply)'
      BY <1>13, <1>14, <1>15, <2>1, <3>1
    <3> QED
      BY <3>1, <3>2
  <2>9. DOMAIN speakReplies' = DOMAIN speakReplies
    BY <2>1
  <2> QED
    BY <1>1, <1>9, <1>13, <2>1, <2>5, <2>7, <2>8, <2>9 DEF SpeakInv
<1>21. CASE ~(k < p)
  <2>1. k = p
    BY <1>9, <1>21
  <2>2. PICK reply : reply = [ok |-> TRUE, packets |-> p, samples |-> samples, rate |-> rate]
    OBVIOUS
  <2>3. /\ reply.ok /\ reply.packets = p /\ reply.samples = samples /\ reply.rate = rate
        /\ "ok" \in DOMAIN reply /\ "packets" \in DOMAIN reply /\ "voices" \notin DOMAIN reply
    BY <2>2
  <2>4. speaking' = Silent /\ speakReplies' = Append(speakReplies, reply)
    BY <1>3, <1>4, <1>5, <1>16, <1>21, <2>2 DEF SpeakChunk, SpeakAnswered
  <2>5. /\ IsSequence(speakReplies') /\ Len(speakReplies') = n + 1
        /\ DOMAIN speakReplies' = 1..n + 1 /\ speakReplies'[n + 1] = reply
        /\ \A u \in 1..n : speakReplies'[u] = old[u]
    BY <1>2, <1>13, <1>14, <2>4, SequenceAppend, SequenceDomain
  <2>6. ReplyOK(n + 1, reply)'
    BY <1>9, <1>10, <1>11, <1>12, <1>19, <2>1, <2>3 DEF ReplyOK
  <2>7. \A u \in DOMAIN speakReplies' : ReplyOK(u, speakReplies[u])'
    <3> SUFFICES ASSUME NEW u \in 1..n + 1 PROVE ReplyOK(u, speakReplies[u])'
      BY <2>5
    <3>1. PICK r : r = speakReplies'[u]
      OBVIOUS
    <3>2. ReplyOK(u, r)'
      BY <1>9, <1>15, <2>5, <2>6, <3>1
    <3> QED
      BY <3>1, <3>2
  <2>8. PICK u : u = n + 2
    OBVIOUS
  <2>9. OnWire(u)' = {}
    BY <1>9, <2>8 DEF OnWire
  <2>10. SpeakingOK'
    BY <1>9, <2>4, <2>5, <2>8, <2>9 DEF SpeakingOK
  <2>11. \A i \in DOMAIN spokenWire' : spokenWire'[i].utterance \in 1..Len(speakReplies') + 1
    BY <1>9, <2>5
  <2> QED
    BY <1>1, <1>9, <2>5, <2>7, <2>10, <2>11 DEF SpeakInv
<1> QED
  BY <1>20, <1>21

\* An utterance broken off has not come to its marked chunk.
LEMMA ChunkFailsKeeps ==
  ASSUME SpeakInv, SpeakChunkFails
  PROVE  SpeakInv'
<1>1. PICK reply : reply = SpeakRefusal
  OBVIOUS
<1>2. /\ speaking # Silent /\ speaking' = Silent /\ SpeakAnswered(reply)
      /\ UNCHANGED <<spokenWire, voiceModel>>
  BY <1>1 DEF SpeakChunkFails
<1>3. "ok" \in DOMAIN reply /\ ~reply.ok
  BY <1>1 DEF SpeakRefusal
<1>4. PICK u : u = Len(speakReplies) + 1
  OBVIOUS
<1>5. SaidOK(speaking)
  BY <1>2 DEF SpeakInv, SpeakingOK
<1>6. PICK from \in 0..Len(spokenWire) : Sent(u, from, speaking.sent, speaking.packets, speaking.rate)
  BY <1>4, <1>5 DEF SaidOK
<1>7. \A i \in OnWire(u) : ~spokenWire[i].end
  <2> SUFFICES ASSUME NEW i \in OnWire(u) PROVE ~spokenWire[i].end
    OBVIOUS
  <2>1. /\ speaking.sent \in Nat /\ speaking.packets \in Nat /\ speaking.sent < speaking.packets
        /\ from \in Nat
    BY <1>5, <1>6, SequenceDomain DEF SaidOK, SpeakInv
  <2>2. PICK k \in 1..speaking.sent : i = from + k
    <3>1. i \in from + 1..from + speaking.sent
      BY <1>6 DEF Sent
    <3>2. i - from \in 1..speaking.sent /\ i = from + (i - from)
      BY <2>1, <3>1
    <3> QED
      BY <3>2
  <2>3. spokenWire[from + k].end = (k = speaking.packets)
    BY <1>6, <2>2 DEF Sent
  <2>4. k # speaking.packets
    BY <2>1, <2>2
  <2> QED
    BY <2>2, <2>3, <2>4
<1>8. ReplyOK(u, reply)
  BY <1>3, <1>7 DEF ReplyOK
<1> QED
  BY <1>2, <1>4, <1>8, AnsweredKeeps

LEMMA SynthesizeKeeps ==
  ASSUME SpeakInv, NEW r, NEW samples \in Nat, LocalSynthesize(r, samples)
  PROVE  SpeakInv'
<1>1. PICK reply : /\ SpeakAnswered(reply)
                   /\ reply \in {[ok |-> TRUE, packets |-> 0, samples |-> samples,
                                  rate |-> voiceModel.rate], SpeakRefusal}
  BY DEF LocalSynthesize
<1>2. /\ "ok" \in DOMAIN reply /\ "voices" \notin DOMAIN reply
      /\ reply.ok /\ "packets" \in DOMAIN reply => reply.packets = 0
  BY <1>1 DEF SpeakRefusal
<1>3. speaking = Silent /\ speaking' = Silent /\ UNCHANGED <<spokenWire, voiceModel>>
  BY DEF LocalSynthesize, Requested
<1>4. ReplyOK(Len(speakReplies) + 1, reply)
  BY <1>2, <1>3, PlainReply
<1> QED
  BY <1>1, <1>3, <1>4, AnsweredKeeps

LEMMA VoicesKeeps ==
  ASSUME SpeakInv, NEW r, LocalVoices(r)
  PROVE  SpeakInv'
<1>1. PICK reply : /\ SpeakAnswered(reply)
                   /\ reply \in {[ok |-> TRUE, voices |-> ListedVoices], SpeakRefusal}
  BY DEF LocalVoices
<1>2. /\ "ok" \in DOMAIN reply /\ "packets" \notin DOMAIN reply
      /\ reply.ok /\ "voices" \in DOMAIN reply => reply.voices \subseteq ListedVoices
  BY <1>1 DEF SpeakRefusal
<1>3. speaking = Silent /\ speaking' = Silent /\ UNCHANGED <<spokenWire, voiceModel>>
  BY DEF LocalVoices, Requested
<1>4. ReplyOK(Len(speakReplies) + 1, reply)
  BY <1>2, <1>3, PlainReply
<1> QED
  BY <1>1, <1>3, <1>4, AnsweredKeeps

LEMMA SpeakStarts == SpeakInit => SpeakInv
<1> SUFFICES ASSUME SpeakInit PROVE SpeakInv
  OBVIOUS
<1>1. IsSequence(<<>>) /\ Len(<<>>) = 0
  BY EmptySequence
<1>2. /\ voiceModel \in VoiceModels /\ spokenWire = <<>> /\ speakReplies = <<>> /\ speaking = Silent
  BY DEF SpeakInit
<1>3. OnWire(Len(speakReplies) + 1) = {}
  BY <1>2 DEF OnWire
<1> QED
  BY <1>1, <1>2, <1>3 DEF SpeakInv, SpeakingOK, InTurn

LEMMA SpeakStep == SpeakInv /\ [SpeakNext]_speakVars => SpeakInv'
<1> SUFFICES ASSUME SpeakInv, [SpeakNext]_speakVars PROVE SpeakInv'
  OBVIOUS
<1>1. ASSUME NEW r \in SpeakRequests, NEW samples \in SampleCounts,
             Speak(r, samples) \/ LocalSynthesize(r, samples)
      PROVE  SpeakInv'
  BY <1>1, SpeakKeeps, SynthesizeKeeps, SpeakAssumption
<1>2. ASSUME NEW r \in SpeakRequests, LocalVoices(r)
      PROVE  SpeakInv'
  BY <1>2, VoicesKeeps
<1>3. CASE SpeakChunk
  BY <1>3, ChunkKeeps
<1>4. CASE SpeakChunkFails
  BY <1>4, ChunkFailsKeeps
<1>5. CASE UNCHANGED speakVars
  <2>1. UNCHANGED <<voiceModel, spokenWire, speakReplies, speaking>>
    BY <1>5 DEF speakVars
  <2>2. \A u \in DOMAIN speakReplies : ReplyOK(u, speakReplies[u])'
    <3> TAKE u \in DOMAIN speakReplies
    <3>1. PICK reply : reply = speakReplies[u]
      OBVIOUS
    <3>2. ReplyOK(u, reply)'
      BY <2>1, <3>1, ReplyStays DEF SpeakInv
    <3> QED
      BY <2>1, <3>1, <3>2
  <2>3. PICK u : u = Len(speakReplies) + 1
    OBVIOUS
  <2>4. OnWire(u)' = OnWire(u)
    BY <2>1 DEF OnWire
  <2>5. PICK said : said = speaking
    OBVIOUS
  <2>6. SaidOK(said)' <=> SaidOK(said)
    BY <2>1 DEF SaidOK, Sent, OnWire, PacketsHold, FrameSamples
  <2>7. SpeakingOK'
    BY <2>1, <2>3, <2>4, <2>5, <2>6 DEF SpeakInv, SpeakingOK
  <2> QED
    BY <2>1, <2>2, <2>7 DEF SpeakInv, InTurn
<1> QED
  BY <1>1, <1>2, <1>3, <1>4, <1>5 DEF SpeakNext

LEMMA SpeakInvWhole == SpeakInv => SpeechIsWhole
<1> SUFFICES ASSUME SpeakInv PROVE SpeechIsWhole
  OBVIOUS
<1>1. \A u \in DOMAIN speakReplies : ReplyOK(u, speakReplies[u])
  BY DEF SpeakInv
<1> QED
  BY <1>1 DEF SpeakInv, SpeechIsWhole, Spoken, ReplyOK, InTurn, Sent, PacketsHold

\* A tts_speak that succeeds has put its chunks on the wire one after the other,
\* all its samples in them and the last one marked; one that is broken off has
\* marked none; and a voice that is listed is accepted.
THEOREM SpeechHolds == SpeakSpec => []SpeechIsWhole
<1>1. SpeakInit => SpeakInv
  BY SpeakStarts
<1>2. SpeakInv /\ [SpeakNext]_speakVars => SpeakInv'
  BY SpeakStep
<1>3. SpeakInv => SpeechIsWhole
  BY SpeakInvWhole
<1> QED
  BY <1>1, <1>2, <1>3, PTL DEF SpeakSpec

-----------------------------------------------------------------------------
(* Assistant: defaults are kept                                              *)

FullRow(row) == DOMAIN row = {"at", "default"} /\ row.default \in BOOLEAN
RowOK(row) == row = NoRow \/ FullRow(row)
TableOK(table, ids) == DOMAIN table = ids /\ \A id \in ids : RowOK(table[id])
Written(table, id, row) == [table EXCEPT ![id] = row]

\* What writing a row makes of a table.
Overwrites(new, table, ids, id, row) ==
  /\ TableOK(new, ids) /\ Rows(new) = Rows(table) \cup {id}
  /\ row.default = TRUE => Defaults(new) = Defaults(table) \cup {id}
  /\ row.default = FALSE => Defaults(new) = Defaults(table) \ {id}

LEMMA DefaultIsRow ==
  ASSUME NEW table, NEW ids, TableOK(table, ids)
  PROVE  Rows(table) \subseteq ids /\ Defaults(table) \subseteq Rows(table)
BY DEF Rows, Defaults, TableOK

LEMMA ClearedTable ==
  ASSUME NEW table, NEW ids, TableOK(table, ids)
  PROVE  /\ TableOK(Cleared(table), ids) /\ Rows(Cleared(table)) = Rows(table)
         /\ Defaults(Cleared(table)) = {}
<1>1. /\ DOMAIN Cleared(table) = ids
      /\ \A id \in ids : Cleared(table)[id] = [table[id] EXCEPT !.default = FALSE]
  BY DEF Cleared, TableOK
<1>2. \A id \in ids : /\ RowOK(Cleared(table)[id]) /\ Cleared(table)[id].default = FALSE
                      /\ Cleared(table)[id] = NoRow <=> table[id] = NoRow
  BY <1>1 DEF TableOK, RowOK, FullRow, NoRow
<1> QED
  BY <1>1, <1>2 DEF TableOK, Rows, Defaults

LEMMA ChosenTable ==
  ASSUME NEW table, NEW ids, TableOK(table, ids), NEW id
  PROVE  /\ TableOK(Chosen(table, id), ids) /\ Rows(Chosen(table, id)) = Rows(table)
         /\ Defaults(Chosen(table, id)) = IF id \in Rows(table) THEN Defaults(table) \cup {id}
                                          ELSE Defaults(table)
<1>1. CASE id \notin Rows(table)
  BY <1>1 DEF Chosen
<1>2. CASE id \in Rows(table)
  <2>1. PICK new : new = Chosen(table, id)
    OBVIOUS
  <2>2. PICK row : row = [table[id] EXCEPT !.default = TRUE]
    OBVIOUS
  <2>3. id \in ids /\ table[id] # NoRow /\ RowOK(table[id])
    BY <1>2 DEF Rows, TableOK
  <2>4. DOMAIN row = {"at", "default"} /\ row.default = TRUE
    BY <2>2, <2>3 DEF RowOK, FullRow
  <2>5. row # NoRow
    BY <2>4 DEF NoRow
  <2>6. DOMAIN new = ids /\ new[id] = row /\ \A m \in ids : m # id => new[m] = table[m]
    BY <1>2, <2>1, <2>2, <2>3 DEF Chosen, TableOK
  <2>7. TableOK(new, ids)
    BY <2>4, <2>6 DEF TableOK, RowOK, FullRow
  <2>8. Rows(new) = Rows(table)
    BY <1>2, <2>5, <2>6 DEF Rows, TableOK
  <2>9. Defaults(new) = Defaults(table) \cup {id}
    BY <1>2, <2>4, <2>6, <2>8 DEF Defaults, Rows, TableOK
  <2> QED
    BY <1>2, <2>1, <2>7, <2>8, <2>9
<1> QED
  BY <1>1, <1>2

LEMMA WrittenTable ==
  ASSUME NEW table, NEW ids, TableOK(table, ids), NEW id \in ids,
         NEW row, FullRow(row)
  PROVE  Overwrites(Written(table, id, row), table, ids, id, row)
<1>1. PICK new : new = Written(table, id, row)
  OBVIOUS
<1>2. DOMAIN new = ids /\ new[id] = row /\ \A m \in ids : m # id => new[m] = table[m]
  BY <1>1 DEF Written, TableOK
<1>3. row # NoRow
  BY DEF NoRow, FullRow
<1>4. TableOK(new, ids)
  BY <1>2 DEF TableOK, RowOK, FullRow
<1>5. Rows(new) = Rows(table) \cup {id}
  BY <1>2, <1>3 DEF Rows, TableOK
<1>6. row.default = TRUE => Defaults(new) = Defaults(table) \cup {id}
  BY <1>2, <1>5 DEF Defaults, Rows, TableOK
<1>7. row.default = FALSE => Defaults(new) = Defaults(table) \ {id}
  BY <1>2, <1>5 DEF Defaults, Rows, TableOK
<1> QED
  BY <1>1, <1>4, <1>5, <1>6, <1>7 DEF Overwrites

\* A discovered model keeps the flag of the row in its place.
LEMMA DiscoveredTable ==
  ASSUME NEW table, NEW ids, TableOK(table, ids), NEW id \in ids,
         NEW row, DOMAIN row = {"at", "default"}, row.default = table[id].default
  PROVE  /\ TableOK(Written(table, id, row), ids)
         /\ Rows(table) \subseteq Rows(Written(table, id, row))
         /\ Defaults(Written(table, id, row)) = Defaults(table)
<1>1. PICK new : new = Written(table, id, row)
  OBVIOUS
<1>2. row.default = TRUE \/ row.default = FALSE
  BY DEF TableOK, RowOK, FullRow, NoRow
<1>3. Overwrites(new, table, ids, id, row)
  <2>1. FullRow(row)
    BY <1>2 DEF FullRow
  <2> QED
    BY <1>1, <2>1, WrittenTable
<1>4. row.default = TRUE => id \in Defaults(table)
  <2>1. row.default = TRUE => table[id] # NoRow
    BY DEF NoRow
  <2> QED
    BY <2>1 DEF Defaults, Rows, TableOK
<1>5. row.default = FALSE => id \notin Defaults(table)
  BY DEF Defaults
<1> QED
  BY <1>1, <1>2, <1>3, <1>4, <1>5 DEF Overwrites

\* The models declared, by their ids; one default found at the start that the
\* configuration says nothing about.
Again == {aiCfg.models[i].id : i \in DOMAIN aiCfg.models}
FoundDefault == /\ DeclaredDefaults(aiCfg.models) = {}
         /\ Cardinality(aiBefore) = 1 /\ aiBefore \cap Again = {}

\* The default a clean start ends with.
Right(id) ==
  /\ DeclaredDefaults(aiCfg.models) # {} => id = LastDeclared(aiCfg.models)
  /\ FoundDefault => aiBefore = {id}
NoneRight == DeclaredDefaults(aiCfg.models) = {} /\ ~FoundDefault

SetModel(id) == <<[op |-> "setModel", id |-> id]>>
SetAgent(id) == <<[op |-> "setAgent", id |-> id]>>

\* A statement of the seed, and one of a model list.
Declares(s) ==
  \/ \E i \in DOMAIN aiCfg.models : s = UpsertModel(aiCfg.models[i])
  \/ \E i \in DOMAIN aiCfg.agents : s = UpsertAgent(aiCfg.agents[i])
Lists(s) == \E id \in ModelIds : \E at : s = [op |-> "discovered", id |-> id, row |-> [at |-> at]]

\* The statements each phase may have before it.
TodoOK ==
  /\ IsSequence(aiTodo)
  /\ aiPhase \in {"down", "discover", "tie"} => aiTodo = <<>>
  /\ aiPhase = "seed" => \A k \in DOMAIN aiTodo : Declares(aiTodo[k])
  /\ aiPhase \in {"defaultModel", "serving"} =>
       aiTodo = <<>> \/ \E id \in ModelIds : aiTodo \in {SetModelDefault(id), SetModel(id)}
  /\ aiPhase = "defaultAgent" =>
       aiTodo = <<>> \/ \E id \in AgentIds : aiTodo \in {SetAgentDefault(id), SetAgent(id)}
  /\ aiPhase = "refresh" => \A k \in DOMAIN aiTodo : Lists(aiTodo[k])
  /\ aiPhase = "reply" => aiTodo = <<>> \/ \E r : aiTodo = <<RecordUsage(r)>>

Phases == {"down", "seed", "defaultModel", "defaultAgent", "discover", "refresh", "tie", "serving",
           "reply"}
AiTyped ==
  /\ aiCfg \in AiConfigs /\ aiPhase \in Phases
  /\ TableOK(aiModels, ModelIds) /\ TableOK(aiAgents, AgentIds)
  /\ aiSources.todo \in Seq([provider : STRING, ids : Seq(ModelIds)])
  /\ DOMAIN aiSources = {"todo", "errs"}

\* Usage: what a completion records comes before its reply.
UsageOK ==
  /\ IsSequence(aiUsage) /\ aiFaults \in Nat /\ aiReplied \in Nat
  /\ Len(aiUsage) + aiFaults >= aiReplied
  /\ aiPhase = "reply" /\ aiTodo = <<>> => Len(aiUsage) + aiFaults >= aiReplied + 1

\* The seed: what is declared is stored or still to be.
SeedOK ==
  /\ \A i \in DOMAIN aiCfg.models :
       \/ aiCfg.models[i].id \in Rows(aiModels)
       \/ \E k \in DOMAIN aiTodo : aiTodo[k] = UpsertModel(aiCfg.models[i])
  /\ FoundDefault => Defaults(aiModels) = aiBefore

\* The default that is being set; `single` is the second of the two statements.
SettingModel(id) ==
  /\ id \in Rows(aiModels)
  /\ \/ aiTodo = SetModelDefault(id)
     \/ aiTodo = SetModel(id) /\ Defaults(aiModels) = {}
     \/ aiTodo = <<>> /\ Defaults(aiModels) = {id}

ChoosingModel ==
  IF aiSeeded THEN \E id \in ModelIds : Right(id) /\ SettingModel(id)
  ELSE NoneRight /\ Defaults(aiModels) = {} /\ aiTodo = <<>>

ChoosingAgent ==
  \/ aiTodo = <<>> /\ Defaults(aiAgents) = {}
  \/ \E id \in AgentIds :
       \/ aiTodo = SetAgentDefault(id)
       \/ aiTodo = SetAgent(id) /\ Defaults(aiAgents) = {}
       \/ aiTodo = <<>> /\ Defaults(aiAgents) = {id}

\* Afterwards the flags stay, unless there was none to choose at the seed.
ModelChosen ==
  IF aiSeeded THEN \E id \in ModelIds : Right(id) /\ Defaults(aiModels) = {id}
  ELSE NoneRight /\ (Defaults(aiModels) = {} \/ \E id \in ModelIds : Defaults(aiModels) = {id})
AgentChosen == Defaults(aiAgents) = {} \/ \E id \in AgentIds : Defaults(aiAgents) = {id}
Tying ==
  aiTodo # <<>> => ~aiSeeded /\ Defaults(aiModels) = {} /\ \E id \in ModelIds : SettingModel(id)

CleanOK ==
  /\ aiPhase = "seed" => SeedOK
  /\ aiPhase = "defaultModel" => ChoosingModel
  /\ aiPhase = "defaultAgent" => ModelChosen /\ ChoosingAgent
  /\ aiPhase \in {"discover", "refresh", "tie", "serving", "reply"} => ModelChosen /\ AgentChosen
  /\ aiPhase = "serving" => Tying

AiInv == AiTyped /\ TodoOK /\ UsageOK /\ (aiClean => CleanOK)

\* What each statement does.
LEMMA ModelStatement ==
  ASSUME NEW m, Executed(UpsertModel(m))
  PROVE  /\ aiModels' = Written(aiModels, m.id, [at |-> m.at, default |-> m.default])
         /\ aiAgents' = aiAgents /\ aiUsage' = aiUsage
BY DEF Executed, UpsertModel, Written

LEMMA AgentStatement ==
  ASSUME NEW a, Executed(UpsertAgent(a))
  PROVE  /\ aiAgents' = Written(aiAgents, a.id, [at |-> a.model, default |-> a.default])
         /\ aiModels' = aiModels /\ aiUsage' = aiUsage
BY DEF Executed, UpsertAgent, Written

LEMMA ListStatement ==
  ASSUME NEW id, NEW at, Executed([op |-> "discovered", id |-> id, row |-> [at |-> at]])
  PROVE  /\ aiModels' = Written(aiModels, id, [at |-> at, default |-> aiModels[id].default])
         /\ aiAgents' = aiAgents /\ aiUsage' = aiUsage
BY DEF Executed, Discovered, Written

LEMMA ClearModelsStatement ==
  ASSUME Executed([op |-> "clearModels"])
  PROVE  aiModels' = Cleared(aiModels) /\ aiAgents' = aiAgents /\ aiUsage' = aiUsage
BY DEF Executed

LEMMA SetModelStatement ==
  ASSUME NEW id, Executed([op |-> "setModel", id |-> id])
  PROVE  aiModels' = Chosen(aiModels, id) /\ aiAgents' = aiAgents /\ aiUsage' = aiUsage
BY DEF Executed

LEMMA ClearAgentsStatement ==
  ASSUME Executed([op |-> "clearAgents"])
  PROVE  aiAgents' = Cleared(aiAgents) /\ aiModels' = aiModels /\ aiUsage' = aiUsage
BY DEF Executed

LEMMA SetAgentStatement ==
  ASSUME NEW id, Executed([op |-> "setAgent", id |-> id])
  PROVE  aiAgents' = Chosen(aiAgents, id) /\ aiModels' = aiModels /\ aiUsage' = aiUsage
BY DEF Executed

LEMMA UsageStatement ==
  ASSUME NEW r, Executed(RecordUsage(r))
  PROVE  aiUsage' = Append(aiUsage, r) /\ aiModels' = aiModels /\ aiAgents' = aiAgents
BY DEF Executed, RecordUsage

LEMMA ConfigShape ==
  ASSUME NEW cfg \in AiConfigs
  PROVE  /\ DOMAIN cfg.models = 1..Len(cfg.models) /\ Len(cfg.models) \in Nat
         /\ \A i \in DOMAIN cfg.models : /\ cfg.models[i].id \in ModelIds
                                           /\ cfg.models[i].default \in BOOLEAN
         /\ \A i \in DOMAIN cfg.agents : /\ cfg.agents[i].id \in AgentIds
                                           /\ cfg.agents[i].default \in BOOLEAN
         /\ cfg.sources \in Seq([provider : STRING, ids : Seq(ModelIds)])
<1>1. /\ cfg.models \in Seq([id : ModelIds, at : STRING, default : BOOLEAN])
      /\ cfg.agents \in Seq([id : AgentIds, model : ModelIds, default : BOOLEAN])
      /\ cfg.sources \in Seq([provider : STRING, ids : Seq(ModelIds)])
  BY AiAssumption
<1>2. ASSUME NEW S, NEW q \in Seq(S)
      PROVE  /\ DOMAIN q = 1..Len(q) /\ Len(q) \in Nat
             /\ \A i \in DOMAIN q : q[i] \in S
  OBVIOUS
<1>3. \A m \in [id : ModelIds, at : STRING, default : BOOLEAN] :
        m.id \in ModelIds /\ m.default \in BOOLEAN
  OBVIOUS
<1>4. \A a \in [id : AgentIds, model : ModelIds, default : BOOLEAN] :
        a.id \in AgentIds /\ a.default \in BOOLEAN
  OBVIOUS
<1>5. \A i \in DOMAIN cfg.models :
        cfg.models[i] \in [id : ModelIds, at : STRING, default : BOOLEAN]
  BY <1>1, <1>2
<1>6. \A i \in DOMAIN cfg.agents :
        cfg.agents[i] \in [id : AgentIds, model : ModelIds, default : BOOLEAN]
  BY <1>1, <1>2
<1>7. DOMAIN cfg.models = 1..Len(cfg.models) /\ Len(cfg.models) \in Nat
  BY <1>1, <1>2
<1> QED
  BY <1>1, <1>3, <1>4, <1>5, <1>6, <1>7

LEMMA ConfigTyped ==
  ASSUME aiCfg \in AiConfigs
  PROVE  /\ DOMAIN aiCfg.models = 1..Len(aiCfg.models) /\ Len(aiCfg.models) \in Nat
         /\ \A i \in DOMAIN aiCfg.models : /\ aiCfg.models[i].id \in ModelIds
                                           /\ aiCfg.models[i].default \in BOOLEAN
         /\ \A i \in DOMAIN aiCfg.agents : /\ aiCfg.agents[i].id \in AgentIds
                                           /\ aiCfg.agents[i].default \in BOOLEAN
         /\ aiCfg.sources \in Seq([provider : STRING, ids : Seq(ModelIds)])
BY ConfigShape

LEMMA RightSame ==
  ASSUME UNCHANGED <<aiCfg, aiBefore>>
  PROVE  /\ FoundDefault' <=> FoundDefault
         /\ NoneRight' <=> NoneRight
         /\ \A id : Right(id)' <=> Right(id)
<1>1. FoundDefault' <=> FoundDefault
  BY DEF FoundDefault, DeclaredDefaults, Again
<1>2. NoneRight' <=> NoneRight
  BY <1>1 DEF NoneRight, DeclaredDefaults
<1>3. \A id : Right(id)' <=> Right(id)
  BY <1>1 DEF Right, DeclaredDefaults, LastDeclared
<1> QED
  BY <1>1, <1>2, <1>3

LEMMA SeedStatement ==
  ASSUME AiInv, AiStatement, aiPhase = "seed"
  PROVE  AiInv'
<1>1. /\ aiTodo # <<>> /\ IsSequence(aiTodo)
      /\ Executed(Head(aiTodo)) /\ aiTodo' = Tail(aiTodo)
      /\ UNCHANGED <<aiCfg, aiPhase, aiSources, aiAttempt, aiFaults, aiClean, aiBefore, aiSeeded,
                     aiReplied, aiStarts>>
  BY DEF AiStatement, AiInv, TodoOK, aiHistory
<1>2. /\ IsSequence(aiTodo') /\ Len(aiTodo) \in Nat /\ Len(aiTodo) >= 1
      /\ Len(aiTodo') = Len(aiTodo) - 1 /\ DOMAIN aiTodo = 1..Len(aiTodo)
      /\ DOMAIN aiTodo' = 1..Len(aiTodo')
      /\ \A k \in 1..Len(aiTodo) - 1 : aiTodo'[k] = aiTodo[k + 1]
      /\ Head(aiTodo) = aiTodo[1]
  BY <1>1, SequenceTail, SequenceDomain
<1>3. PICK s : s = aiTodo[1]
  OBVIOUS
<1>4. Executed(s) /\ Declares(s)
  BY <1>1, <1>2, <1>3 DEF AiInv, TodoOK
<1>5. TodoOK'
  <2>1. \A k \in DOMAIN aiTodo' : Declares(aiTodo[k + 1]) /\ aiTodo'[k] = aiTodo[k + 1]
    BY <1>2 DEF AiInv, TodoOK
  <2>2. PICK todo : todo = aiTodo'
    OBVIOUS
  <2>3. \A k \in DOMAIN todo : Declares(todo[k])
    BY <2>1, <2>2
  <2>4. \A k \in DOMAIN todo : Declares(todo[k])'
    BY <1>1, <2>3 DEF Declares
  <2> QED
    BY <1>1, <1>2, <2>2, <2>4 DEF TodoOK
<1>6. PICK old : old = aiModels
  OBVIOUS
<1>7. PICK new : new = aiModels'
  OBVIOUS
<1>8. /\ TableOK(new, ModelIds) /\ Rows(old) \subseteq Rows(new)
      /\ FoundDefault /\ Defaults(old) = aiBefore => Defaults(new) = aiBefore
      /\ TableOK(aiAgents', AgentIds) /\ aiUsage' = aiUsage
  <2>1. CASE \E i \in DOMAIN aiCfg.models : s = UpsertModel(aiCfg.models[i])
    <3>1. PICK i \in DOMAIN aiCfg.models : s = UpsertModel(aiCfg.models[i])
      BY <2>1
    <3>2. PICK m : m = aiCfg.models[i]
      OBVIOUS
    <3>3. m.id \in ModelIds /\ m.default \in BOOLEAN
      BY <3>2, ConfigTyped DEF AiInv, AiTyped
    <3>4. PICK row : row = [at |-> m.at, default |-> m.default]
      OBVIOUS
    <3>5. FullRow(row) /\ row.default = m.default
      BY <3>3, <3>4 DEF FullRow
    <3>6. new = Written(old, m.id, row) /\ aiAgents' = aiAgents /\ aiUsage' = aiUsage
      BY <1>4, <1>6, <1>7, <3>1, <3>2, <3>4, ModelStatement
    <3>7. Overwrites(new, old, ModelIds, m.id, row)
      BY <1>6, <3>3, <3>5, <3>6, WrittenTable DEF AiInv, AiTyped
    <3>8. FoundDefault => m.default = FALSE /\ m.id \notin aiBefore
      BY <3>2, <3>3 DEF FoundDefault, DeclaredDefaults, Again
    <3>9. FoundDefault /\ Defaults(old) = aiBefore => Defaults(new) = aiBefore
      BY <3>5, <3>7, <3>8 DEF Overwrites
    <3> QED
      BY <3>6, <3>7, <3>9 DEF Overwrites, AiInv, AiTyped
  <2>2. CASE \E i \in DOMAIN aiCfg.agents : s = UpsertAgent(aiCfg.agents[i])
    <3>1. PICK i \in DOMAIN aiCfg.agents : s = UpsertAgent(aiCfg.agents[i])
      BY <2>2
    <3>2. PICK a : a = aiCfg.agents[i]
      OBVIOUS
    <3>3. a.id \in AgentIds /\ a.default \in BOOLEAN
      BY <3>2, ConfigTyped DEF AiInv, AiTyped
    <3>4. PICK row : row = [at |-> a.model, default |-> a.default]
      OBVIOUS
    <3>5. FullRow(row)
      BY <3>3, <3>4 DEF FullRow
    <3>6. /\ aiAgents' = Written(aiAgents, a.id, row) /\ aiModels' = aiModels
          /\ aiUsage' = aiUsage
      BY <1>4, <3>1, <3>2, <3>4, AgentStatement
    <3>7. Overwrites(aiAgents', aiAgents, AgentIds, a.id, row)
      BY <3>3, <3>5, <3>6, WrittenTable DEF AiInv, AiTyped
    <3> QED
      BY <1>6, <1>7, <3>6, <3>7 DEF Overwrites, AiInv, AiTyped
  <2> QED
    BY <1>4, <2>1, <2>2 DEF Declares
<1>9. aiClean => SeedOK'
  <2> SUFFICES ASSUME aiClean PROVE SeedOK'
    OBVIOUS
  <2>1. SeedOK
    BY DEF AiInv, CleanOK
  <2>2. FoundDefault' => (Defaults(aiModels) = aiBefore)'
    BY <1>1, <1>6, <1>7, <1>8, <2>1, RightSame DEF SeedOK
  <2>3. ASSUME NEW i \in DOMAIN aiCfg.models
        PROVE  \/ aiCfg.models[i].id \in Rows(new)
               \/ \E k \in DOMAIN aiTodo' : aiTodo'[k] = UpsertModel(aiCfg.models[i])
    <3>1. PICK m : m = aiCfg.models[i]
      OBVIOUS
    <3>2. CASE m.id \in Rows(old)
      BY <1>8, <3>1, <3>2
    <3>3. CASE \E k \in DOMAIN aiTodo : aiTodo[k] = UpsertModel(m)
      <4>1. PICK k \in DOMAIN aiTodo : aiTodo[k] = UpsertModel(m)
        BY <3>3
      <4>2. CASE k = 1
        <5>1. PICK row : row = [at |-> m.at, default |-> m.default]
          OBVIOUS
        <5>2. m.id \in ModelIds /\ m.default \in BOOLEAN
          BY <3>1, ConfigTyped DEF AiInv, AiTyped
        <5>3. FullRow(row)
          BY <5>1, <5>2 DEF FullRow
        <5>4. new = Written(old, m.id, row)
          BY <1>3, <1>4, <1>6, <1>7, <4>1, <4>2, <5>1, ModelStatement
        <5>5. Overwrites(new, old, ModelIds, m.id, row)
          BY <1>6, <5>2, <5>3, <5>4, WrittenTable DEF AiInv, AiTyped
        <5> QED
          BY <3>1, <5>5 DEF Overwrites
      <4>3. CASE k # 1
        <5>1. k - 1 \in 1..Len(aiTodo) - 1 /\ k - 1 + 1 = k
          BY <1>2, <4>3
        <5>2. aiTodo'[k - 1] = UpsertModel(m) /\ k - 1 \in DOMAIN aiTodo'
          BY <1>2, <4>1, <5>1
        <5> QED
          BY <3>1, <5>2
      <4> QED
        BY <4>2, <4>3
    <3> QED
      BY <1>6, <2>1, <3>1, <3>2, <3>3 DEF SeedOK
  <2> QED
    BY <1>1, <1>7, <2>2, <2>3 DEF SeedOK, UpsertModel
<1>10. AiTyped'
  BY <1>1, <1>7, <1>8 DEF AiInv, AiTyped
<1>11. UsageOK'
  BY <1>1, <1>8 DEF AiInv, UsageOK
<1> QED
  BY <1>1, <1>5, <1>9, <1>10, <1>11 DEF AiInv, CleanOK

LEMMA SettingShapes ==
  ASSUME NEW id
  PROVE  /\ SetModelDefault(id) # <<>> /\ SetModel(id) # <<>> /\ SetModelDefault(id) # SetModel(id)
         /\ Head(SetModelDefault(id)) = [op |-> "clearModels"]
         /\ Tail(SetModelDefault(id)) = SetModel(id)
         /\ Head(SetModel(id)) = [op |-> "setModel", id |-> id] /\ Tail(SetModel(id)) = <<>>
         /\ SetAgentDefault(id) # <<>> /\ SetAgent(id) # <<>> /\ SetAgentDefault(id) # SetAgent(id)
         /\ Head(SetAgentDefault(id)) = [op |-> "clearAgents"]
         /\ Tail(SetAgentDefault(id)) = SetAgent(id)
         /\ Head(SetAgent(id)) = [op |-> "setAgent", id |-> id] /\ Tail(SetAgent(id)) = <<>>
<1>1. /\ SetModelDefault(id) # <<>> /\ SetModel(id) # <<>> /\ SetModelDefault(id) # SetModel(id)
      /\ SetAgentDefault(id) # <<>> /\ SetAgent(id) # <<>> /\ SetAgentDefault(id) # SetAgent(id)
  BY DEF SetModelDefault, SetModel, SetAgentDefault, SetAgent
<1>2. \A a, b : Head(<<a, b>>) = a /\ Tail(<<a, b>>) = <<b>> /\ Head(<<b>>) = b /\ Tail(<<b>>) = <<>>
  OBVIOUS
<1>3. /\ Head(SetModelDefault(id)) = [op |-> "clearModels"]
      /\ Tail(SetModelDefault(id)) = SetModel(id)
  BY <1>2 DEF SetModelDefault, SetModel
<1>4. Head(SetModel(id)) = [op |-> "setModel", id |-> id] /\ Tail(SetModel(id)) = <<>>
  BY <1>2 DEF SetModel
<1>5. /\ Head(SetAgentDefault(id)) = [op |-> "clearAgents"]
      /\ Tail(SetAgentDefault(id)) = SetAgent(id)
  BY <1>2 DEF SetAgentDefault, SetAgent
<1>6. Head(SetAgent(id)) = [op |-> "setAgent", id |-> id] /\ Tail(SetAgent(id)) = <<>>
  BY <1>2 DEF SetAgent
<1> QED
  BY <1>1, <1>3, <1>4, <1>5, <1>6

LEMMA ShortSequences ==
  /\ IsSequence(<<>>)
  /\ \A a : IsSequence(<<a>>)
  /\ \A a, b : IsSequence(<<a, b>>)
<1>1. \A a, b : <<a, b>> \in Seq({a, b}) /\ <<a>> \in Seq({a})
  OBVIOUS
<1> QED
  BY <1>1, EmptySequence DEF IsSequence

LEMMA SetSequences ==
  /\ IsSequence(<<>>)
  /\ \A id : /\ IsSequence(SetModelDefault(id)) /\ IsSequence(SetModel(id))
             /\ IsSequence(SetAgentDefault(id)) /\ IsSequence(SetAgent(id))
BY ShortSequences DEF SetModelDefault, SetModel, SetAgentDefault, SetAgent

LEMMA ModelSetting ==
  ASSUME AiStatement, TableOK(aiModels, ModelIds), NEW id,
         aiTodo \in {SetModelDefault(id), SetModel(id)}
  PROVE  /\ TableOK(aiModels', ModelIds) /\ UNCHANGED <<aiAgents, aiUsage>>
         /\ aiTodo' \in {SetModel(id), <<>>}
         /\ SettingModel(id) => SettingModel(id)'
         /\ SettingModel(id)' => Defaults(aiModels)' \in {{}, {id}}
         /\ SettingModel(id)' /\ aiTodo' = <<>> => Defaults(aiModels)' = {id}
         /\ SettingModel(id)' /\ aiTodo' # <<>> => Defaults(aiModels)' = {}
<1>1. Executed(Head(aiTodo)) /\ aiTodo' = Tail(aiTodo)
  BY DEF AiStatement
<1>2. CASE aiTodo = SetModelDefault(id)
  <2>1. aiTodo' = SetModel(id) /\ Executed([op |-> "clearModels"])
    BY <1>1, <1>2, SettingShapes
  <2>2. aiModels' = Cleared(aiModels) /\ UNCHANGED <<aiAgents, aiUsage>>
    BY <2>1, ClearModelsStatement
  <2>3. /\ TableOK(aiModels', ModelIds) /\ Rows(aiModels') = Rows(aiModels)
        /\ Defaults(aiModels') = {}
    BY <2>2, ClearedTable
  <2>4. aiTodo' # <<>>
    BY <2>1, SettingShapes
  <2> QED
    BY <2>1, <2>2, <2>3, <2>4 DEF SettingModel
<1>3. CASE aiTodo = SetModel(id)
  <2>1. aiTodo' = <<>> /\ Executed([op |-> "setModel", id |-> id])
    BY <1>1, <1>3, SettingShapes
  <2>2. aiModels' = Chosen(aiModels, id) /\ UNCHANGED <<aiAgents, aiUsage>>
    BY <2>1, SetModelStatement
  <2>3. /\ TableOK(aiModels', ModelIds) /\ Rows(aiModels') = Rows(aiModels)
        /\ Defaults(aiModels') = IF id \in Rows(aiModels) THEN Defaults(aiModels) \cup {id}
                                 ELSE Defaults(aiModels)
    BY <2>2, ChosenTable
  <2>4. SettingModel(id) => id \in Rows(aiModels) /\ Defaults(aiModels) = {}
    BY <1>3, SettingShapes DEF SettingModel
  <2>5. SettingModel(id)' => Defaults(aiModels)' = {id}
    <3>1. SetModel(id) # <<>> /\ SetModelDefault(id) # <<>>
      BY SettingShapes
    <3> QED
      BY <2>1, <3>1 DEF SettingModel, SetModel, SetModelDefault
  <2> QED
    BY <2>1, <2>2, <2>3, <2>4, <2>5 DEF SettingModel
<1> QED
  BY <1>2, <1>3

LEMMA AgentSetting ==
  ASSUME AiStatement, TableOK(aiAgents, AgentIds), NEW id,
         aiTodo \in {SetAgentDefault(id), SetAgent(id)}
  PROVE  /\ TableOK(aiAgents', AgentIds) /\ UNCHANGED <<aiModels, aiUsage>>
         /\ \/ aiTodo = SetAgentDefault(id) /\ aiTodo' = SetAgent(id) /\ Defaults(aiAgents') = {}
            \/ /\ aiTodo = SetAgent(id) /\ aiTodo' = <<>>
               /\ Defaults(aiAgents) = {} => Defaults(aiAgents') \subseteq {id}
<1>1. Executed(Head(aiTodo)) /\ aiTodo' = Tail(aiTodo)
  BY DEF AiStatement
<1>2. CASE aiTodo = SetAgentDefault(id)
  <2>1. aiTodo' = SetAgent(id) /\ Executed([op |-> "clearAgents"])
    BY <1>1, <1>2, SettingShapes
  <2>2. aiAgents' = Cleared(aiAgents) /\ UNCHANGED <<aiModels, aiUsage>>
    BY <2>1, ClearAgentsStatement
  <2> QED
    BY <1>2, <2>1, <2>2, ClearedTable
<1>3. CASE aiTodo = SetAgent(id)
  <2>1. aiTodo' = <<>> /\ Executed([op |-> "setAgent", id |-> id])
    BY <1>1, <1>3, SettingShapes
  <2>2. aiAgents' = Chosen(aiAgents, id) /\ UNCHANGED <<aiModels, aiUsage>>
    BY <2>1, SetAgentStatement
  <2>3. /\ TableOK(aiAgents', AgentIds)
        /\ Defaults(aiAgents') = IF id \in Rows(aiAgents) THEN Defaults(aiAgents) \cup {id}
                                 ELSE Defaults(aiAgents)
    BY <2>2, ChosenTable
  <2> QED
    BY <1>3, <2>1, <2>2, <2>3
<1> QED
  BY <1>2, <1>3

\* What a statement leaves alone.
LEMMA StatementFrame ==
  ASSUME AiInv, AiStatement
  PROVE  /\ aiTodo # <<>> /\ Executed(Head(aiTodo)) /\ aiTodo' = Tail(aiTodo)
         /\ UNCHANGED <<aiCfg, aiPhase, aiSources, aiFaults, aiClean, aiBefore, aiSeeded, aiReplied>>
         /\ (FoundDefault' <=> FoundDefault)
         /\ (NoneRight' <=> NoneRight)
         /\ \A id : (Right(id)' <=> Right(id))
<1>1. UNCHANGED <<aiCfg, aiPhase, aiSources, aiFaults, aiClean, aiBefore, aiSeeded, aiReplied>>
  BY DEF AiStatement, aiHistory
<1> QED
  BY <1>1, RightSame DEF AiStatement

LEMMA ModelStatementKeeps ==
  ASSUME AiInv, AiStatement, aiPhase \in {"defaultModel", "serving"}
  PROVE  AiInv'
<1>1. PICK id \in ModelIds : aiTodo \in {SetModelDefault(id), SetModel(id)}
  BY StatementFrame DEF AiInv, TodoOK
<1>2. TableOK(aiModels, ModelIds)
  BY DEF AiInv, AiTyped
<1>3. /\ TableOK(aiModels', ModelIds) /\ UNCHANGED <<aiAgents, aiUsage>>
      /\ aiTodo' \in {SetModel(id), <<>>}
  BY <1>1, <1>2, ModelSetting
<1>4. UNCHANGED <<aiCfg, aiPhase, aiSources, aiFaults, aiClean, aiBefore, aiSeeded, aiReplied>>
  BY StatementFrame
<1>5. AiTyped'
  BY <1>3, <1>4 DEF AiInv, AiTyped
<1>6. TodoOK'
  <2>1. IsSequence(aiTodo')
    BY <1>3, SetSequences
  <2>2. aiTodo' = <<>> \/ aiTodo' \in {SetModelDefault(id), SetModel(id)}
    BY <1>3
  <2>3. (\E i \in ModelIds : aiTodo \in {SetModelDefault(i), SetModel(i)})' \/ aiTodo' = <<>>
    BY <2>2 DEF SetModelDefault, SetModel
  <2> QED
    BY <1>4, <2>1, <2>3 DEF TodoOK
<1>7. UsageOK'
  BY <1>3, <1>4 DEF AiInv, UsageOK
<1>8. ASSUME NEW m \in ModelIds, SettingModel(m)
      PROVE  /\ SettingModel(m)' /\ Defaults(aiModels)' \in {{}, {m}}
             /\ aiTodo' = <<>> => Defaults(aiModels)' = {m}
             /\ aiTodo' # <<>> => Defaults(aiModels)' = {}
  <2>1. aiTodo \in {SetModelDefault(m), SetModel(m)}
    BY <1>8, StatementFrame DEF SettingModel
  <2> QED
    BY <1>2, <1>8, <2>1, ModelSetting
<1>9. CASE aiPhase = "defaultModel"
  <2>1. aiClean => ChoosingModel'
    <3> SUFFICES ASSUME aiClean PROVE ChoosingModel'
      OBVIOUS
    <3>1. ChoosingModel
      BY <1>9 DEF AiInv, CleanOK
    <3>2. aiSeeded
      BY <3>1, StatementFrame DEF ChoosingModel
    <3>3. PICK m \in ModelIds : Right(m) /\ SettingModel(m)
      BY <3>1, <3>2 DEF ChoosingModel
    <3>4. Right(m)' /\ SettingModel(m)' /\ aiSeeded'
      BY <1>4, <1>8, <3>2, <3>3, StatementFrame
    <3> QED
      BY <3>4 DEF ChoosingModel
  <2> QED
    BY <1>4, <1>5, <1>6, <1>7, <1>9, <2>1 DEF AiInv, CleanOK
<1>10. CASE aiPhase = "serving"
  <2>1. aiClean => ModelChosen' /\ AgentChosen' /\ Tying'
    <3> SUFFICES ASSUME aiClean PROVE ModelChosen' /\ AgentChosen' /\ Tying'
      OBVIOUS
    <3>1. ModelChosen /\ AgentChosen /\ Tying
      BY <1>10 DEF AiInv, CleanOK
    <3>2. PICK m \in ModelIds : ~aiSeeded /\ SettingModel(m)
      BY <3>1, StatementFrame DEF Tying
    <3>3. SettingModel(m)' /\ ~aiSeeded' /\ NoneRight'
      BY <1>4, <1>8, <3>1, <3>2, StatementFrame DEF ModelChosen
    <3>4. ModelChosen'
      BY <1>8, <3>2, <3>3 DEF ModelChosen
    <3>5. AgentChosen'
      BY <1>3, <3>1 DEF AgentChosen
    <3>6. Tying'
      BY <1>8, <3>2, <3>3 DEF Tying
    <3> QED
      BY <3>4, <3>5, <3>6
  <2> QED
    BY <1>4, <1>5, <1>6, <1>7, <1>10, <2>1 DEF AiInv, CleanOK
<1> QED
  BY <1>9, <1>10

LEMMA AgentStatementKeeps ==
  ASSUME AiInv, AiStatement, aiPhase = "defaultAgent"
  PROVE  AiInv'
<1>1. PICK id \in AgentIds : aiTodo \in {SetAgentDefault(id), SetAgent(id)}
  BY StatementFrame DEF AiInv, TodoOK
<1>2. /\ TableOK(aiAgents', AgentIds) /\ UNCHANGED <<aiModels, aiUsage>>
      /\ \/ aiTodo = SetAgentDefault(id) /\ aiTodo' = SetAgent(id) /\ Defaults(aiAgents') = {}
         \/ /\ aiTodo = SetAgent(id) /\ aiTodo' = <<>>
            /\ Defaults(aiAgents) = {} => Defaults(aiAgents') \subseteq {id}
  BY <1>1, AgentSetting DEF AiInv, AiTyped
<1>3. UNCHANGED <<aiCfg, aiPhase, aiSources, aiFaults, aiClean, aiBefore, aiSeeded, aiReplied>>
  BY StatementFrame
<1>4. AiTyped'
  BY <1>2, <1>3 DEF AiInv, AiTyped
<1>5. TodoOK'
  <2>1. IsSequence(aiTodo')
    BY <1>2, SetSequences
  <2>2. (\E i \in AgentIds : aiTodo \in {SetAgentDefault(i), SetAgent(i)})' \/ aiTodo' = <<>>
    BY <1>2 DEF SetAgentDefault, SetAgent
  <2> QED
    BY <1>3, <2>1, <2>2 DEF TodoOK
<1>6. UsageOK'
  BY <1>2, <1>3 DEF AiInv, UsageOK
<1>7. aiClean => ModelChosen' /\ ChoosingAgent'
  <2> SUFFICES ASSUME aiClean PROVE ModelChosen' /\ ChoosingAgent'
    OBVIOUS
  <2>1. ModelChosen /\ ChoosingAgent
    BY DEF AiInv, CleanOK
  <2>2. ModelChosen'
    BY <1>2, <1>3, <2>1, StatementFrame DEF ModelChosen
  <2>3. aiTodo = SetAgent(id) => Defaults(aiAgents) = {}
    <3>1. \A i : SetAgentDefault(i) # SetAgent(id) /\ SetAgent(id) # <<>>
      BY DEF SetAgentDefault, SetAgent
    <3> QED
      BY <2>1, <3>1 DEF ChoosingAgent
  <2>4. ASSUME aiTodo' = SetAgent(id), Defaults(aiAgents') = {} PROVE ChoosingAgent'
    <3>1. (\E i \in AgentIds : aiTodo = SetAgent(i) /\ Defaults(aiAgents) = {})'
      BY <2>4 DEF SetAgent
    <3> QED
      BY <3>1 DEF ChoosingAgent
  <2>5. ASSUME aiTodo' = <<>>, Defaults(aiAgents') \subseteq {id} PROVE ChoosingAgent'
    <3>1. CASE Defaults(aiAgents') = {}
      BY <2>5, <3>1 DEF ChoosingAgent
    <3>2. CASE Defaults(aiAgents') # {}
      <4>1. Defaults(aiAgents') = {id}
        BY <2>5, <3>2
      <4>2. (\E i \in AgentIds : aiTodo = <<>> /\ Defaults(aiAgents) = {i})'
        BY <2>5, <4>1
      <4> QED
        BY <4>2 DEF ChoosingAgent
    <3> QED
      BY <3>1, <3>2
  <2> QED
    BY <1>2, <2>2, <2>3, <2>4, <2>5
<1> QED
  BY <1>3, <1>4, <1>5, <1>6, <1>7 DEF AiInv, CleanOK

LEMMA ListStatementKeeps ==
  ASSUME AiInv, AiStatement, aiPhase = "refresh"
  PROVE  AiInv'
<1>1. /\ aiTodo # <<>> /\ Executed(Head(aiTodo)) /\ aiTodo' = Tail(aiTodo)
      /\ UNCHANGED <<aiCfg, aiPhase, aiSources, aiFaults, aiClean, aiBefore, aiSeeded, aiReplied>>
  BY StatementFrame
<1>2. /\ IsSequence(aiTodo') /\ Len(aiTodo) \in Nat /\ Len(aiTodo) >= 1
      /\ Len(aiTodo') = Len(aiTodo) - 1 /\ DOMAIN aiTodo = 1..Len(aiTodo)
      /\ DOMAIN aiTodo' = 1..Len(aiTodo')
      /\ \A k \in 1..Len(aiTodo) - 1 : aiTodo'[k] = aiTodo[k + 1]
      /\ Head(aiTodo) = aiTodo[1]
  BY <1>1, SequenceTail, SequenceDomain DEF AiInv, TodoOK
<1>3. Lists(aiTodo[1])
  BY <1>2 DEF AiInv, TodoOK
<1>4. PICK id \in ModelIds : \E at : aiTodo[1] = [op |-> "discovered", id |-> id, row |-> [at |-> at]]
  BY <1>3 DEF Lists
<1>5. PICK at : aiTodo[1] = [op |-> "discovered", id |-> id, row |-> [at |-> at]]
  BY <1>4
<1>6. PICK row : row = [at |-> at, default |-> aiModels[id].default]
  OBVIOUS
<1>7. aiModels' = Written(aiModels, id, row) /\ UNCHANGED <<aiAgents, aiUsage>>
  BY <1>1, <1>2, <1>5, <1>6, ListStatement, SMTT(30)
<1>8. DOMAIN row = {"at", "default"} /\ row.default = aiModels[id].default
  BY <1>6
<1>9. TableOK(aiModels', ModelIds) /\ Defaults(aiModels') = Defaults(aiModels)
  BY <1>7, <1>8, DiscoveredTable DEF AiInv, AiTyped
<1>10. TodoOK'
  <2>1. PICK todo : todo = aiTodo'
    OBVIOUS
  <2>2. \A k \in DOMAIN todo : Lists(todo[k])
    BY <1>1, <1>2, <2>1 DEF AiInv, TodoOK
  <2> QED
    BY <1>1, <1>2, <2>1, <2>2, ZenonT(30) DEF TodoOK, Lists
<1>11. AiTyped'
  BY <1>1, <1>7, <1>9 DEF AiInv, AiTyped
<1>12. UsageOK'
  BY <1>1, <1>7 DEF AiInv, UsageOK
<1>13. aiClean => ModelChosen' /\ AgentChosen'
  BY <1>1, <1>7, <1>9, StatementFrame DEF AiInv, CleanOK, ModelChosen, AgentChosen
<1> QED
  BY <1>1, <1>10, <1>11, <1>12, <1>13 DEF AiInv, CleanOK

LEMMA UsageStatementKeeps ==
  ASSUME AiInv, AiStatement, aiPhase = "reply"
  PROVE  AiInv'
<1>1. /\ aiTodo # <<>> /\ Executed(Head(aiTodo)) /\ aiTodo' = Tail(aiTodo)
      /\ UNCHANGED <<aiCfg, aiPhase, aiSources, aiFaults, aiClean, aiBefore, aiSeeded, aiReplied>>
  BY StatementFrame
<1>2. PICK r : aiTodo = <<RecordUsage(r)>>
  BY <1>1 DEF AiInv, TodoOK
<1>3. Executed(RecordUsage(r)) /\ aiTodo' = <<>>
  <2>1. \A b : Head(<<b>>) = b /\ Tail(<<b>>) = <<>>
    OBVIOUS
  <2> QED
    BY <1>1, <1>2, <2>1
<1>4. aiUsage' = Append(aiUsage, r) /\ UNCHANGED <<aiModels, aiAgents>>
  BY <1>3, UsageStatement
<1>5. UsageOK'
  <2>1. IsSequence(aiUsage') /\ Len(aiUsage) \in Nat /\ Len(aiUsage') = Len(aiUsage) + 1
    BY <1>4, SequenceAppend DEF AiInv, UsageOK
  <2> QED
    BY <1>1, <2>1 DEF AiInv, UsageOK
<1>6. AiTyped'
  BY <1>1, <1>4 DEF AiInv, AiTyped
<1>7. TodoOK'
  BY <1>1, <1>3, SetSequences DEF TodoOK
<1>8. aiClean => ModelChosen' /\ AgentChosen'
  BY <1>1, <1>4, StatementFrame DEF AiInv, CleanOK, ModelChosen, AgentChosen
<1> QED
  BY <1>1, <1>5, <1>6, <1>7, <1>8 DEF AiInv, CleanOK

LEMMA StatementKeeps ==
  ASSUME AiInv, AiStatement
  PROVE  AiInv'
<1>1. aiPhase \notin {"down", "discover", "tie"}
  BY StatementFrame DEF AiInv, TodoOK
<1>2. aiPhase \in {"seed", "defaultModel", "serving", "defaultAgent", "refresh", "reply"}
  BY <1>1 DEF AiInv, AiTyped, Phases
<1> QED
  BY <1>2, SeedStatement, ModelStatementKeeps, AgentStatementKeeps, ListStatementKeeps,
     UsageStatementKeeps

LEMMA StatementFailsKeeps ==
  ASSUME AiInv, AiStatementFails
  PROVE  AiInv'
<1>1. /\ aiFaults' = aiFaults + 1 /\ aiClean' = FALSE /\ aiTodo' = <<>> /\ aiTodo # <<>>
      /\ UNCHANGED <<aiModels, aiAgents, aiUsage, aiCfg, aiReplied>>
      /\ aiSources' = IF aiPhase = "refresh" THEN [todo |-> <<>>, errs |-> TRUE] ELSE aiSources
  BY DEF AiStatementFails, aiHistory, aiTables
<1>2. aiPhase' = "discover" \/ aiPhase' = aiPhase
  BY DEF AiStatementFails
<1>3. AiTyped'
  <2>1. aiSources'.todo \in Seq([provider : STRING, ids : Seq(ModelIds)])
    BY <1>1 DEF AiInv, AiTyped
  <2>2. DOMAIN aiSources' = {"todo", "errs"}
    BY <1>1 DEF AiInv, AiTyped
  <2> QED
    BY <1>1, <1>2, <2>1, <2>2 DEF AiInv, AiTyped, Phases
<1>4. TodoOK'
  BY <1>1, SetSequences DEF TodoOK
<1>5. UsageOK'
  <2>1. Len(aiUsage) \in Nat
    BY SequenceDomain DEF AiInv, UsageOK
  <2> QED
    BY <1>1, <2>1 DEF AiInv, UsageOK
<1> QED
  BY <1>1, <1>3, <1>4, <1>5 DEF AiInv

LEMMA GreatestElement ==
  ASSUME NEW n \in Nat, NEW S, S \subseteq 1..n, S # {}
  PROVE  Max(S) \in S
<1>1. PICK T : T = {n - x : x \in S}
  OBVIOUS
<1>2. T \subseteq Nat /\ T # {}
  <2>1. \A x \in 1..n : n - x \in Nat
    OBVIOUS
  <2> QED
    BY <1>1, <2>1
<1>3. PICK t \in T : \A u \in T : t <= u
  BY <1>2, LeastElement
<1>4. PICK x \in S : t = n - x
  BY <1>1, <1>3
<1>5. \A y \in S : x >= y
  <2> SUFFICES ASSUME NEW y \in S PROVE x >= y
    OBVIOUS
  <2>1. t <= n - y
    BY <1>1, <1>3
  <2>2. x \in 1..n /\ y \in 1..n
    OBVIOUS
  <2> QED
    BY <1>4, <2>1, <2>2
<1> QED
  BY <1>5 DEF Max

\* The statements of the seed.
IsList(f, n) == f = [i \in 1..n |-> f[i]]

\* What is in f, and then what is in g.
BothIn(q, f, n, g, m) ==
  /\ IsSequence(q)
  /\ \A k \in DOMAIN q : (\E i \in 1..n : q[k] = f[i]) \/ (\E i \in 1..m : q[k] = g[i])
  /\ \A i \in 1..n : i \in DOMAIN q /\ q[i] = f[i]

LEMMA TwoLists ==
  ASSUME NEW f, NEW g, NEW n \in Nat, NEW m \in Nat, IsList(f, n), IsList(g, m),
         NEW q, q = f \o g
  PROVE  BothIn(q, f, n, g, m)
<1>1. PICK S : S = {f[i] : i \in 1..n} \cup {g[i] : i \in 1..m}
  OBVIOUS
<1>2. f \in [1..n -> S] /\ g \in [1..m -> S]
  BY <1>1 DEF IsList
<1>3. f \in Seq(S) /\ g \in Seq(S) /\ Len(f) = n /\ Len(g) = m
  BY <1>2
<1>4. /\ f \o g \in Seq(S) /\ Len(f \o g) = n + m
      /\ \A k \in 1..n + m : (f \o g)[k] = IF k <= n THEN f[k] ELSE g[k - n]
  <2>1. /\ f \o g \in Seq(S) /\ Len(f \o g) = Len(f) + Len(g)
        /\ \A k \in 1..Len(f) + Len(g) :
             (f \o g)[k] = IF k <= Len(f) THEN f[k] ELSE g[k - Len(f)]
    BY <1>3, Concatenated
  <2> QED
    BY <1>3, <2>1
<1>5. DOMAIN (f \o g) = 1..n + m
  BY <1>4
<1>6. \A k \in 1..n + m : IF k <= n THEN k \in 1..n ELSE k - n \in 1..m
  OBVIOUS
<1>7. \A i \in 1..n : i \in 1..n + m /\ i <= n
  OBVIOUS
<1>8. ASSUME NEW k \in DOMAIN (f \o g)
      PROVE  \/ \E i \in 1..n : (f \o g)[k] = f[i]
             \/ \E i \in 1..m : (f \o g)[k] = g[i]
  BY <1>4, <1>5, <1>6
<1>9. \A i \in 1..n : i \in DOMAIN (f \o g) /\ (f \o g)[i] = f[i]
  BY <1>4, <1>5, <1>7
<1> QED
  BY <1>4, <1>8, <1>9 DEF BothIn, IsSequence

LEMMA StartKeeps ==
  ASSUME AiInv, NEW cfg \in AiConfigs, AiStart(cfg)
  PROVE  AiInv'
<1>1. /\ aiCfg' = cfg /\ aiPhase' = "seed" /\ aiBefore' = Defaults(aiModels)
      /\ UNCHANGED <<aiModels, aiAgents, aiUsage, aiSources, aiFaults, aiReplied>>
  BY DEF AiStart, aiTables
<1>2. PICK n \in Nat : DOMAIN cfg.models = 1..n
  BY ConfigShape
<1>3. PICK m \in Nat : DOMAIN cfg.agents = 1..m
  <2>1. cfg.agents \in Seq([id : AgentIds, model : ModelIds, default : BOOLEAN])
    BY AiAssumption
  <2>2. ASSUME NEW S, NEW q \in Seq(S)
        PROVE  DOMAIN q = 1..Len(q) /\ Len(q) \in Nat
    OBVIOUS
  <2>3. DOMAIN cfg.agents = 1..Len(cfg.agents) /\ Len(cfg.agents) \in Nat
    BY <2>1, <2>2
  <2> QED
    BY <2>3
<1>4. PICK f : f = [i \in DOMAIN cfg.models |-> UpsertModel(cfg.models[i])]
  OBVIOUS
<1>5. PICK g : g = [i \in DOMAIN cfg.agents |-> UpsertAgent(cfg.agents[i])]
  OBVIOUS
<1>6. PICK todo : todo = aiTodo'
  OBVIOUS
<1>7. todo = f \o g
  BY <1>4, <1>5, <1>6 DEF AiStart
<1>8. /\ IsList(f, n) /\ IsList(g, m)
      /\ \A i \in 1..n : f[i] = UpsertModel(cfg.models[i])
      /\ \A i \in 1..m : g[i] = UpsertAgent(cfg.agents[i])
  BY <1>2, <1>3, <1>4, <1>5 DEF IsList
<1>9. /\ IsSequence(todo)
      /\ \A k \in DOMAIN todo : \/ \E i \in 1..n : todo[k] = f[i]
                                \/ \E i \in 1..m : todo[k] = g[i]
      /\ \A i \in 1..n : i \in DOMAIN todo /\ todo[i] = f[i]
  <2>1. IsList(f, n) /\ IsList(g, m)
    BY <1>8
  <2>2. BothIn(todo, f, n, g, m)
    BY <1>7, <2>1, TwoLists
  <2> QED
    BY <2>2 DEF BothIn
<1>10. \A k \in DOMAIN todo : \/ \E i \in DOMAIN cfg.models : todo[k] = UpsertModel(cfg.models[i])
                              \/ \E i \in DOMAIN cfg.agents : todo[k] = UpsertAgent(cfg.agents[i])
  BY <1>2, <1>3, <1>8, <1>9
<1>11. \A k \in DOMAIN todo : Declares(todo[k])'
  BY <1>1, <1>10 DEF Declares, UpsertModel, UpsertAgent
<1>12. TodoOK'
  <2>1. IsSequence(aiTodo)'
    BY <1>6, <1>9
  <2>2. (\A k \in DOMAIN aiTodo : Declares(aiTodo[k]))'
    BY <1>1, <1>6, <1>10 DEF Declares, UpsertModel, UpsertAgent
  <2> QED
    BY <1>1, <2>1, <2>2 DEF TodoOK
<1>13. SeedOK'
  <2>1. \A i \in DOMAIN cfg.models :
          i \in DOMAIN todo /\ todo[i] = UpsertModel(cfg.models[i])
    BY <1>2, <1>8, <1>9
  <2>2. \A i \in DOMAIN cfg.models :
          \E k \in DOMAIN aiTodo' : aiTodo'[k] = UpsertModel(cfg.models[i])
    BY <1>6, <2>1
  <2> QED
    BY <1>1, <2>2 DEF SeedOK, UpsertModel
<1>14. AiTyped'
  BY <1>1 DEF AiInv, AiTyped, Phases
<1>15. UsageOK'
  BY <1>1 DEF AiInv, UsageOK
<1> QED
  BY <1>1, <1>12, <1>13, <1>14, <1>15 DEF AiInv, CleanOK

\* The least of a table's ids, and the one default of a table that has one.
LEMMA MinOfTable ==
  ASSUME NEW table, NEW ids, TableOK(table, ids), ids \subseteq Nat
  PROVE  /\ Rows(table) # {} => Min(Rows(table)) \in Rows(table)
         /\ Defaults(table) # {} => Min(Defaults(table)) \in Defaults(table)
         /\ Rows(table) \subseteq ids /\ Defaults(table) \subseteq Rows(table)
<1>1. Rows(table) \subseteq ids /\ Defaults(table) \subseteq Rows(table)
  BY DefaultIsRow
<1>2. Rows(table) \subseteq Nat /\ Defaults(table) \subseteq Nat
  BY <1>1
<1> QED
  BY <1>1, <1>2, MinIsElement

LEMMA DefaultModelShape ==
  ASSUME AiInv, aiPhase = "seed", aiTodo = <<>>
  PROVE  /\ DefaultOf(aiCfg.models, aiModels) \subseteq ModelIds
         /\ aiClean => /\ DefaultOf(aiCfg.models, aiModels) = {}
                            => NoneRight /\ Rows(aiModels) = {} /\ Defaults(aiModels) = {}
                       /\ \A id \in DefaultOf(aiCfg.models, aiModels) :
                            id \in Rows(aiModels) /\ Right(id)
<1>1. /\ Rows(aiModels) # {} => Min(Rows(aiModels)) \in Rows(aiModels)
      /\ Defaults(aiModels) # {} => Min(Defaults(aiModels)) \in Defaults(aiModels)
      /\ Rows(aiModels) \subseteq ModelIds /\ Defaults(aiModels) \subseteq Rows(aiModels)
  BY AiAssumption, MinOfTable DEF AiInv, AiTyped
<1>2. PICK declared : declared = DeclaredDefaults(aiCfg.models)
  OBVIOUS
<1>3. declared # {} => Max(declared) \in DOMAIN aiCfg.models
  <2>1. /\ DOMAIN aiCfg.models = 1..Len(aiCfg.models) /\ Len(aiCfg.models) \in Nat
    BY ConfigTyped DEF AiInv, AiTyped
  <2>2. declared \subseteq 1..Len(aiCfg.models)
    BY <1>2, <2>1 DEF DeclaredDefaults
  <2> QED
    BY <2>1, <2>2, GreatestElement
<1>4. declared # {} => LastDeclared(aiCfg.models) \in ModelIds
  BY <1>2, <1>3, ConfigTyped DEF AiInv, AiTyped, LastDeclared
<1>5. aiClean /\ declared # {} => LastDeclared(aiCfg.models) \in Rows(aiModels)
  <2>1. aiClean => \A i \in DOMAIN aiCfg.models : aiCfg.models[i].id \in Rows(aiModels)
    BY DEF AiInv, CleanOK, SeedOK
  <2> QED
    BY <1>2, <1>3, <2>1 DEF LastDeclared
<1>6. aiClean /\ FoundDefault => \E id : aiBefore = {id} /\ Defaults(aiModels) = {id}
  <2> SUFFICES ASSUME aiClean, FoundDefault
               PROVE  \E id : aiBefore = {id} /\ Defaults(aiModels) = {id}
    OBVIOUS
  <2>1. Defaults(aiModels) = aiBefore /\ Cardinality(aiBefore) = 1
    BY DEF AiInv, CleanOK, SeedOK, FoundDefault
  <2>2. IsFiniteSet(aiBefore)
    BY <1>1, <2>1, AiAssumption, FS_Subset
  <2> QED
    BY <2>1, <2>2, FS_Singleton
<1>7. CASE declared # {}
  <2>1. DefaultOf(aiCfg.models, aiModels) = {LastDeclared(aiCfg.models)}
    BY <1>2, <1>7 DEF DefaultOf
  <2>2. ~FoundDefault
    BY <1>2, <1>7 DEF FoundDefault
  <2> QED
    BY <1>4, <1>5, <1>7, <2>1, <2>2 DEF Right
<1>8. CASE declared = {} /\ Defaults(aiModels) # {}
  <2>1. DefaultOf(aiCfg.models, aiModels) = {Min(Defaults(aiModels))}
    BY <1>2, <1>8 DEF DefaultOf
  <2>2. aiClean /\ FoundDefault => aiBefore = {Min(Defaults(aiModels))}
    BY <1>1, <1>6, <1>8
  <2> QED
    BY <1>1, <1>2, <1>8, <2>1, <2>2 DEF Right
<1>9. CASE declared = {} /\ Defaults(aiModels) = {} /\ Rows(aiModels) # {}
  <2>1. DefaultOf(aiCfg.models, aiModels) = {Min(Rows(aiModels))}
    BY <1>2, <1>9 DEF DefaultOf
  <2>2. aiClean => ~FoundDefault
    BY <1>6, <1>9
  <2> QED
    BY <1>1, <1>2, <1>9, <2>1, <2>2 DEF Right
<1>10. CASE declared = {} /\ Defaults(aiModels) = {} /\ Rows(aiModels) = {}
  <2>1. DefaultOf(aiCfg.models, aiModels) = {}
    BY <1>2, <1>10 DEF DefaultOf
  <2>2. aiClean => ~FoundDefault
    BY <1>6, <1>10
  <2> QED
    BY <1>2, <1>10, <2>1, <2>2 DEF NoneRight
<1> QED
  BY <1>7, <1>8, <1>9, <1>10

\* A step that runs no statement.
Passive == UNCHANGED <<aiModels, aiAgents, aiUsage, aiCfg, aiFaults, aiClean, aiBefore>>

LEMMA PassiveKeeps ==
  ASSUME AiInv, Passive
  PROVE  /\ aiPhase' \in Phases /\ UNCHANGED aiSources => AiTyped'
         /\ aiPhase' \in Phases /\ aiSources' = [todo |-> <<>>, errs |-> FALSE] => AiTyped'
         /\ \A e : aiPhase' \in Phases /\ aiSources' = [todo |-> aiCfg.sources, errs |-> e] => AiTyped'
         /\ aiReplied' = aiReplied /\ (aiPhase' = "reply" => aiTodo' # <<>>) => UsageOK'
         /\ aiSeeded' = aiSeeded => (ModelChosen => ModelChosen') /\ (AgentChosen => AgentChosen')
<1>1. /\ UNCHANGED <<aiModels, aiAgents, aiUsage, aiCfg, aiFaults, aiClean, aiBefore>>
      /\ AiTyped /\ UsageOK
  BY DEF Passive, AiInv
<1>2. /\ (NoneRight' <=> NoneRight)
      /\ \A id : (Right(id)' <=> Right(id))
  BY <1>1, RightSame
<1>3. aiSeeded' = aiSeeded => (ModelChosen => ModelChosen')
  BY <1>1, <1>2 DEF ModelChosen
<1>4. AgentChosen => AgentChosen'
  BY <1>1 DEF AgentChosen
<1>5. aiReplied' = aiReplied /\ (aiPhase' = "reply" => aiTodo' # <<>>) => UsageOK'
  BY <1>1 DEF UsageOK
<1>6. aiPhase' \in Phases /\ UNCHANGED aiSources => AiTyped'
  BY <1>1 DEF AiTyped
<1>7. <<>> \in Seq([provider : STRING, ids : Seq(ModelIds)])
  OBVIOUS
<1>8. ASSUME aiPhase' \in Phases, NEW todo \in Seq([provider : STRING, ids : Seq(ModelIds)]),
             NEW e, aiSources' = [todo |-> todo, errs |-> e]
      PROVE  AiTyped'
  BY <1>1, <1>8 DEF AiTyped
<1>9. aiPhase' \in Phases /\ aiSources' = [todo |-> <<>>, errs |-> FALSE] => AiTyped'
  BY <1>7, <1>8
<1>10. aiCfg.sources \in Seq([provider : STRING, ids : Seq(ModelIds)])
  BY <1>1, ConfigTyped DEF AiTyped
<1>11. \A e : aiPhase' \in Phases /\ aiSources' = [todo |-> aiCfg.sources, errs |-> e] => AiTyped'
  BY <1>8, <1>10
<1> QED
  BY <1>3, <1>4, <1>5, <1>6, <1>9, <1>11

LEMMA DefaultModelKeeps ==
  ASSUME AiInv, AiDefaultModel
  PROVE  AiInv'
<1>1. /\ aiPhase = "seed" /\ aiTodo = <<>> /\ aiPhase' = "defaultModel"
      /\ UNCHANGED aiSources /\ aiReplied' = aiReplied /\ aiClean' = aiClean
      /\ Passive /\ aiModels' = aiModels /\ aiSeeded' = (Rows(aiModels) # {})
  BY DEF AiDefaultModel, Passive, aiTables
<1>2. AiTyped' /\ UsageOK'
  BY <1>1, PassiveKeeps DEF Phases
<1>3. /\ (NoneRight' <=> NoneRight)
      /\ \A id : (Right(id)' <=> Right(id))
  BY <1>1, RightSame DEF Passive
<1>4. PICK default : default = DefaultOf(aiCfg.models, aiModels)
  OBVIOUS
<1>5. /\ default \subseteq ModelIds
      /\ aiClean => /\ default = {} => NoneRight /\ Rows(aiModels) = {} /\ Defaults(aiModels) = {}
                    /\ \A id \in default : id \in Rows(aiModels) /\ Right(id)
  BY <1>1, <1>4, DefaultModelShape
<1>6. CASE default = {} /\ aiTodo' = <<>>
  <2>1. TodoOK'
    BY <1>1, <1>6, SetSequences DEF TodoOK
  <2>2. aiClean => ChoosingModel'
    BY <1>1, <1>3, <1>5, <1>6 DEF ChoosingModel
  <2> QED
    BY <1>1, <1>2, <2>1, <2>2 DEF AiInv, CleanOK
<1>7. CASE \E id \in default : aiTodo' = SetModelDefault(id)
  <2>1. PICK id \in default : aiTodo' = SetModelDefault(id)
    BY <1>7
  <2>2. (\E i \in ModelIds : aiTodo \in {SetModelDefault(i), SetModel(i)})'
    BY <1>5, <2>1 DEF SetModelDefault
  <2>3. IsSequence(aiTodo')
    BY <2>1, SetSequences
  <2>4. TodoOK'
    BY <1>1, <2>2, <2>3 DEF TodoOK
  <2>5. aiClean => ChoosingModel'
    <3> SUFFICES ASSUME aiClean PROVE ChoosingModel'
      OBVIOUS
    <3>1. id \in Rows(aiModels) /\ Right(id) /\ id \in ModelIds
      BY <1>5
    <3>2. SettingModel(id)'
      BY <1>1, <2>1, <3>1 DEF SettingModel, SetModelDefault
    <3>3. aiSeeded'
      BY <1>1, <3>1
    <3> QED
      BY <1>3, <3>1, <3>2, <3>3 DEF ChoosingModel
  <2> QED
    BY <1>1, <1>2, <2>4, <2>5 DEF AiInv, CleanOK
<1> QED
  BY <1>4, <1>6, <1>7 DEF AiDefaultModel

LEMMA DefaultAgentKeeps ==
  ASSUME AiInv, AiDefaultAgent
  PROVE  AiInv'
<1>1. /\ aiPhase = "defaultModel" /\ aiTodo = <<>> /\ aiPhase' = "defaultAgent"
      /\ UNCHANGED aiSources /\ aiReplied' = aiReplied /\ aiClean' = aiClean
      /\ Passive /\ aiSeeded' = aiSeeded /\ aiAgents' = aiAgents
  BY DEF AiDefaultAgent, Passive, aiTables, aiHistory
<1>2. /\ AiTyped' /\ UsageOK' /\ (ModelChosen => ModelChosen')
  BY <1>1, PassiveKeeps DEF Phases
<1>3. aiClean => ModelChosen
  <2> SUFFICES ASSUME aiClean PROVE ModelChosen
    OBVIOUS
  <2>1. ChoosingModel
    BY <1>1 DEF AiInv, CleanOK
  <2>2. \A id : SettingModel(id) => Defaults(aiModels) = {id}
    BY <1>1, SettingShapes DEF SettingModel
  <2> QED
    BY <2>1, <2>2 DEF ChoosingModel, ModelChosen
<1>4. PICK default : default = DefaultOf(aiCfg.agents, aiAgents)
  OBVIOUS
<1>5. /\ default \subseteq AgentIds
      /\ default = {} => Defaults(aiAgents) = {}
  <2>1. /\ Rows(aiAgents) # {} => Min(Rows(aiAgents)) \in Rows(aiAgents)
        /\ Defaults(aiAgents) # {} => Min(Defaults(aiAgents)) \in Defaults(aiAgents)
        /\ Rows(aiAgents) \subseteq AgentIds /\ Defaults(aiAgents) \subseteq Rows(aiAgents)
    BY AiAssumption, MinOfTable DEF AiInv, AiTyped
  <2>2. PICK declared : declared = DeclaredDefaults(aiCfg.agents)
    OBVIOUS
  <2>3. declared # {} => LastDeclared(aiCfg.agents) \in AgentIds
    <3>1. PICK q : q = aiCfg.agents
      OBVIOUS
    <3>2. q \in Seq([id : AgentIds, model : ModelIds, default : BOOLEAN])
      BY <3>1, AiAssumption DEF AiInv, AiTyped
    <3>3. DOMAIN q = 1..Len(q) /\ Len(q) \in Nat
      BY <3>2
    <3>4. declared \subseteq 1..Len(q)
      BY <2>2, <3>1, <3>3 DEF DeclaredDefaults
    <3>5. declared # {} => Max(declared) \in DOMAIN q
      BY <3>3, <3>4, GreatestElement
    <3>6. \A i \in DOMAIN q : q[i].id \in AgentIds
      BY <3>1, ConfigTyped DEF AiInv, AiTyped
    <3> QED
      BY <2>2, <3>1, <3>5, <3>6 DEF LastDeclared
  <2>4. \/ declared # {} /\ default = {LastDeclared(aiCfg.agents)}
        \/ Defaults(aiAgents) # {} /\ default = {Min(Defaults(aiAgents))}
        \/ Defaults(aiAgents) = {} /\ Rows(aiAgents) # {} /\ default = {Min(Rows(aiAgents))}
        \/ Defaults(aiAgents) = {} /\ default = {}
    BY <1>4, <2>2 DEF DefaultOf
  <2> QED
    BY <2>1, <2>3, <2>4
<1>6. CASE default = {} /\ aiTodo' = <<>>
  <2>1. TodoOK'
    BY <1>1, <1>6, SetSequences DEF TodoOK
  <2>2. ChoosingAgent'
    BY <1>1, <1>5, <1>6 DEF ChoosingAgent
  <2> QED
    BY <1>1, <1>2, <1>3, <2>1, <2>2 DEF AiInv, CleanOK
<1>7. CASE \E id \in default : aiTodo' = SetAgentDefault(id)
  <2>1. PICK id \in AgentIds : aiTodo' = SetAgentDefault(id)
    BY <1>5, <1>7
  <2>2. (\E i \in AgentIds : aiTodo = SetAgentDefault(i))'
    BY <2>1 DEF SetAgentDefault
  <2>3. IsSequence(aiTodo')
    BY <2>1, SetSequences
  <2>4. TodoOK'
    BY <1>1, <2>2, <2>3 DEF TodoOK
  <2>5. ChoosingAgent'
    BY <2>2 DEF ChoosingAgent
  <2> QED
    BY <1>1, <1>2, <1>3, <2>4, <2>5 DEF AiInv, CleanOK
<1> QED
  BY <1>4, <1>6, <1>7 DEF AiDefaultAgent

LEMMA SeedEndsKeeps ==
  ASSUME AiInv, AiSeedEnds
  PROVE  AiInv'
<1>1. /\ aiPhase = "defaultAgent" /\ aiTodo = <<>> /\ aiPhase' = "discover" /\ aiTodo' = <<>>
      /\ UNCHANGED aiSources /\ aiReplied' = aiReplied /\ aiClean' = aiClean
      /\ Passive /\ aiSeeded' = aiSeeded
  BY DEF AiSeedEnds, Passive, aiTables, aiHistory
<1>2. /\ AiTyped' /\ UsageOK' /\ (ModelChosen => ModelChosen') /\ (AgentChosen => AgentChosen')
  BY <1>1, PassiveKeeps DEF Phases
<1>3. TodoOK'
  BY <1>1, SetSequences DEF TodoOK
<1>4. aiClean => ModelChosen /\ ChoosingAgent
  BY <1>1 DEF AiInv, CleanOK
<1>5. ChoosingAgent => AgentChosen
  BY <1>1, SettingShapes DEF ChoosingAgent, AgentChosen
<1> QED
  BY <1>1, <1>2, <1>3, <1>4, <1>5 DEF AiInv, CleanOK

LEMMA DiscoverKeeps ==
  ASSUME AiInv, AiDiscover
  PROVE  AiInv'
<1>1. /\ aiPhase = "discover" /\ aiTodo' = aiTodo /\ aiTodo = <<>> /\ aiReplied' = aiReplied
      /\ aiClean' = aiClean /\ Passive /\ aiSeeded' = aiSeeded
  BY DEF AiDiscover, Passive, aiTables, aiHistory, AiInv, TodoOK
<1>2. \/ aiPhase' = "refresh" /\ aiSources' = [todo |-> aiCfg.sources, errs |-> FALSE]
      \/ aiPhase' = "tie" /\ UNCHANGED aiSources
  BY DEF AiDiscover
<1>3. aiPhase' \in Phases
  BY <1>2 DEF Phases
<1>4. AiTyped' /\ UsageOK' /\ (ModelChosen => ModelChosen') /\ (AgentChosen => AgentChosen')
  <2>1. aiPhase' # "reply"
    BY <1>2
  <2> QED
    BY <1>1, <1>2, <1>3, <2>1, PassiveKeeps
<1>5. TodoOK'
  <2>1. \A k \in DOMAIN <<>> : FALSE
    OBVIOUS
  <2> QED
    BY <1>1, <1>2, <2>1, SetSequences DEF TodoOK
<1>6. aiClean => ModelChosen /\ AgentChosen
  BY <1>1 DEF AiInv, CleanOK
<1> QED
  BY <1>1, <1>2, <1>4, <1>5, <1>6 DEF AiInv, CleanOK

LEMMA FetchedKeeps ==
  ASSUME AiInv, AiFetched
  PROVE  AiInv'
<1>1. /\ aiPhase = "refresh" /\ aiTodo' = aiTodo /\ aiTodo = <<>> /\ aiReplied' = aiReplied
      /\ aiClean' = aiClean /\ Passive /\ aiSeeded' = aiSeeded /\ UNCHANGED aiSources
  BY DEF AiFetched, Passive, aiTables, aiHistory
<1>2. aiPhase' \in {"serving", "discover"}
  BY DEF AiFetched
<1>3. AiTyped' /\ UsageOK' /\ (ModelChosen => ModelChosen') /\ (AgentChosen => AgentChosen')
  BY <1>1, <1>2, PassiveKeeps DEF Phases
<1>4. TodoOK'
  BY <1>1, <1>2, SetSequences DEF TodoOK
<1>5. aiClean => ModelChosen /\ AgentChosen
  BY <1>1 DEF AiInv, CleanOK
<1>6. Tying'
  BY <1>1 DEF Tying
<1> QED
  BY <1>1, <1>2, <1>3, <1>4, <1>5, <1>6 DEF AiInv, CleanOK

LEMMA FetchKeeps ==
  ASSUME AiInv, AiFetch
  PROVE  AiInv'
<1>1. /\ aiPhase = "refresh" /\ aiPhase' = "refresh" /\ aiReplied' = aiReplied
      /\ aiClean' = aiClean /\ Passive /\ aiSeeded' = aiSeeded /\ aiSources.todo # <<>>
  BY DEF AiFetch, Passive, aiTables, aiHistory
<1>2. UsageOK' /\ (ModelChosen => ModelChosen') /\ (AgentChosen => AgentChosen')
  BY <1>1, PassiveKeeps
<1>3. PICK todo : todo = aiSources.todo
  OBVIOUS
<1>4. PICK src : src = Head(todo)
  OBVIOUS
<1>5. /\ Tail(todo) \in Seq([provider : STRING, ids : Seq(ModelIds)])
      /\ src \in [provider : STRING, ids : Seq(ModelIds)]
  <2>1. ASSUME NEW S, NEW q \in Seq(S), q # <<>>
        PROVE  Tail(q) \in Seq(S) /\ Head(q) \in S
    <3>1. Len(q) \in Nat /\ Len(q) >= 1 /\ \A i \in 1..Len(q) : q[i] \in S
      BY <2>1
    <3>2. Head(q) = q[1] /\ Tail(q) \in Seq(S)
      BY <2>1
    <3> QED
      BY <3>1, <3>2
  <2>2. todo \in Seq([provider : STRING, ids : Seq(ModelIds)]) /\ todo # <<>>
    BY <1>1, <1>3 DEF AiInv, AiTyped
  <2> QED
    BY <1>4, <2>1, <2>2
<1>6. PICK ids \in Seq(ModelIds) : ids = src.ids
  BY <1>5
<1>7. PICK n \in Nat : DOMAIN ids = 1..n
  BY <1>6
<1>8. PICK list : list = [i \in 1..n |-> [op |-> "discovered", id |-> ids[i],
                                          row |-> [at |-> StoredAt(src)]]]
  OBVIOUS
<1>9. aiTodo' = list \/ aiTodo' = <<>>
  BY <1>3, <1>4, <1>6, <1>7, <1>8 DEF AiFetch
<1>10. DOMAIN aiSources' = {"todo", "errs"} /\ aiSources'.todo = Tail(todo)
  BY <1>3 DEF AiFetch, AiInv, AiTyped
<1>11. AiTyped'
  BY <1>1, <1>5, <1>10 DEF AiInv, AiTyped, Passive
<1>12. IsSequence(list) /\ DOMAIN list = 1..n /\ \A k \in 1..n : Lists(list[k])
  <2>1. \A k \in 1..n : /\ ids[k] \in ModelIds
                        /\ list[k] = [op |-> "discovered", id |-> ids[k],
                                      row |-> [at |-> StoredAt(src)]]
    BY <1>6, <1>7, <1>8
  <2>2. \A k \in 1..n : Lists(list[k])
    BY <2>1 DEF Lists
  <2>3. PICK S : S = {list[k] : k \in 1..n}
    OBVIOUS
  <2>4. list \in [1..n -> S]
    BY <1>8, <2>3
  <2>5. list \in Seq(S)
    BY <2>4
  <2> QED
    BY <1>8, <2>2, <2>5 DEF IsSequence
<1>13. TodoOK'
  <2>1. CASE aiTodo' = <<>>
    BY <1>1, <2>1, SetSequences DEF TodoOK
  <2>2. CASE aiTodo' = list
    <3>1. (\A k \in DOMAIN aiTodo : Lists(aiTodo[k]))'
      BY <1>12, <2>2 DEF Lists
    <3>2. IsSequence(aiTodo')
      BY <1>12, <2>2
    <3> QED
      BY <1>1, <3>1, <3>2 DEF TodoOK
  <2> QED
    BY <1>9, <2>1, <2>2
<1>14. aiClean => ModelChosen /\ AgentChosen
  BY <1>1 DEF AiInv, CleanOK
<1> QED
  BY <1>1, <1>2, <1>11, <1>13, <1>14 DEF AiInv, CleanOK

LEMMA TieKeeps ==
  ASSUME AiInv, AiTie
  PROVE  AiInv'
<1>1. /\ aiPhase = "tie" /\ aiPhase' = "serving" /\ aiReplied' = aiReplied
      /\ aiClean' = aiClean /\ Passive /\ aiSeeded' = aiSeeded /\ UNCHANGED aiSources
      /\ aiModels' = aiModels
  BY DEF AiTie, Passive, aiTables, aiHistory
<1>2. AiTyped' /\ UsageOK' /\ (ModelChosen => ModelChosen') /\ (AgentChosen => AgentChosen')
  BY <1>1, PassiveKeeps DEF Phases
<1>3. aiClean => ModelChosen /\ AgentChosen
  BY <1>1 DEF AiInv, CleanOK
<1>4. CASE aiTodo' = <<>>
  <2>1. TodoOK'
    BY <1>1, <1>4, SetSequences DEF TodoOK
  <2>2. Tying'
    BY <1>4 DEF Tying
  <2> QED
    BY <1>1, <1>2, <1>3, <2>1, <2>2 DEF AiInv, CleanOK
<1>5. CASE aiTodo' # <<>>
  <2>1. PICK m : m \in Rows(aiModels) /\ aiTodo' = SetModelDefault(m) /\ Defaults(aiModels) = {}
    BY <1>5 DEF AiTie
  <2>2. m \in ModelIds
    BY <2>1, DefaultIsRow DEF AiInv, AiTyped
  <2>3. (\E i \in ModelIds : aiTodo \in {SetModelDefault(i), SetModel(i)})'
    BY <2>1, <2>2 DEF SetModelDefault
  <2>4. IsSequence(aiTodo')
    BY <2>1, SetSequences
  <2>5. TodoOK'
    BY <1>1, <2>3, <2>4 DEF TodoOK
  <2>6. SettingModel(m)'
    BY <1>1, <2>1 DEF SettingModel, SetModelDefault
  <2>7. ModelChosen => ~aiSeeded
    BY <2>1 DEF ModelChosen
  <2>8. aiClean => Tying'
    <3> SUFFICES ASSUME aiClean PROVE Tying'
      OBVIOUS
    <3>1. ~aiSeeded' /\ (Defaults(aiModels) = {})'
      BY <1>1, <1>3, <2>1, <2>7
    <3>2. (\E i \in ModelIds : SettingModel(i))'
      BY <2>2, <2>6
    <3> QED
      BY <3>1, <3>2 DEF Tying
  <2> QED
    BY <1>1, <1>2, <1>3, <2>5, <2>8 DEF AiInv, CleanOK
<1> QED
  BY <1>4, <1>5

LEMMA ChatKeeps ==
  ASSUME AiInv, NEW r, AiChat(r)
  PROVE  AiInv'
<1>1. /\ aiPhase = "serving" /\ aiPhase' = "reply" /\ aiReplied' = aiReplied
      /\ aiClean' = aiClean /\ Passive /\ aiSeeded' = aiSeeded /\ UNCHANGED aiSources
  BY DEF AiChat, Passive, aiTables, aiHistory
<1>2. PICK row : aiTodo' = <<RecordUsage(row)>>
  BY DEF AiChat
<1>3. AiTyped' /\ UsageOK' /\ (ModelChosen => ModelChosen') /\ (AgentChosen => AgentChosen')
  <2>1. aiTodo' # <<>>
    BY <1>2
  <2> QED
    BY <1>1, <2>1, PassiveKeeps DEF Phases
<1>4. TodoOK'
  <2>1. IsSequence(aiTodo')
    BY <1>2, ShortSequences
  <2>2. (\E u : aiTodo = <<RecordUsage(u)>>)'
    BY <1>2 DEF RecordUsage
  <2> QED
    BY <1>1, <2>1, <2>2 DEF TodoOK
<1>5. aiClean => ModelChosen /\ AgentChosen
  BY <1>1 DEF AiInv, CleanOK
<1> QED
  BY <1>1, <1>3, <1>4, <1>5 DEF AiInv, CleanOK

LEMMA ReplyKeeps ==
  ASSUME AiInv, AiReply
  PROVE  AiInv'
<1>1. /\ aiPhase = "reply" /\ aiTodo = <<>> /\ aiPhase' = "serving" /\ aiReplied' = aiReplied + 1
      /\ aiTodo' = <<>> /\ aiUsage' = aiUsage /\ aiFaults' = aiFaults
      /\ aiClean' = aiClean /\ Passive /\ aiSeeded' = aiSeeded /\ UNCHANGED aiSources
  BY DEF AiReply, Passive, aiTables
<1>2. AiTyped' /\ (ModelChosen => ModelChosen') /\ (AgentChosen => AgentChosen')
  BY <1>1, PassiveKeeps DEF Phases
<1>3. UsageOK'
  <2>1. /\ IsSequence(aiUsage) /\ aiFaults \in Nat /\ aiReplied \in Nat
        /\ Len(aiUsage) + aiFaults >= aiReplied + 1
    BY <1>1 DEF AiInv, UsageOK
  <2> QED
    BY <1>1, <2>1 DEF UsageOK
<1>4. TodoOK'
  BY <1>1, SetSequences DEF TodoOK
<1>5. aiClean => ModelChosen /\ AgentChosen
  BY <1>1 DEF AiInv, CleanOK
<1>6. Tying'
  BY <1>1 DEF Tying
<1> QED
  BY <1>1, <1>2, <1>3, <1>4, <1>5, <1>6 DEF AiInv, CleanOK

LEMMA RefreshKeeps ==
  ASSUME AiInv, AiRefresh
  PROVE  AiInv'
<1>1. /\ aiPhase = "serving" /\ aiTodo' = <<>> /\ aiPhase' = "refresh" /\ aiReplied' = aiReplied
      /\ aiClean' = aiClean /\ Passive /\ aiSeeded' = aiSeeded
      /\ aiSources' = [todo |-> aiCfg.sources, errs |-> FALSE]
  BY DEF AiRefresh, Passive, aiTables, aiHistory
<1>2. AiTyped' /\ UsageOK' /\ (ModelChosen => ModelChosen') /\ (AgentChosen => AgentChosen')
  BY <1>1, PassiveKeeps DEF Phases
<1>3. TodoOK'
  BY <1>1, SetSequences DEF TodoOK
<1>4. aiClean => ModelChosen /\ AgentChosen
  BY <1>1 DEF AiInv, CleanOK
<1> QED
  BY <1>1, <1>2, <1>3, <1>4 DEF AiInv, CleanOK

LEMMA AiCrashKeeps ==
  ASSUME AiInv, AiCrash
  PROVE  AiInv'
<1>1. /\ aiPhase' = "down" /\ aiTodo' = <<>> /\ aiReplied' = aiReplied
      /\ aiClean' = aiClean /\ Passive /\ aiSources' = [todo |-> <<>>, errs |-> FALSE]
  BY DEF AiCrash, Passive, aiTables, aiHistory
<1>2. AiTyped' /\ UsageOK'
  BY <1>1, PassiveKeeps DEF Phases
<1>3. TodoOK'
  BY <1>1, SetSequences DEF TodoOK
<1> QED
  BY <1>1, <1>2, <1>3 DEF AiInv, CleanOK

LEMMA AiStarts == AiInit => AiInv
<1> SUFFICES ASSUME AiInit PROVE AiInv
  OBVIOUS
<1>1. aiPhase = "down" /\ aiTodo = <<>> /\ aiUsage = <<>> /\ aiFaults = 0 /\ aiReplied = 0
  BY DEF AiInit
<1>2. AiTyped
  BY DEF AiInit, AiTyped, TableOK, RowOK, Phases
<1>3. UsageOK
  BY <1>1, EmptySequence DEF UsageOK
<1>4. TodoOK
  BY <1>1, SetSequences DEF TodoOK
<1> QED
  BY <1>1, <1>2, <1>3, <1>4 DEF AiInv, CleanOK

LEMMA AiStays ==
  ASSUME AiInv, UNCHANGED aiVars
  PROVE  AiInv'
<1>1. /\ UNCHANGED <<aiModels, aiAgents, aiUsage, aiCfg, aiPhase, aiTodo, aiSources, aiFaults,
                     aiClean, aiBefore, aiSeeded, aiReplied>>
  BY DEF aiVars, aiTables, aiHistory
<1>2. /\ (NoneRight' <=> NoneRight)
      /\ (FoundDefault' <=> FoundDefault)
      /\ \A id : (Right(id)' <=> Right(id))
  BY <1>1, RightSame
<1>3. AiTyped' /\ UsageOK'
  BY <1>1 DEF AiInv, AiTyped, UsageOK
<1>4. TodoOK'
  BY <1>1 DEF AiInv, TodoOK, Declares, Lists
<1>5. aiClean => CleanOK'
  BY <1>1, <1>2 DEF AiInv, CleanOK, SeedOK, ChoosingModel, ChoosingAgent, ModelChosen,
                    AgentChosen, Tying, SettingModel
<1> QED
  BY <1>1, <1>3, <1>4, <1>5 DEF AiInv

LEMMA AiStep == AiInv /\ [AiNext]_aiVars => AiInv'
BY StartKeeps, StatementKeeps, StatementFailsKeeps, DefaultModelKeeps, DefaultAgentKeeps,
   SeedEndsKeeps, DiscoverKeeps, FetchKeeps, FetchedKeeps, TieKeeps, ChatKeeps, ReplyKeeps,
   RefreshKeeps, AiCrashKeeps, AiStays DEF AiNext

LEMMA AiInvKeepsDefaults == AiInv => DefaultsAreKept
<1> SUFFICES ASSUME AiInv PROVE DefaultsAreKept
  OBVIOUS
<1>1. Len(aiUsage) >= aiReplied - aiFaults
  <2>1. /\ Len(aiUsage) \in Nat /\ aiFaults \in Nat /\ aiReplied \in Nat
        /\ Len(aiUsage) + aiFaults >= aiReplied
    BY SequenceDomain DEF AiInv, UsageOK
  <2> QED
    BY <2>1
<1>2. ASSUME aiPhase = "serving", aiTodo = <<>>, aiClean
      PROVE  /\ Cardinality(Defaults(aiModels)) \in (IF aiSeeded THEN {1} ELSE {0, 1})
             /\ Cardinality(Defaults(aiAgents)) <= 1
             /\ IF DeclaredDefaults(aiCfg.models) # {}
                  THEN Defaults(aiModels) = {LastDeclared(aiCfg.models)}
                ELSE Cardinality(aiBefore) = 1 /\ aiBefore \cap Again = {}
                       => Defaults(aiModels) = aiBefore
  <2>1. ModelChosen /\ AgentChosen
    BY <1>2 DEF AiInv, CleanOK
  <2>2. /\ Cardinality({}) = 0
        /\ \A id : Cardinality({id}) = 1
    BY FS_EmptySet, FS_Singleton
  <2>3. Cardinality(Defaults(aiModels)) \in (IF aiSeeded THEN {1} ELSE {0, 1})
    BY <2>1, <2>2 DEF ModelChosen
  <2>4. Cardinality(Defaults(aiAgents)) <= 1
    BY <2>1, <2>2 DEF AgentChosen
  <2>5. \/ \E id : Right(id) /\ Defaults(aiModels) = {id}
        \/ NoneRight
    BY <2>1 DEF ModelChosen
  <2>6. IF DeclaredDefaults(aiCfg.models) # {}
          THEN Defaults(aiModels) = {LastDeclared(aiCfg.models)}
        ELSE Cardinality(aiBefore) = 1 /\ aiBefore \cap Again = {}
               => Defaults(aiModels) = aiBefore
    BY <2>5 DEF Right, NoneRight, FoundDefault
  <2> QED
    BY <2>3, <2>4, <2>6
<1> QED
  BY <1>1, <1>2 DEF DefaultsAreKept, Again

\* However starts, statements, refusals and crashes interleave: a clean life of the ai
\* plugin serves with the one default the configuration or its database calls for, and
\* no completion it answered lacks its row of usage but for the rows refused.
THEOREM DefaultsHold == AiSpec => []DefaultsAreKept
<1>1. AiInit => AiInv
  BY AiStarts
<1>2. AiInv /\ [AiNext]_aiVars => AiInv'
  BY AiStep
<1>3. AiInv => DefaultsAreKept
  BY AiInvKeepsDefaults
<1> QED
  BY <1>1, <1>2, <1>3, PTL DEF AiSpec

-----------------------------------------------------------------------------
(* Cloud: an answer is that of the call made for the request                *)

SecretAnswers == [status : {200}, key : VaultKeys] \cup {[status |-> 0]}
Answers == SecretAnswers \cup HttpAnswers
CloudKeys == {a.key : a \in Answers} \cup {NoKey, FromEnv}

CallType ==
  [kind : {"secret", "http"}, id : Nat, key : CloudKeys,
   at : {Endpoint(r) : r \in CloudRequests}, handle : {r.keyEnv : r \in CloudRequests},
   answered : BOOLEAN, got : Answers \cup {NothingYet}, from : Nat]

FrameType == [kind : {"request"}, id : Nat] \cup [kind : {"answer"}, call : Nat, answer : Answers]

Results == {<<>>} \cup {ParsedCloud(r, a) : r \in CloudRequests, a \in Answers}
ReplyType == [id : Nat, result : Results, call : Nat]

NowType == [pc : {"idle"}] \cup [pc : {"secret", "http"}, id : Nat, call : Nat]

CloudTyped ==
  /\ cloudSent \in Seq(CloudRequests)
  /\ cloudCalls \in Seq(CallType)
  /\ cloudInbound \in Seq(FrameType)
  /\ cloudReplies \in Seq(ReplyType)
  /\ cloudNow \in NowType
  /\ cloudVault \in VaultKeys

\* A request waits, is served, has been replied to, or was discarded.
Waits(id) == \E k \in 1..Len(cloudInbound) :
               cloudInbound[k].kind = "request" /\ cloudInbound[k].id = id
Serves(id) == cloudNow.pc # "idle" /\ cloudNow.id = id
HasReply(id) == \E k \in 1..Len(cloudReplies) : cloudReplies[k].id = id

\* The HTTP request for it has been sent.
CallMade(id) == \E n \in 1..Len(cloudCalls) : cloudCalls[n].kind = "http" /\ cloudCalls[n].id = id

WaitsOnce ==
  \A j, k \in 1..Len(cloudInbound) :
    (/\ cloudInbound[j].kind = "request" /\ cloudInbound[k].kind = "request"
     /\ cloudInbound[j].id = cloudInbound[k].id) => j = k

StagesOK ==
  /\ \A id : Waits(id) \/ Serves(id) \/ HasReply(id) \/ id \in cloudMissed
               => id \in 1..Len(cloudSent)
  /\ \A id \in 1..Len(cloudSent) :
       Waits(id) \/ Serves(id) \/ HasReply(id) \/ id \in cloudMissed
  /\ \A id : Waits(id) =>
       ~Serves(id) /\ ~HasReply(id) /\ id \notin cloudMissed /\ ~CallMade(id)
  /\ \A id : Serves(id) => ~HasReply(id) /\ id \notin cloudMissed
  /\ \A id : HasReply(id) => id \notin cloudMissed

CallsOK ==
  /\ \A n \in 1..Len(cloudCalls) :
       /\ cloudCalls[n].id \in 1..Len(cloudSent)
       /\ cloudCalls[n].at = Endpoint(cloudSent[cloudCalls[n].id])
       /\ cloudCalls[n].handle \in AllowedKeyEnvs
       /\ cloudCalls[n].kind = "http" => KeyIsRight(n)
  /\ \A m, n \in 1..Len(cloudCalls) :
       (/\ cloudCalls[m].kind = "http" /\ cloudCalls[n].kind = "http"
        /\ cloudCalls[m].id = cloudCalls[n].id) => m = n
  /\ cloudNow.pc # "idle" =>
       /\ cloudNow.call = Len(cloudCalls) /\ cloudNow.call \in 1..Len(cloudCalls)
       /\ cloudCalls[cloudNow.call].kind = cloudNow.pc
       /\ cloudCalls[cloudNow.call].id = cloudNow.id
       /\ cloudNow.id \in 1..Len(cloudSent)
       /\ cloudSent[cloudNow.id].keyEnv \in AllowedKeyEnvs
  /\ cloudNow.pc = "secret" => ~CallMade(cloudNow.id)

\* A reply with a result is that of the HTTP request it names, and made of its answer.
Given(reply) ==
  /\ reply.call \in 1..Len(cloudCalls)
  /\ cloudCalls[reply.call].kind = "http" /\ cloudCalls[reply.call].id = reply.id
  /\ cloudCalls[reply.call].got.status \in 200..299
  /\ cloudCalls[reply.call].from = reply.call

RepliesOK ==
  /\ \A k \in 1..Len(cloudReplies) :
       cloudReplies[k].result # <<>> => Given(cloudReplies[k])
  /\ \A j, k \in 1..Len(cloudReplies) : cloudReplies[j].id = cloudReplies[k].id => j = k

CloudInv == CloudTyped /\ WaitsOnce /\ StagesOK /\ CallsOK /\ RepliesOK

-----------------------------------------------------------------------------
\* While no call is heard and nothing is answered, the replies are as right as before.
LEMMA RepliesUntouched ==
  ASSUME RepliesOK, UNCHANGED <<cloudCalls, cloudReplies>>
  PROVE  RepliesOK'
<1>1. cloudCalls' = cloudCalls /\ cloudReplies' = cloudReplies
  OBVIOUS
<1>2. \A reply : Given(reply)' <=> Given(reply)
  BY <1>1 DEF Given
<1> QED
  BY <1>1, <1>2 DEF RepliesOK

LEMMA NowFields ==
  ASSUME CloudTyped
  PROVE  /\ cloudNow.pc \in {"idle", "secret", "http"}
         /\ cloudNow.pc # "idle" => cloudNow.id \in Nat /\ cloudNow.call \in Nat
         /\ cloudNow # Idle <=> cloudNow.pc # "idle"
<1>1. CASE cloudNow \in [pc : {"idle"}]
  <2>1. cloudNow = Idle
    BY <1>1 DEF Idle
  <2> QED
    BY <2>1 DEF Idle
<1>2. CASE cloudNow \in [pc : {"secret", "http"}, id : Nat, call : Nat]
  BY <1>2 DEF Idle
<1> QED
  BY <1>1, <1>2 DEF CloudTyped, NowType

\* One frame is taken from the front.
LEMMA TakeFrame ==
  ASSUME CloudTyped, WaitsOnce, cloudInbound # <<>>, cloudInbound' = Tail(cloudInbound)
  PROVE  /\ Head(cloudInbound) \in FrameType
         /\ cloudInbound' \in Seq(FrameType) /\ WaitsOnce'
         /\ Head(cloudInbound).kind = "request" =>
              /\ Waits(Head(cloudInbound).id)
              /\ \A id : Waits(id)' <=> Waits(id) /\ id # Head(cloudInbound).id
         /\ Head(cloudInbound).kind # "request" => \A id : Waits(id)' <=> Waits(id)
<1> DEFINE L == Len(cloudInbound)
<1>1. /\ L \in Nat /\ L >= 1 /\ Head(cloudInbound) = cloudInbound[1]
      /\ cloudInbound' \in Seq(FrameType) /\ Len(cloudInbound') = L - 1
      /\ \A k \in 1..L-1 : cloudInbound'[k] = cloudInbound[k + 1]
      /\ cloudInbound[1] \in FrameType
  BY DEF CloudTyped
<1>2. WaitsOnce'
  <2> SUFFICES ASSUME NEW j \in 1..L-1, NEW k \in 1..L-1,
                      cloudInbound'[j].kind = "request", cloudInbound'[k].kind = "request",
                      cloudInbound'[j].id = cloudInbound'[k].id
               PROVE  j = k
    BY <1>1 DEF WaitsOnce
  <2>1. j + 1 \in 1..L /\ k + 1 \in 1..L
    BY <1>1
  <2>2. j + 1 = k + 1
    BY <1>1, <2>1 DEF WaitsOnce
  <2> QED
    BY <2>2
<1>3. ASSUME NEW id, Waits(id)'
      PROVE  Waits(id) /\ ~(Head(cloudInbound).kind = "request" /\ Head(cloudInbound).id = id)
  <2>1. PICK k \in 1..L-1 : cloudInbound'[k].kind = "request" /\ cloudInbound'[k].id = id
    BY <1>1, <1>3 DEF Waits
  <2>2. k + 1 \in 1..L /\ 1 \in 1..L /\ k + 1 # 1
    BY <1>1
  <2>3. cloudInbound[k + 1].kind = "request" /\ cloudInbound[k + 1].id = id
    BY <1>1, <2>1
  <2> QED
    BY <1>1, <2>2, <2>3 DEF Waits, WaitsOnce
<1>4. ASSUME NEW id, Waits(id), ~(Head(cloudInbound).kind = "request" /\ Head(cloudInbound).id = id)
      PROVE  Waits(id)'
  <2>1. PICK k \in 1..L : cloudInbound[k].kind = "request" /\ cloudInbound[k].id = id
    BY <1>4 DEF Waits
  <2>2. k # 1
    BY <1>1, <1>4, <2>1
  <2>3. k - 1 \in 1..L-1 /\ cloudInbound'[k - 1] = cloudInbound[k]
    BY <1>1, <2>2
  <2> QED
    BY <1>1, <2>1, <2>3 DEF Waits
<1>5. Head(cloudInbound).kind = "request" => Waits(Head(cloudInbound).id)
  BY <1>1 DEF Waits
<1> QED
  BY <1>1, <1>2, <1>3, <1>4, <1>5

\* One frame is added at the end.
LEMMA AddFrame ==
  ASSUME CloudTyped, WaitsOnce, NEW f \in FrameType, cloudInbound' = Append(cloudInbound, f),
         f.kind = "request" => ~Waits(f.id)
  PROVE  /\ cloudInbound' \in Seq(FrameType) /\ WaitsOnce'
         /\ \A id : Waits(id)' <=> Waits(id) \/ (f.kind = "request" /\ f.id = id)
<1> DEFINE L == Len(cloudInbound)
<1>1. /\ L \in Nat /\ cloudInbound' \in Seq(FrameType) /\ Len(cloudInbound') = L + 1
      /\ \A k \in 1..L : cloudInbound'[k] = cloudInbound[k]
      /\ cloudInbound'[L + 1] = f
  BY DEF CloudTyped
<1>2. \A k \in 1..L+1 : k \in 1..L \/ k = L + 1
  BY <1>1
<1>3. 1..L \subseteq 1..L+1 /\ L + 1 \in 1..L+1
  BY <1>1
<1>4. \A id : Waits(id)' <=> Waits(id) \/ (f.kind = "request" /\ f.id = id)
  BY <1>1, <1>2, <1>3 DEF Waits
<1>5. WaitsOnce'
  BY <1>1, <1>2 DEF WaitsOnce, Waits
<1> QED
  BY <1>1, <1>4, <1>5

\* The calls after the one awaited has been answered with a, the answer to call f.
Heard(n, a, f) == [cloudCalls EXCEPT ![n].got = a, ![n].from = f]

\* What was received for call n is kept.
KeepsAnswer(n) == cloudCalls'[n].got = cloudCalls[n].got /\ cloudCalls'[n].from = cloudCalls[n].from

\* Calls stay what they were, but for what was received for call n.
SameCalls(calls, n) ==
  /\ calls \in Seq(CallType) /\ Len(calls) \in {Len(cloudCalls), Len(cloudCalls) + 1}
  /\ \A m \in 1..Len(cloudCalls) :
       /\ calls[m].kind = cloudCalls[m].kind /\ calls[m].id = cloudCalls[m].id
       /\ calls[m].key = cloudCalls[m].key /\ calls[m].at = cloudCalls[m].at
       /\ calls[m].handle = cloudCalls[m].handle
       /\ m # n => calls[m].got = cloudCalls[m].got /\ calls[m].from = cloudCalls[m].from

LEMMA SetCall ==
  ASSUME CloudTyped, NEW n \in 1..Len(cloudCalls), NEW c \in CallType,
         c.kind = cloudCalls[n].kind, c.id = cloudCalls[n].id, c.key = cloudCalls[n].key,
         c.at = cloudCalls[n].at, c.handle = cloudCalls[n].handle
  PROVE  LET calls == [cloudCalls EXCEPT ![n] = c] IN
         SameCalls(calls, n) /\ Len(calls) = Len(cloudCalls) /\ calls[n] = c
<1> DEFINE calls == [cloudCalls EXCEPT ![n] = c]
<1>1. /\ calls \in Seq(CallType) /\ Len(calls) = Len(cloudCalls) /\ calls[n] = c
      /\ \A m \in 1..Len(cloudCalls) : m # n => calls[m] = cloudCalls[m]
  BY DEF CloudTyped
<1> HIDE DEF calls
<1>2. SameCalls(calls, n)
  BY <1>1 DEF SameCalls
<1> QED
  BY <1>1, <1>2 DEF calls

LEMMA HeardShape ==
  ASSUME CloudTyped, NEW n \in 1..Len(cloudCalls), NEW a \in Answers, NEW f \in Nat
  PROVE  /\ SameCalls(Heard(n, a, f), n) /\ Len(Heard(n, a, f)) = Len(cloudCalls)
         /\ Heard(n, a, f)[n].got = a /\ Heard(n, a, f)[n].from = f
<1> DEFINE c == [cloudCalls[n] EXCEPT !.got = a, !.from = f]
<1>1. cloudCalls[n] \in CallType
  BY DEF CloudTyped
<1>2. /\ c \in CallType /\ c.got = a /\ c.from = f
      /\ c.kind = cloudCalls[n].kind /\ c.id = cloudCalls[n].id /\ c.key = cloudCalls[n].key
      /\ c.at = cloudCalls[n].at /\ c.handle = cloudCalls[n].handle
  BY <1>1 DEF CallType
<1>3. Heard(n, a, f) = [cloudCalls EXCEPT ![n] = c]
  BY DEF Heard
<1> HIDE DEF c
<1> QED
  BY <1>2, <1>3, SetCall, ZenonT(30)

LEMMA AnsweredShape ==
  ASSUME CloudTyped, NEW n \in 1..Len(cloudCalls)
  PROVE  LET calls == [cloudCalls EXCEPT ![n].answered = TRUE] IN
         /\ SameCalls(calls, n) /\ Len(calls) = Len(cloudCalls)
         /\ calls[n].got = cloudCalls[n].got /\ calls[n].from = cloudCalls[n].from
<1> DEFINE c == [cloudCalls[n] EXCEPT !.answered = TRUE]
           calls == [cloudCalls EXCEPT ![n].answered = TRUE]
<1>1. cloudCalls[n] \in CallType
  BY DEF CloudTyped
<1>2. /\ c \in CallType /\ c.got = cloudCalls[n].got /\ c.from = cloudCalls[n].from
      /\ c.kind = cloudCalls[n].kind /\ c.id = cloudCalls[n].id /\ c.key = cloudCalls[n].key
      /\ c.at = cloudCalls[n].at /\ c.handle = cloudCalls[n].handle
  BY <1>1 DEF CallType
<1>3. calls = [cloudCalls EXCEPT ![n] = c]
  OBVIOUS
<1> HIDE DEF c, calls
<1>4. SameCalls(calls, n) /\ Len(calls) = Len(cloudCalls) /\ calls[n] = c
  BY <1>2, <1>3, SetCall
<1> QED
  BY <1>2, <1>4 DEF calls

\* Only what was received for the latest call may still change: every key stays
\* right.
LEMMA KeysStayRight ==
  ASSUME CloudTyped, CallsOK, NEW n, SameCalls(cloudCalls', n),
         n = Len(cloudCalls) \/ KeepsAnswer(n),
         NEW m \in 1..Len(cloudCalls), cloudCalls'[m].kind = "http"
  PROVE  KeyIsRight(m)'
<1>0. Len(cloudCalls) \in Nat
  BY DEF CloudTyped
<1>1. Len(cloudCalls) \in Nat /\ cloudCalls[m].kind = "http"
  BY <1>0 DEF SameCalls
<1>2. PICK s \in 1..m-1 :
        /\ cloudCalls[s].kind = "secret" /\ cloudCalls[s].id = cloudCalls[m].id
        /\ IF cloudCalls[s].got.status = 200 /\ cloudCalls[s].got.key # NoKey
             THEN cloudCalls[m].key = cloudCalls[s].got.key /\ cloudCalls[s].from = s
             ELSE cloudCalls[m].key = FromEnv
  BY <1>1 DEF CallsOK, KeyIsRight
<1>3. s \in 1..Len(cloudCalls) /\ s # Len(cloudCalls)
  BY <1>1
<1>4. /\ KeepsAnswer(s) /\ cloudCalls'[s].kind = "secret"
      /\ cloudCalls'[s].id = cloudCalls'[m].id /\ cloudCalls'[m].key = cloudCalls[m].key
  BY <1>2, <1>3 DEF SameCalls, KeepsAnswer
<1> QED
  BY <1>2, <1>4 DEF KeyIsRight, KeepsAnswer

\* The calls of a state in which they stay what they were.
LEMMA SameCallsOK ==
  ASSUME CloudTyped, CallsOK, NEW n \in 1..Len(cloudCalls), SameCalls(cloudCalls', n),
         n = Len(cloudCalls) \/ KeepsAnswer(n),
         Len(cloudCalls') = Len(cloudCalls),
         cloudSent' = cloudSent, cloudNow' = cloudNow \/ cloudNow'.pc = "idle"
  PROVE  CallsOK' /\ \A id : CallMade(id)' <=> CallMade(id)
<1>1. Len(cloudCalls') = Len(cloudCalls)
  OBVIOUS
<1>2. \A m \in 1..Len(cloudCalls) :
        /\ cloudCalls'[m].kind = cloudCalls[m].kind /\ cloudCalls'[m].id = cloudCalls[m].id
        /\ cloudCalls'[m].at = cloudCalls[m].at /\ cloudCalls'[m].handle = cloudCalls[m].handle
  BY DEF SameCalls
<1>3. \A id : CallMade(id)' <=> CallMade(id)
  BY <1>1, <1>2 DEF CallMade
<1>4. \A m \in 1..Len(cloudCalls) : cloudCalls'[m].kind = "http" => KeyIsRight(m)'
  BY KeysStayRight
<1>5. cloudNow'.pc # "idle" =>
       /\ cloudNow'.call = Len(cloudCalls') /\ cloudNow'.call \in 1..Len(cloudCalls')
       /\ cloudCalls'[cloudNow'.call].kind = cloudNow'.pc
       /\ cloudCalls'[cloudNow'.call].id = cloudNow'.id
       /\ cloudNow'.id \in 1..Len(cloudSent')
       /\ cloudSent'[cloudNow'.id].keyEnv \in AllowedKeyEnvs
  BY <1>1, <1>2 DEF CallsOK
<1>6. cloudNow'.pc = "secret" =>
        ~\E m \in 1..Len(cloudCalls') : cloudCalls'[m].kind = "http" /\ cloudCalls'[m].id = cloudNow'.id
  BY <1>1, <1>2 DEF CallsOK, CallMade
<1>7. \A i, j \in 1..Len(cloudCalls) :
        (/\ cloudCalls'[i].kind = "http" /\ cloudCalls'[j].kind = "http"
         /\ cloudCalls'[i].id = cloudCalls'[j].id) => i = j
  BY <1>2 DEF CallsOK
<1>8. \A m \in 1..Len(cloudCalls) :
       /\ cloudCalls'[m].id \in 1..Len(cloudSent')
       /\ cloudCalls'[m].at = Endpoint(cloudSent'[cloudCalls'[m].id])
       /\ cloudCalls'[m].handle \in AllowedKeyEnvs
  BY <1>2 DEF CallsOK
<1> QED
  BY <1>1, <1>3, <1>4, <1>5, <1>6, <1>7, <1>8 DEF CallsOK, CallMade

\* A call is made for request id.
LEMMA NewCallShape ==
  ASSUME CloudTyped, NEW id \in 1..Len(cloudSent), NEW kind \in {"secret", "http"},
         NEW key \in CloudKeys
  PROVE  LET calls == NewCall(kind, id, key)
             c == calls[Len(cloudCalls) + 1] IN
         /\ calls \in Seq(CallType) /\ Len(calls) = Len(cloudCalls) + 1
         /\ \A n \in 1..Len(cloudCalls) : calls[n] = cloudCalls[n]
         /\ c.kind = kind /\ c.id = id /\ c.key = key /\ c.at = Endpoint(cloudSent[id])
         /\ c.handle = cloudSent[id].keyEnv
<1>1. PICK c : c = [kind |-> kind, id |-> id, key |-> key, at |-> Endpoint(cloudSent[id]),
                    handle |-> cloudSent[id].keyEnv, answered |-> FALSE, got |-> NothingYet, from |-> 0]
  OBVIOUS
<1>2. cloudSent[id] \in CloudRequests /\ id \in Nat
  BY DEF CloudTyped
<1>3. /\ c \in CallType /\ c.kind = kind /\ c.id = id /\ c.key = key
      /\ c.at = Endpoint(cloudSent[id]) /\ c.handle = cloudSent[id].keyEnv
  BY <1>1, <1>2 DEF CallType
<1>4. NewCall(kind, id, key) = Append(cloudCalls, c)
  BY <1>1 DEF NewCall
<1>5. cloudCalls \in Seq(CallType)
  BY DEF CloudTyped
<1>6. /\ Append(cloudCalls, c) \in Seq(CallType) /\ Len(Append(cloudCalls, c)) = Len(cloudCalls) + 1
      /\ \A n \in 1..Len(cloudCalls) : Append(cloudCalls, c)[n] = cloudCalls[n]
      /\ Append(cloudCalls, c)[Len(cloudCalls) + 1] = c
  BY <1>3, <1>5
<1> QED
  BY <1>3, <1>4, <1>6

LEMMA AddReply ==
  ASSUME CloudTyped, RepliesOK, NEW reply \in ReplyType, CloudReplied(reply), ~HasReply(reply.id)
  PROVE  /\ cloudReplies' \in Seq(ReplyType) /\ Len(cloudReplies') = Len(cloudReplies) + 1
         /\ \A k \in 1..Len(cloudReplies) : cloudReplies'[k] = cloudReplies[k]
         /\ cloudReplies'[Len(cloudReplies) + 1] = reply
         /\ \A k \in 1..Len(cloudReplies') : k \in 1..Len(cloudReplies) \/ k = Len(cloudReplies) + 1
         /\ \A j, k \in 1..Len(cloudReplies') : cloudReplies'[j].id = cloudReplies'[k].id => j = k
         /\ \A id : HasReply(id)' <=> HasReply(id) \/ id = reply.id
<1> DEFINE L == Len(cloudReplies)
<1>1. /\ cloudReplies' \in Seq(ReplyType) /\ L \in Nat /\ Len(cloudReplies') = L + 1
      /\ \A k \in 1..L : cloudReplies'[k] = cloudReplies[k]
      /\ cloudReplies'[L + 1] = reply
  BY DEF CloudTyped, CloudReplied
<1>2. \A k \in 1..L+1 : k \in 1..L \/ k = L + 1
  BY <1>1
<1>3. 1..L \subseteq 1..L+1 /\ L + 1 \in 1..L+1
  BY <1>1
<1>4. \A id : HasReply(id)' <=> HasReply(id) \/ id = reply.id
  BY <1>1, <1>2, <1>3 DEF HasReply
<1>5. \A j, k \in 1..L+1 : cloudReplies'[j].id = cloudReplies'[k].id => j = k
  BY <1>1, <1>2 DEF RepliesOK, HasReply
<1> QED
  BY <1>1, <1>2, <1>4, <1>5

\* Replies stay true as long as what was received for their calls is kept.
LEMMA RepliesStay ==
  ASSUME CloudTyped, NEW n \in 1..Len(cloudCalls), SameCalls(cloudCalls', n),
         KeepsAnswer(n) \/ ~HasReply(cloudCalls[n].id),
         NEW k \in 1..Len(cloudReplies), NEW reply, reply = cloudReplies[k], Given(reply)
  PROVE  Given(reply)'
<1>1. PICK m : m = reply.call
  OBVIOUS
<1>2. m \in 1..Len(cloudCalls) /\ m \in 1..Len(cloudCalls')
  BY <1>1 DEF Given, SameCalls, CloudTyped
<1>3. m # n \/ KeepsAnswer(n)
  BY <1>1 DEF Given, HasReply
<1>4. /\ cloudCalls'[m].kind = cloudCalls[m].kind /\ cloudCalls'[m].id = cloudCalls[m].id
      /\ cloudCalls'[m].got = cloudCalls[m].got /\ cloudCalls'[m].from = cloudCalls[m].from
  BY <1>2, <1>3 DEF SameCalls, KeepsAnswer
<1> QED
  BY <1>1, <1>2, <1>4 DEF Given

LEMMA CloudSendKeeps ==
  ASSUME CloudInv, NEW r \in CloudRequests, CloudSend(r)
  PROVE  CloudInv'
<1> DEFINE L == Len(cloudSent)
<1>1. /\ cloudSent \in Seq(CloudRequests) /\ L \in Nat /\ L + 1 \in Nat
      /\ cloudSent' \in Seq(CloudRequests) /\ Len(cloudSent') = L + 1
      /\ \A id \in 1..L : cloudSent'[id] = cloudSent[id]
      /\ UNCHANGED <<cloudNow, cloudCalls, cloudReplies, cloudMissed, cloudVault, cloudTurns>>
  BY DEF CloudSend, CloudInv, CloudTyped
<1>2. PICK f : f = [kind |-> "request", id |-> L + 1]
  OBVIOUS
<1>3. f \in FrameType /\ cloudInbound' = Append(cloudInbound, f) /\ f.kind = "request" /\ f.id = L + 1
  BY <1>1, <1>2 DEF CloudSend, FrameType
<1>4. \A id : Waits(id) \/ Serves(id) \/ HasReply(id) \/ id \in cloudMissed \/ CallMade(id) => id # L + 1
  BY <1>1 DEF CloudInv, StagesOK, CallsOK, CallMade
<1>5. /\ cloudInbound' \in Seq(FrameType) /\ WaitsOnce'
      /\ \A id : Waits(id)' <=> Waits(id) \/ id = L + 1
  BY <1>3, <1>4, AddFrame DEF CloudInv
<1>6. \A id : /\ Serves(id)' <=> Serves(id)
              /\ HasReply(id)' <=> HasReply(id)
              /\ CallMade(id)' <=> CallMade(id)
  BY <1>1 DEF Serves, HasReply, CallMade
<1>7. /\ \A id \in 1..Len(cloudSent') : id \in 1..L \/ id = L + 1
      /\ 1..L \subseteq 1..Len(cloudSent') /\ L + 1 \in 1..Len(cloudSent')
  BY <1>1
<1>8. StagesOK'
  BY <1>1, <1>4, <1>5, <1>6, <1>7 DEF StagesOK, CloudInv
<1>9. CallsOK'
  <2>1. \A n \in 1..Len(cloudCalls) : KeyIsRight(n) => KeyIsRight(n)'
    BY <1>1 DEF KeyIsRight
  <2> QED
    BY <1>1, <1>6, <1>7, <2>1 DEF CallsOK, CloudInv, CallMade
<1>10. RepliesOK'
  BY <1>1, RepliesUntouched DEF CloudInv
<1> QED
  BY <1>1, <1>5, <1>8, <1>9, <1>10 DEF CloudInv, CloudTyped

LEMMA CallAnsweredKeeps ==
  ASSUME CloudInv, NEW n \in 1..Len(cloudCalls), NEW a \in Answers, CallAnswered(n, a)
  PROVE  CloudInv'
<1>1. /\ cloudCalls' = [cloudCalls EXCEPT ![n].answered = TRUE]
      /\ UNCHANGED <<cloudSent, cloudNow, cloudReplies, cloudMissed, cloudVault, cloudTurns>>
      /\ n \in Nat
  BY DEF CallAnswered, CloudInv, CloudTyped
<1>2. /\ SameCalls(cloudCalls', n) /\ Len(cloudCalls') = Len(cloudCalls)
      /\ KeepsAnswer(n)
  BY <1>1, AnsweredShape DEF CloudInv, KeepsAnswer
<1>3. PICK f : f = [kind |-> "answer", call |-> n, answer |-> a]
  OBVIOUS
<1>4. f \in FrameType /\ cloudInbound' = Append(cloudInbound, f) /\ f.kind # "request"
  BY <1>1, <1>3 DEF CallAnswered, FrameType
<1>5. /\ cloudInbound' \in Seq(FrameType) /\ WaitsOnce'
      /\ \A id : Waits(id)' <=> Waits(id)
  BY <1>4, AddFrame DEF CloudInv
<1>6. CallsOK' /\ \A id : CallMade(id)' <=> CallMade(id)
  BY <1>1, <1>2, SameCallsOK DEF CloudInv
<1>7. StagesOK'
  BY <1>1, <1>5, <1>6 DEF StagesOK, CloudInv, Serves, HasReply
<1>8. ASSUME NEW k \in 1..Len(cloudReplies), NEW reply, reply = cloudReplies[k], Given(reply)
      PROVE  Given(reply)'
  BY <1>1, <1>2, <1>8, RepliesStay DEF CloudInv
<1>9. RepliesOK'
  BY <1>1, <1>8 DEF RepliesOK, CloudInv
<1> QED
  BY <1>1, <1>2, <1>5, <1>6, <1>7, <1>9 DEF CloudInv, CloudTyped, SameCalls

\* What a step leaves of the requests that wait.
LEMMA StagesOf ==
  ASSUME CloudInv, cloudSent' = cloudSent,
         \A id : Waits(id)' => Waits(id),
         \A id : Waits(id)' => ~Serves(id)' /\ ~HasReply(id)' /\ id \notin cloudMissed' /\ ~CallMade(id)',
         \A id : Serves(id)' => Waits(id) \/ Serves(id),
         \A id : Serves(id)' => ~HasReply(id)' /\ id \notin cloudMissed',
         \A id : HasReply(id)' => Waits(id) \/ Serves(id) \/ HasReply(id),
         \A id : id \in cloudMissed' => Waits(id) \/ id \in cloudMissed,
         \A id : HasReply(id)' => id \notin cloudMissed',
         \A id : Waits(id) \/ Serves(id) \/ HasReply(id) \/ id \in cloudMissed
                 => Waits(id)' \/ Serves(id)' \/ HasReply(id)' \/ id \in cloudMissed'
  PROVE  StagesOK'
  BY DEF CloudInv, StagesOK

\* The request in hand is replied to.
LEMMA AnswerServed ==
  ASSUME CloudInv, cloudNow.pc # "idle", cloudNow' = Idle, cloudSent' = cloudSent,
         cloudMissed' = cloudMissed, cloudVault' = cloudVault,
         cloudInbound' \in Seq(FrameType), WaitsOnce', \A id : Waits(id)' <=> Waits(id),
         NEW a \in Answers, NEW f \in Nat, cloudCalls' = Heard(cloudNow.call, a, f),
         NEW reply \in ReplyType, CloudReplied(reply), reply.id = cloudNow.id,
         \/ reply.result = <<>>
         \/ /\ cloudNow.pc = "http" /\ reply.call = cloudNow.call
            /\ a.status \in 200..299 /\ f = cloudNow.call
  PROVE  CloudInv'
<1> DEFINE n == cloudNow.call
           id0 == cloudNow.id
<1>1. /\ n = Len(cloudCalls) /\ n \in 1..Len(cloudCalls) /\ cloudCalls[n].kind = cloudNow.pc
      /\ cloudCalls[n].id = id0 /\ Serves(id0) /\ ~HasReply(id0)
  BY DEF CloudInv, CallsOK, StagesOK, Serves
<1>2. /\ SameCalls(cloudCalls', n) /\ Len(cloudCalls') = Len(cloudCalls)
      /\ cloudCalls'[n].got = a /\ cloudCalls'[n].from = f
  BY <1>1, HeardShape DEF CloudInv
<1>3. cloudNow'.pc = "idle" /\ cloudNow' \in NowType
  BY DEF Idle, NowType
<1>4. CallsOK' /\ \A id : CallMade(id)' <=> CallMade(id)
  BY <1>1, <1>2, <1>3, SameCallsOK DEF CloudInv
<1>5. /\ cloudReplies' \in Seq(ReplyType) /\ Len(cloudReplies') = Len(cloudReplies) + 1
      /\ \A k \in 1..Len(cloudReplies) : cloudReplies'[k] = cloudReplies[k]
      /\ cloudReplies'[Len(cloudReplies) + 1] = reply
      /\ \A k \in 1..Len(cloudReplies') : k \in 1..Len(cloudReplies) \/ k = Len(cloudReplies) + 1
      /\ \A j, k \in 1..Len(cloudReplies') : cloudReplies'[j].id = cloudReplies'[k].id => j = k
      /\ \A id : HasReply(id)' <=> HasReply(id) \/ id = id0
  BY <1>1, AddReply DEF CloudInv
<1>6. StagesOK'
  <2>1. \A id : ~Serves(id)'
    BY <1>3 DEF Serves
  <2>2. \A id : Serves(id) => id = id0
    BY DEF Serves
  <2>3. \A id : Waits(id) => ~HasReply(id) /\ id \notin cloudMissed /\ ~CallMade(id) /\ id # id0
    BY <1>1 DEF CloudInv, StagesOK
  <2>4. id0 \notin cloudMissed /\ \A id : HasReply(id) => id \notin cloudMissed
    BY <1>1 DEF CloudInv, StagesOK
  <2> QED
    BY <1>1, <1>4, <1>5, <2>1, <2>2, <2>3, <2>4, StagesOf
<1>7. ASSUME NEW k \in 1..Len(cloudReplies), NEW r, r = cloudReplies[k], Given(r)
      PROVE  Given(r)'
  BY <1>1, <1>2, <1>7, RepliesStay DEF CloudInv
<1>8. reply.result # <<>> => Given(reply)'
  <2>1. n \in 1..Len(cloudCalls') /\ cloudCalls'[n].kind = cloudCalls[n].kind
        /\ cloudCalls'[n].id = cloudCalls[n].id
    BY <1>1, <1>2 DEF SameCalls
  <2> QED
    BY <1>1, <1>2, <2>1 DEF Given
<1>9. RepliesOK'
  <2>1. ASSUME NEW k \in 1..Len(cloudReplies'), NEW r, r = cloudReplies'[k], r.result # <<>>
        PROVE  Given(r)'
    <3>1. CASE k \in 1..Len(cloudReplies)
      BY <1>5, <1>7, <2>1, <3>1 DEF CloudInv, RepliesOK
    <3>2. CASE k = Len(cloudReplies) + 1
      BY <1>5, <1>8, <2>1, <3>2
    <3> QED
      BY <1>5, <2>1, <3>1, <3>2
  <2> QED
    BY <1>5, <2>1 DEF RepliesOK
<1> QED
  BY <1>2, <1>3, <1>4, <1>5, <1>6, <1>9 DEF CloudInv, CloudTyped, SameCalls

\* A call is made for a request that has had no HTTP request.
LEMMA GrownCallsOK ==
  ASSUME CloudTyped, CallsOK, NEW L \in Nat, L = Len(cloudCalls), SameCalls(cloudCalls', L),
         Len(cloudCalls') = L + 1, cloudSent' = cloudSent,
         NEW id0 \in 1..Len(cloudSent), cloudSent[id0].keyEnv \in AllowedKeyEnvs, ~CallMade(id0),
         NEW kind \in {"secret", "http"}, cloudNow' = Awaiting(kind, id0),
         NEW c, c = cloudCalls'[L + 1], c.kind = kind, c.id = id0,
         c.at = Endpoint(cloudSent[id0]), c.handle = cloudSent[id0].keyEnv,
         kind = "http" => KeyIsRight(L + 1)'
  PROVE  CallsOK' /\ \A id : CallMade(id)' <=> CallMade(id) \/ (kind = "http" /\ id = id0)
<1>1. /\ \A m \in 1..Len(cloudCalls') : m \in 1..L \/ m = L + 1
      /\ 1..L \subseteq 1..Len(cloudCalls') /\ L + 1 \in 1..Len(cloudCalls')
      /\ \A m \in 1..L : m # L + 1
  OBVIOUS
<1>2. \A m \in 1..L :
        /\ cloudCalls'[m].kind = cloudCalls[m].kind /\ cloudCalls'[m].id = cloudCalls[m].id
        /\ cloudCalls'[m].at = cloudCalls[m].at /\ cloudCalls'[m].handle = cloudCalls[m].handle
  BY DEF SameCalls
<1>3. \A id : CallMade(id)' <=> CallMade(id) \/ (kind = "http" /\ id = id0)
  BY <1>1, <1>2 DEF CallMade
<1>4. \A m \in 1..L : cloudCalls'[m].kind = "http" => KeyIsRight(m)'
  BY KeysStayRight
<1>5. /\ cloudNow'.pc = kind /\ cloudNow'.id = id0 /\ cloudNow'.call = L + 1
      /\ kind # "idle"
  BY DEF Awaiting
<1>6. \A i, j \in 1..Len(cloudCalls') :
        (/\ cloudCalls'[i].kind = "http" /\ cloudCalls'[j].kind = "http"
         /\ cloudCalls'[i].id = cloudCalls'[j].id) => i = j
  <2>1. \A i \in 1..L : cloudCalls'[i].kind = "http" => cloudCalls'[i].id # id0
    BY <1>2 DEF CallMade
  <2>2. \A i, j \in 1..L :
          (/\ cloudCalls'[i].kind = "http" /\ cloudCalls'[j].kind = "http"
           /\ cloudCalls'[i].id = cloudCalls'[j].id) => i = j
    BY <1>2 DEF CallsOK
  <2> QED
    BY <1>1, <2>1, <2>2
<1>7. \A m \in 1..Len(cloudCalls') :
       /\ cloudCalls'[m].id \in 1..Len(cloudSent')
       /\ cloudCalls'[m].at = Endpoint(cloudSent'[cloudCalls'[m].id])
       /\ cloudCalls'[m].handle \in AllowedKeyEnvs
  BY <1>1, <1>2 DEF CallsOK
<1>8. \A m \in 1..Len(cloudCalls') : cloudCalls'[m].kind = "http" => KeyIsRight(m)'
  BY <1>1, <1>4
<1>9. /\ cloudNow'.call = Len(cloudCalls') /\ cloudNow'.call \in 1..Len(cloudCalls')
      /\ cloudCalls'[cloudNow'.call].kind = cloudNow'.pc
      /\ cloudCalls'[cloudNow'.call].id = cloudNow'.id
      /\ cloudNow'.id \in 1..Len(cloudSent')
      /\ cloudSent'[cloudNow'.id].keyEnv \in AllowedKeyEnvs
  BY <1>1, <1>5
<1>10. cloudNow'.pc = "secret" =>
        ~\E m \in 1..Len(cloudCalls') : cloudCalls'[m].kind = "http" /\ cloudCalls'[m].id = cloudNow'.id
  BY <1>1, <1>2, <1>5 DEF CallMade
<1> QED
  BY <1>3, <1>6, <1>7, <1>8, <1>9, <1>10 DEF CallsOK, CallMade

LEMMA RefusalReply ==
  ASSUME NEW id \in Nat
  PROVE  Refusal(id) \in ReplyType /\ Refusal(id).id = id /\ Refusal(id).result = <<>>
BY DEF Refusal, ReplyType, Results

LEMMA ParsedReply ==
  ASSUME NEW r \in CloudRequests, NEW a \in Answers
  PROVE  ParsedCloud(r, a) \in Results /\ (ParsedCloud(r, a) # <<>> => a.status \in 200..299)
BY DEF Results, ParsedCloud, Success

\* The secret of the request in hand is known, or is not.
LEMMA AfterSecretKeeps ==
  ASSUME CloudInv, cloudNow.pc = "secret", cloudSent' = cloudSent,
         cloudMissed' = cloudMissed, cloudVault' = cloudVault,
         cloudInbound' \in Seq(FrameType), WaitsOnce', \A id : Waits(id)' <=> Waits(id),
         NEW a \in Answers, NEW f \in Nat, a.status = 0 \/ f = cloudNow.call, AfterSecret(a, f)
  PROVE  CloudInv'
<1> DEFINE n == cloudNow.call
           id0 == cloudNow.id
           key == KeyAfterVault(a, cloudSent[id0].keyEnv)
<1>1. /\ n = Len(cloudCalls) /\ n \in 1..Len(cloudCalls) /\ cloudCalls[n].kind = "secret"
      /\ cloudCalls[n].id = id0 /\ Serves(id0) /\ ~HasReply(id0) /\ id0 \in 1..Len(cloudSent)
      /\ cloudSent[id0].keyEnv \in AllowedKeyEnvs /\ ~CallMade(id0) /\ id0 \notin cloudMissed
  BY DEF CloudInv, CallsOK, StagesOK, Serves
<1>2. CASE key = NoKey
  <2>1. /\ CloudReplied(Refusal(id0)) /\ cloudNow' = Idle
        /\ cloudCalls' = Heard(n, a, f)
    BY <1>2 DEF AfterSecret, Heard
  <2>2. Refusal(id0) \in ReplyType /\ Refusal(id0).id = id0 /\ Refusal(id0).result = <<>>
    BY <1>1, RefusalReply DEF CloudInv, CloudTyped
  <2> QED
    BY <2>1, <2>2, AnswerServed
<1>3. CASE key # NoKey
  <2>0. PICK L \in Nat : L = Len(cloudCalls)
    BY DEF CloudInv, CloudTyped
  <2>1. PICK new : new = NewCall("http", id0, key)
    OBVIOUS
  <2>2. /\ cloudCalls' = [new EXCEPT ![n] = Heard(n, a, f)[n]]
        /\ cloudNow' = Awaiting("http", id0) /\ UNCHANGED cloudReplies
    BY <1>3, <2>1 DEF AfterSecret, Heard
  <2>3. key \in CloudKeys
    BY DEF CloudKeys, KeyAfterVault
  <2>4. /\ new \in Seq(CallType) /\ Len(new) = L + 1
        /\ \A m \in 1..L : new[m] = cloudCalls[m]
        /\ new[L + 1].kind = "http" /\ new[L + 1].id = id0 /\ new[L + 1].key = key
        /\ new[L + 1].at = Endpoint(cloudSent[id0]) /\ new[L + 1].handle = cloudSent[id0].keyEnv
    BY <1>1, <2>0, <2>1, <2>3, NewCallShape DEF CloudInv
  <2>5. PICK told : told = Heard(n, a, f)
    OBVIOUS
  <2>6. SameCalls(told, n) /\ Len(told) = L /\ told[n].got = a /\ told[n].from = f
    BY <1>1, <2>0, <2>5, HeardShape DEF CloudInv
  <2>7. told[n] \in CallType
    BY <1>1, <2>0, <2>6 DEF SameCalls
  <2>8. /\ cloudCalls' \in Seq(CallType) /\ Len(cloudCalls') = L + 1
        /\ cloudCalls'[n] = told[n]
        /\ \A m \in 1..L : m # n => cloudCalls'[m] = cloudCalls[m]
        /\ cloudCalls'[L + 1] = new[L + 1]
    <3>1. n \in 1..Len(new) /\ L + 1 \in 1..Len(new) /\ n # L + 1 /\ 1..L \subseteq 1..Len(new)
      BY <1>1, <2>0, <2>4
    <3> QED
      BY <2>2, <2>4, <2>5, <2>7, <3>1
  <2>9. SameCalls(cloudCalls', n)
    BY <2>0, <2>6, <2>8 DEF SameCalls
  <2>10. KeyIsRight(L + 1)'
    <3>1. /\ cloudCalls'[n].kind = "secret" /\ cloudCalls'[n].id = cloudCalls'[L + 1].id
          /\ cloudCalls'[n].got = a /\ n \in 1..(L + 1)-1 /\ (a.status = 200 => cloudCalls'[n].from = n)
      BY <1>1, <2>0, <2>4, <2>6, <2>8 DEF SameCalls
    <3>2. IF a.status = 200 /\ a.key # NoKey
            THEN cloudCalls'[L + 1].key = a.key ELSE cloudCalls'[L + 1].key = FromEnv
      BY <1>3, <2>4, <2>8 DEF KeyAfterVault
    <3> QED
      BY <3>1, <3>2 DEF KeyIsRight
  <2>11. CallsOK' /\ \A id : CallMade(id)' <=> CallMade(id) \/ id = id0
    <3>1. PICK c : c = cloudCalls'[L + 1]
      OBVIOUS
    <3>2. /\ c.kind = "http" /\ c.id = id0 /\ c.at = Endpoint(cloudSent[id0])
          /\ c.handle = cloudSent[id0].keyEnv
      BY <2>4, <2>8, <3>1
    <3>3. n = L
      BY <1>1, <2>0
    <3>4. CloudTyped /\ CallsOK /\ SameCalls(cloudCalls', L) /\ Len(cloudCalls') = L + 1
      BY <2>8, <2>9, <3>3 DEF CloudInv
    <3>5. /\ id0 \in 1..Len(cloudSent) /\ cloudSent[id0].keyEnv \in AllowedKeyEnvs
          /\ ~CallMade(id0) /\ cloudNow' = Awaiting("http", id0) /\ KeyIsRight(L + 1)'
      BY <1>1, <2>2, <2>10
    <3> QED
      BY <2>0, <3>1, <3>2, <3>4, <3>5, GrownCallsOK
  <2>12. \A id : Serves(id)' <=> Serves(id)
    <3>1. cloudNow'.pc = "http" /\ cloudNow'.id = id0
      BY <2>2 DEF Awaiting
    <3> QED
      BY <3>1 DEF Serves
  <2>13. StagesOK'
    <3>1. \A id : HasReply(id)' <=> HasReply(id)
      BY <2>2 DEF HasReply
    <3>2. \A id : Waits(id) => ~Serves(id) /\ ~HasReply(id) /\ id \notin cloudMissed /\ ~CallMade(id)
      BY DEF CloudInv, StagesOK
    <3>3. \A id : Serves(id) => id = id0
      BY DEF Serves
    <3> QED
      BY <1>1, <2>11, <2>12, <3>1, <3>2, <3>3 DEF CloudInv, StagesOK
  <2>14. ASSUME NEW k \in 1..Len(cloudReplies), NEW r, r = cloudReplies[k], Given(r)
         PROVE  Given(r)'
    BY <1>1, <2>9, <2>14, RepliesStay DEF CloudInv
  <2>15. RepliesOK'
    BY <2>2, <2>14 DEF CloudInv, RepliesOK
  <2>16. cloudNow' \in NowType
    BY <1>1, <2>0, <2>2 DEF Awaiting, NowType, CloudInv, CloudTyped
  <2> QED
    BY <2>2, <2>8, <2>11, <2>13, <2>15, <2>16 DEF CloudInv, CloudTyped
<1> QED
  BY <1>2, <1>3

\* The answer of the network plugin, or its error, ends the request.
LEMMA AfterHttpKeeps ==
  ASSUME CloudInv, cloudNow.pc = "http", cloudSent' = cloudSent,
         cloudMissed' = cloudMissed, cloudVault' = cloudVault,
         cloudInbound' \in Seq(FrameType), WaitsOnce', \A id : Waits(id)' <=> Waits(id),
         NEW a \in Answers, NEW f \in Nat, a.status = 0 \/ f = cloudNow.call, AfterHttp(a, f)
  PROVE  CloudInv'
<1>1. PICK r : r = cloudSent[cloudNow.id]
  OBVIOUS
<1>2. PICK reply : reply = [id |-> cloudNow.id, call |-> cloudNow.call, result |-> ParsedCloud(r, a)]
  OBVIOUS
<1>3. r \in CloudRequests /\ cloudNow.id \in Nat /\ cloudNow.call \in Nat
  BY <1>1 DEF CloudInv, CloudTyped, CallsOK
<1>4. /\ reply \in ReplyType /\ reply.id = cloudNow.id /\ reply.call = cloudNow.call
      /\ reply.result # <<>> => a.status \in 200..299
  BY <1>2, <1>3, ParsedReply DEF ReplyType
<1>5. /\ cloudCalls' = Heard(cloudNow.call, a, f) /\ CloudReplied(reply) /\ cloudNow' = Idle
  BY <1>1, <1>2 DEF AfterHttp, Heard
<1>6. 0 \notin 200..299
  OBVIOUS
<1>7. \/ reply.result = <<>>
      \/ /\ cloudNow.pc = "http" /\ reply.call = cloudNow.call
         /\ a.status \in 200..299 /\ f = cloudNow.call
  BY <1>4, <1>6
<1> QED
  BY <1>4, <1>5, <1>7, AnswerServed

LEMMA CloudAcceptKeeps ==
  ASSUME CloudInv, CloudAccept
  PROVE  CloudInv'
<1>1. PICK f : f = Head(cloudInbound)
  OBVIOUS
<1>2. /\ cloudNow.pc = "idle" /\ cloudInbound # <<>> /\ cloudInbound' = Tail(cloudInbound)
      /\ UNCHANGED <<cloudSent, cloudMissed, cloudVault, cloudTurns>>
  BY DEF CloudAccept
<1>3. /\ f \in FrameType /\ cloudInbound' \in Seq(FrameType) /\ WaitsOnce'
      /\ f.kind = "request" =>
           /\ Waits(f.id)
           /\ \A id : Waits(id)' <=> Waits(id) /\ id # f.id
      /\ f.kind # "request" => \A id : Waits(id)' <=> Waits(id)
  BY <1>1, <1>2, TakeFrame DEF CloudInv
<1>4. \A id : ~Serves(id)
  BY <1>2 DEF Serves
<1>5. CASE f.kind # "request"
  <2>1. UNCHANGED <<cloudNow, cloudCalls, cloudReplies>>
    BY <1>1, <1>5 DEF CloudAccept
  <2>2. \A id : /\ Serves(id)' <=> Serves(id)
                /\ HasReply(id)' <=> HasReply(id)
                /\ CallMade(id)' <=> CallMade(id)
    BY <2>1 DEF Serves, HasReply, CallMade
  <2>3. StagesOK'
    BY <1>2, <1>3, <1>5, <2>2 DEF CloudInv, StagesOK
  <2>4. CallsOK'
    BY <1>2, <2>1, <2>2 DEF CloudInv, CallsOK, KeyIsRight, CallMade
  <2>5. RepliesOK'
    BY <2>1, RepliesUntouched DEF CloudInv
  <2> QED
    BY <1>2, <1>3, <2>1, <2>3, <2>4, <2>5 DEF CloudInv, CloudTyped
<1>6. CASE f.kind = "request"
  <2>1. PICK id0 : id0 = f.id
    OBVIOUS
  <2>2. /\ Waits(id0) /\ id0 \in 1..Len(cloudSent) /\ id0 \in Nat /\ ~HasReply(id0)
        /\ id0 \notin cloudMissed /\ ~CallMade(id0)
    BY <1>3, <1>6, <2>1 DEF CloudInv, StagesOK, CloudTyped
  <2>3. \A id : Waits(id)' <=> Waits(id) /\ id # id0
    BY <1>3, <1>6, <2>1
  <2>4. CASE ValidCloud(cloudSent[id0]) /\ KeyAllowed(cloudSent[id0].keyEnv)
    <3>1. PICK L \in Nat : L = Len(cloudCalls)
      BY DEF CloudInv, CloudTyped
    <3>2. /\ cloudCalls' = NewCall("secret", id0, NoKey) /\ cloudNow' = Awaiting("secret", id0)
          /\ UNCHANGED cloudReplies
      BY <1>1, <1>6, <2>1, <2>4 DEF CloudAccept
    <3>3. PICK c : c = cloudCalls'[L + 1]
      OBVIOUS
    <3>4. /\ cloudCalls' \in Seq(CallType) /\ Len(cloudCalls') = L + 1
          /\ \A m \in 1..L : cloudCalls'[m] = cloudCalls[m]
          /\ c.kind = "secret" /\ c.id = id0 /\ c.at = Endpoint(cloudSent[id0])
          /\ c.handle = cloudSent[id0].keyEnv
      <4>1. NoKey \in CloudKeys
        BY DEF CloudKeys
      <4> QED
        BY <2>2, <3>1, <3>2, <3>3, <4>1, NewCallShape DEF CloudInv
    <3>5. SameCalls(cloudCalls', L)
      BY <3>1, <3>4 DEF SameCalls
    <3>6. cloudSent[id0].keyEnv \in AllowedKeyEnvs
      BY <2>4 DEF KeyAllowed
    <3>7. CallsOK' /\ \A id : CallMade(id)' <=> CallMade(id)
      BY <1>2, <2>2, <3>1, <3>2, <3>3, <3>4, <3>5, <3>6, GrownCallsOK DEF CloudInv
    <3>8. \A id : Serves(id)' <=> id = id0
      BY <3>2 DEF Serves, Awaiting
    <3>9. \A id : HasReply(id)' <=> HasReply(id)
      BY <3>2 DEF HasReply
    <3>10. StagesOK'
      BY <1>2, <1>4, <2>2, <2>3, <3>7, <3>8, <3>9 DEF CloudInv, StagesOK
    <3>11. ASSUME NEW r, Given(r)
           PROVE  Given(r)'
      <4>1. PICK m : m = r.call
        OBVIOUS
      <4>2. m \in 1..L /\ m \in 1..L+1 /\ cloudCalls'[m] = cloudCalls[m]
        BY <3>1, <3>4, <3>11, <4>1 DEF Given
      <4> QED
        BY <3>4, <3>11, <4>1, <4>2 DEF Given
    <3>12. RepliesOK'
      <4>1. \A k \in 1..Len(cloudReplies) : cloudReplies[k].result # <<>> => Given(cloudReplies[k])
        BY DEF CloudInv, RepliesOK
      <4>2. \A j, k \in 1..Len(cloudReplies) : cloudReplies[j].id = cloudReplies[k].id => j = k
        BY DEF CloudInv, RepliesOK
      <4>3. ASSUME NEW k \in 1..Len(cloudReplies), NEW r, r = cloudReplies[k], r.result # <<>>
            PROVE  Given(r)'
        BY <3>11, <4>1, <4>3
      <4> QED
        BY <3>2, <4>2, <4>3 DEF RepliesOK
    <3>13. cloudNow' \in NowType
      BY <2>2, <3>1, <3>2 DEF Awaiting, NowType
    <3> QED
      BY <1>2, <1>3, <3>2, <3>4, <3>7, <3>10, <3>12, <3>13 DEF CloudInv, CloudTyped
  <2>5. CASE ~(ValidCloud(cloudSent[id0]) /\ KeyAllowed(cloudSent[id0].keyEnv))
    <3>1. CloudReplied(Refusal(id0)) /\ UNCHANGED <<cloudNow, cloudCalls>>
      BY <1>1, <1>6, <2>1, <2>5 DEF CloudAccept
    <3>2. PICK reply : reply = Refusal(id0)
      OBVIOUS
    <3>3. reply \in ReplyType /\ reply.id = id0 /\ reply.result = <<>>
      BY <2>2, <3>2, RefusalReply
    <3>4. /\ cloudReplies' \in Seq(ReplyType)
          /\ \A k \in 1..Len(cloudReplies) : cloudReplies'[k] = cloudReplies[k]
          /\ cloudReplies'[Len(cloudReplies) + 1] = reply
          /\ \A k \in 1..Len(cloudReplies') : k \in 1..Len(cloudReplies) \/ k = Len(cloudReplies) + 1
          /\ \A j, k \in 1..Len(cloudReplies') : cloudReplies'[j].id = cloudReplies'[k].id => j = k
          /\ \A id : HasReply(id)' <=> HasReply(id) \/ id = id0
      BY <2>2, <3>1, <3>2, <3>3, AddReply DEF CloudInv
    <3>5. \A id : /\ Serves(id)' <=> Serves(id)
                  /\ CallMade(id)' <=> CallMade(id)
      BY <3>1 DEF Serves, CallMade
    <3>6. StagesOK'
      BY <1>2, <1>4, <2>2, <2>3, <3>4, <3>5 DEF CloudInv, StagesOK
    <3>7. CallsOK'
      BY <1>2, <3>1, <3>5 DEF CloudInv, CallsOK, KeyIsRight, CallMade
    <3>8. RepliesOK'
      <4>1. ASSUME NEW k \in 1..Len(cloudReplies'), NEW r, r = cloudReplies'[k], r.result # <<>>
            PROVE  Given(r)'
        <5>1. k \in 1..Len(cloudReplies) /\ r = cloudReplies[k]
          BY <3>3, <3>4, <4>1
        <5>2. Given(r)
          BY <4>1, <5>1 DEF CloudInv, RepliesOK
        <5> QED
          BY <3>1, <5>2 DEF Given
      <4> QED
        BY <3>4, <4>1 DEF RepliesOK
    <3> QED
      BY <1>2, <1>3, <3>1, <3>4, <3>6, <3>7, <3>8 DEF CloudInv, CloudTyped
  <2> QED
    BY <2>4, <2>5
<1> QED
  BY <1>5, <1>6

LEMMA CloudReceiveKeeps ==
  ASSUME CloudInv, CloudReceive
  PROVE  CloudInv'
<1>1. PICK f : f = Head(cloudInbound)
  OBVIOUS
<1>2. /\ cloudNow.pc # "idle" /\ cloudInbound # <<>> /\ cloudInbound' = Tail(cloudInbound)
      /\ UNCHANGED <<cloudSent, cloudMissed, cloudVault, cloudTurns>> /\ f.kind = "answer"
      /\ IF cloudNow.pc = "secret" THEN AfterSecret(f.answer, f.call)
                               ELSE AfterHttp(f.answer, f.call)
  BY <1>1 DEF CloudReceive, Awaited
<1>3. /\ f \in FrameType /\ cloudInbound' \in Seq(FrameType) /\ WaitsOnce'
      /\ \A id : Waits(id)' <=> Waits(id)
  BY <1>1, <1>2, TakeFrame DEF CloudInv
<1>4. f.answer \in Answers /\ f.call \in Nat /\ f.call = cloudNow.call
  BY <1>1, <1>2, <1>3 DEF FrameType, CloudReceive, Awaited
<1>5. cloudNow.pc \in {"secret", "http"}
  BY <1>2, NowFields DEF CloudInv
<1> QED
  BY <1>2, <1>3, <1>4, <1>5, AfterSecretKeeps, AfterHttpKeeps

LEMMA CloudTimeoutKeeps ==
  ASSUME CloudInv, CloudTimeout
  PROVE  CloudInv'
<1>1. PICK a : a = [status |-> 0]
  OBVIOUS
<1>2. a \in Answers /\ a.status = 0
  BY <1>1 DEF Answers, SecretAnswers
<1>3. /\ cloudNow.pc # "idle"
      /\ UNCHANGED <<cloudSent, cloudInbound, cloudMissed, cloudVault, cloudTurns>>
      /\ IF cloudNow.pc = "secret" THEN AfterSecret(a, 0) ELSE AfterHttp(a, 0)
  BY <1>1 DEF CloudTimeout
<1>4. cloudNow.pc \in {"secret", "http"}
  BY <1>3, NowFields DEF CloudInv
<1>5. cloudInbound' \in Seq(FrameType) /\ WaitsOnce' /\ \A id : Waits(id)' <=> Waits(id)
  BY <1>3 DEF CloudInv, CloudTyped, WaitsOnce, Waits
<1> QED
  BY <1>2, <1>3, <1>4, <1>5, AfterSecretKeeps, AfterHttpKeeps

LEMMA CloudDiscardKeeps ==
  ASSUME CloudInv, CloudDiscard
  PROVE  CloudInv'
<1>1. PICK f : f = Head(cloudInbound)
  OBVIOUS
<1>2. /\ cloudInbound # <<>> /\ cloudInbound' = Tail(cloudInbound)
      /\ UNCHANGED <<cloudSent, cloudNow, cloudCalls, cloudReplies, cloudVault, cloudTurns>>
      /\ cloudMissed' = IF f.kind = "request" THEN cloudMissed \cup {f.id} ELSE cloudMissed
  BY <1>1 DEF CloudDiscard
<1>3. /\ f \in FrameType /\ cloudInbound' \in Seq(FrameType) /\ WaitsOnce'
      /\ f.kind = "request" =>
           /\ Waits(f.id)
           /\ \A id : Waits(id)' <=> Waits(id) /\ id # f.id
      /\ f.kind # "request" => \A id : Waits(id)' <=> Waits(id)
  BY <1>1, <1>2, TakeFrame DEF CloudInv
<1>4. \A id : /\ Serves(id)' <=> Serves(id)
              /\ HasReply(id)' <=> HasReply(id)
              /\ CallMade(id)' <=> CallMade(id)
  BY <1>2 DEF Serves, HasReply, CallMade
<1>5. StagesOK'
  <2>1. CASE f.kind # "request"
    BY <1>2, <1>3, <1>4, <2>1 DEF CloudInv, StagesOK
  <2>2. CASE f.kind = "request"
    <3>1. PICK id0 : id0 = f.id
      OBVIOUS
    <3>2. /\ Waits(id0) /\ \A id : Waits(id)' <=> Waits(id) /\ id # id0
          /\ \A id : id \in cloudMissed' <=> id \in cloudMissed \/ id = id0
      BY <1>2, <1>3, <2>2, <3>1
    <3> QED
      BY <1>2, <1>4, <3>2 DEF CloudInv, StagesOK
  <2> QED
    BY <2>1, <2>2
<1>6. CallsOK'
  BY <1>2, <1>4 DEF CloudInv, CallsOK, KeyIsRight, CallMade
<1>7. RepliesOK'
  BY <1>2, RepliesUntouched DEF CloudInv
<1> QED
  BY <1>2, <1>3, <1>5, <1>6, <1>7 DEF CloudInv, CloudTyped

\* A step that touches neither frames nor calls.
LEMMA CloudStays ==
  ASSUME CloudInv, cloudVault' \in VaultKeys,
         UNCHANGED <<cloudSent, cloudInbound, cloudNow, cloudCalls, cloudReplies, cloudMissed>>
  PROVE  CloudInv'
<1>1. \A id : /\ Waits(id)' <=> Waits(id)
              /\ Serves(id)' <=> Serves(id)
              /\ HasReply(id)' <=> HasReply(id)
              /\ CallMade(id)' <=> CallMade(id)
  BY DEF Waits, Serves, HasReply, CallMade
<1>2. CloudTyped' /\ WaitsOnce'
  BY DEF CloudInv, CloudTyped, WaitsOnce
<1>3. StagesOK'
  BY <1>1 DEF CloudInv, StagesOK
<1>4. CallsOK'
  BY <1>1 DEF CloudInv, CallsOK, KeyIsRight, CallMade
<1>5. RepliesOK'
  BY RepliesUntouched DEF CloudInv
<1> QED
  BY <1>2, <1>3, <1>4, <1>5 DEF CloudInv

\* Every result reported is made of the answer to the request's own HTTP call, with
\* the key answered to its own vault call, and every request that was received is
\* replied to once, unless it was discarded; whatever answers come late.
THEOREM CloudIsHonest == CloudSpec => []CloudAnswersAreOwn
<1>1. CloudInit => CloudInv
  BY DEF CloudInit, Idle, CloudInv, CloudTyped, WaitsOnce, StagesOK, CallsOK, RepliesOK, Waits,
         Serves, HasReply, CallMade, NowType
<1>2. CloudInv /\ [CloudNext]_cloudVars => CloudInv'
  <2> SUFFICES ASSUME CloudInv, [CloudNext]_cloudVars
               PROVE  CloudInv'
    OBVIOUS
  <2>1. CASE UNCHANGED cloudVars
    BY <2>1, CloudStays DEF cloudVars, CloudInv, CloudTyped
  <2>2. CASE VaultRotates
    BY <2>2, CloudStays DEF VaultRotates
  <2>3. ASSUME NEW r \in CloudRequests, CloudSend(r)
        PROVE  CloudInv'
    BY <2>3, CloudSendKeeps
  <2>4. ASSUME NEW n \in DOMAIN cloudCalls, SecretsAnswer(n) \/ NetworkAnswer(n)
        PROVE  CloudInv'
    <3>1. n \in 1..Len(cloudCalls)
      BY DEF CloudInv, CloudTyped
    <3>2. PICK a \in Answers : CallAnswered(n, a)
      <4>1. [status |-> 200, key |-> cloudVault] \in Answers /\ [status |-> 0] \in Answers
        BY DEF Answers, SecretAnswers, CloudInv, CloudTyped
      <4> QED
        BY <2>4, <4>1 DEF SecretsAnswer, NetworkAnswer, Answers
    <3> QED
      BY <3>1, <3>2, CallAnsweredKeeps
  <2> QED
    BY <2>1, <2>2, <2>3, <2>4, CloudAcceptKeeps, CloudReceiveKeeps, CloudTimeoutKeeps,
       CloudDiscardKeeps DEF CloudNext
<1>3. CloudInv => CloudAnswersAreOwn
  <2> SUFFICES ASSUME CloudInv
               PROVE  CloudAnswersAreOwn
    OBVIOUS
  <2>1. /\ DOMAIN cloudReplies = 1..Len(cloudReplies) /\ DOMAIN cloudCalls = 1..Len(cloudCalls)
        /\ DOMAIN cloudSent = 1..Len(cloudSent) /\ DOMAIN cloudInbound = 1..Len(cloudInbound)
    BY DEF CloudInv, CloudTyped
  <2>2. \A k \in 1..Len(cloudReplies) : LET reply == cloudReplies[k] IN
       reply.result # <<>> =>
         /\ cloudCalls[reply.call].kind = "http" /\ cloudCalls[reply.call].id = reply.id
         /\ cloudCalls[reply.call].got.status \in 200..299
         /\ cloudCalls[reply.call].from = reply.call
         /\ cloudCalls[reply.call].at = Endpoint(cloudSent[reply.id])
    <3>1. ASSUME NEW k \in 1..Len(cloudReplies), NEW reply, reply = cloudReplies[k],
                 reply.result # <<>>
          PROVE  /\ cloudCalls[reply.call].kind = "http" /\ cloudCalls[reply.call].id = reply.id
                 /\ cloudCalls[reply.call].got.status \in 200..299
                 /\ cloudCalls[reply.call].from = reply.call
                 /\ cloudCalls[reply.call].at = Endpoint(cloudSent[reply.id])
      <4>1. RepliesOK /\ CallsOK
        BY DEF CloudInv
      <4>2. Given(reply)
        BY <3>1, <4>1 DEF RepliesOK
      <4>3. \A n \in 1..Len(cloudCalls) :
              cloudCalls[n].at = Endpoint(cloudSent[cloudCalls[n].id])
        BY <4>1 DEF CallsOK
      <4> QED
        BY <4>2, <4>3 DEF Given
    <3> QED
      BY <3>1
  <2>3. \A n \in 1..Len(cloudCalls) :
         /\ cloudCalls[n].handle \in AllowedKeyEnvs
         /\ cloudCalls[n].kind = "http" => KeyIsRight(n)
    BY DEF CloudInv, CallsOK
  <2>4. ASSUME NEW id \in 1..Len(cloudSent)
        PROVE  /\ Cardinality(CallsOf(id)) <= 1 /\ Cardinality(RepliesTo(id)) <= 1
               /\ RepliesTo(id) = {} <=> OnItsWay(id) \/ id \in cloudMissed
    <3>1. \A m, n \in CallsOf(id) : m = n
      BY <2>1 DEF CallsOf, CloudInv, CallsOK
    <3>2. \A m, n \in RepliesTo(id) : m = n
      BY <2>1 DEF RepliesTo, CloudInv, RepliesOK
    <3>3. RepliesTo(id) = {} <=> ~HasReply(id)
      BY <2>1 DEF RepliesTo, HasReply
    <3>4. OnItsWay(id) <=> Waits(id) \/ Serves(id)
      <4>1. \A k \in 1..Len(cloudInbound) :
              cloudInbound[k] = [kind |-> "request", id |-> id]
                <=> cloudInbound[k].kind = "request" /\ cloudInbound[k].id = id
        <5> SUFFICES ASSUME NEW k \in 1..Len(cloudInbound)
                     PROVE  cloudInbound[k] = [kind |-> "request", id |-> id]
                              <=> cloudInbound[k].kind = "request" /\ cloudInbound[k].id = id
          OBVIOUS
        <5>1. PICK f : f = cloudInbound[k]
          OBVIOUS
        <5>2. f \in FrameType
          BY <5>1 DEF CloudInv, CloudTyped
        <5>3. f = [kind |-> "request", id |-> id] <=> f.kind = "request" /\ f.id = id
          BY <5>2 DEF FrameType
        <5> QED
          BY <5>1, <5>3
      <4>2. cloudNow # Idle <=> cloudNow.pc # "idle"
        BY NowFields DEF CloudInv
      <4> QED
        BY <2>1, <4>1, <4>2 DEF OnItsWay, Waits, Serves
    <3> QED
      BY <3>1, <3>2, <3>3, <3>4, AtMostOne DEF CloudInv, StagesOK
  <2> QED
    BY <2>1, <2>2, <2>3, <2>4 DEF CloudAnswersAreOwn
<1> QED
  BY <1>1, <1>2, <1>3, PTL DEF CloudSpec

=============================================================================
