------------------------------ MODULE LabelProofs ------------------------------
(***************************************************************************)
(* Proofs about the labels of training data.  Chunking, for every chunk    *)
(* length T and videos of any length with any annotations: types, the      *)
(* tiling of the video by the chunks, whose action a frame is labelled     *)
(* with, and that the assertion of annotate_frames cannot fail.            *)
(* ActionMapping, for any number of keys, buttons and places for them and  *)
(* moves of any length: what the tokens of an action mean.                 *)
(***************************************************************************)
EXTENDS Chunking, ActionMapping, FiniteSetTheorems, TLAPS

-----------------------------------------------------------------------------
(* Chunking: what a chunk is cut from *)

\* What is known of a chunk: its valid slots are the first ones, they hold consecutive
\* frames, and none of them is the last frame of the video nor lies at or beyond startFrame.
WellCut(c, bound) ==
  \E first \in Nat, len \in 1 .. T :
    /\ startFrame0 <= first /\ first + len <= bound /\ first + len < n
    /\ \A i \in Slots : c.valid[i] <=> i < len
    /\ \A i \in Slots : i < len => c.frames[i] = first + i

\* A valid frame of chunk c lies before every valid frame of chunk d.
Before(c, d) ==
  \A i, h \in Slots : c.valid[i] /\ d.valid[h] => c.frames[i] < d.frames[h]

\* The frames cut so far: up to startFrame, and after the tail all but the last.
Bound == IF pc = "done" /\ n >= 2 THEN n - 1 ELSE startFrame

Ordered == \A j, k \in 1 .. Len(chunks) : j < k => Before(chunks[j], chunks[k])
AllWellCut == \A k \in 1 .. Len(chunks) : WellCut(chunks[k], Bound)
AllCovered ==
  \A f \in startFrame0 .. Bound - 1 : \E k \in 1 .. Len(chunks) : Covers(chunks[k], f)
Started ==
  /\ pc = "parse" => chunks = <<>>
  /\ pc = "parse" => startFrame0 = 0 /\ startFrame = 0
  /\ pc = "main" => n >= 2 /\ startFrame + 1 <= n
  /\ pc = "done" /\ n < 2 => chunks = <<>> /\ startFrame0 = 0 /\ startFrame = 0
  /\ startFrame0 <= startFrame


\* A video with a whole chunk in it begins with one: until it is cut, it still fits.
FirstWhole ==
  n >= T + 1 =>
    /\ startFrame0 < T
    /\ pc = "main" => startFrame0 + (T + 1) <= n
    /\ pc = "main" /\ chunks = <<>> => startFrame = startFrame0
    /\ pc = "done" => chunks # <<>>
    /\ chunks # <<>> => \A i \in Slots : chunks[1].valid[i]

\* The inductive invariant.  Tiling says nothing of startFrame, which is why the next chunk
\* could overlap the last one as far as Tiling goes.
IInv == /\ TypeOK /\ AssertionHolds /\ Started /\ AllWellCut /\ Ordered /\ AllCovered
        /\ FirstWhole /\ LabelledWithNextFrame

\* LabelledWithNextFrame of one chunk.
Labelled(c) ==
  \A i \in Slots :
    LET next == c.frames[i] + 1
        actor == IF c.valid[i] /\ next < Len(notes) THEN Actor(notes[next + 1]) ELSE "nobody"
    IN  (c.user[i] <=> actor = "user") /\ (c.system[i] <=> actor = "system")

-----------------------------------------------------------------------------
\* A chunk made by annotate_frames has the right shape (annotate_frames).
LEMMA AnnotateType ==
  ASSUME TypeOK, NEW first \in Nat, NEW end \in Nat, NEW len \in 1 .. T, n >= 1
  PROVE  Annotate(first, end, len) \in Chunk
<1>1. T \in Nat \ {0} /\ n \in Nat
  BY ChunkingAssumption DEF TypeOK
<1> DEFINE c == Annotate(first, end, len)
<1>2. c.frames \in [Slots -> Nat]
  BY <1>1 DEF Annotate, Slots
<1>3. c.valid \in [Slots -> BOOLEAN] /\ c.user \in [Slots -> BOOLEAN]
      /\ c.system \in [Slots -> BOOLEAN]
  BY DEF Annotate
<1>4. c.put \in BOOLEAN
  BY DEF Annotate
<1>5. c = [frames |-> c.frames, valid |-> c.valid, user |-> c.user, system |-> c.system,
           put |-> c.put]
  BY DEF Annotate
<1>6. ASSUME NEW d, d.frames \in [Slots -> Nat], d.valid \in [Slots -> BOOLEAN],
             d.user \in [Slots -> BOOLEAN], d.system \in [Slots -> BOOLEAN], d.put \in BOOLEAN,
             d = [frames |-> d.frames, valid |-> d.valid, user |-> d.user,
                  system |-> d.system, put |-> d.put]
      PROVE  d \in Chunk
  BY <1>6 DEF Chunk
<1>7. c \in Chunk
  BY <1>2, <1>3, <1>4, <1>5, <1>6
<1>8. QED
  BY <1>7

\* No slot beyond the valid ones is labelled: the slice of annotations ends where they do
\* (annotate_frames, called with end = first + len + 1).
LEMMA AnnotateLabelsValid ==
  ASSUME NEW first \in Nat, NEW len \in 1 .. T, T \in Nat
  PROVE  OnlyValidLabelled(Annotate(first, first + len + 1, len))
<1> DEFINE c == Annotate(first, first + len + 1, len)
<1>1. ASSUME NEW i \in Slots, ~(i < len) PROVE ~c.user[i] /\ ~c.system[i]
  <2>1. NoteOf(first, first + len + 1, i) = {}
    BY <1>1 DEF NoteOf, Slots
  <2>2. QED
    BY <2>1 DEF Annotate
<1>2. \A i \in Slots : c.valid[i] <=> i < len
  BY DEF Annotate
<1>3. QED
  BY <1>1, <1>2 DEF OnlyValidLabelled

\* The slice of annotations starts one frame later than the chunk (annotate_frames).
LEMMA AnnotateLabels ==
  ASSUME NEW first \in Nat, NEW len \in 1 .. T, T \in Nat, notes \in Seq(SUBSET Actors)
  PROVE  Labelled(Annotate(first, first + len + 1, len))
<1> DEFINE c == Annotate(first, first + len + 1, len)
           note(i) == NoteOf(first, first + len + 1, i)
           next(i) == c.frames[i] + 1
           actor(i) == IF c.valid[i] /\ next(i) < Len(notes) THEN Actor(notes[next(i) + 1]) ELSE "nobody"
<1>1. ASSUME NEW i \in Slots
      PROVE  (c.user[i] <=> actor(i) = "user") /\ (c.system[i] <=> actor(i) = "system")
  <2>1. i \in Nat /\ i < T
    BY DEF Slots
  <2>2. /\ c.valid[i] <=> i < len
        /\ c.user[i] <=> "user" \in note(i) /\ "system" \notin note(i)
        /\ c.system[i] <=> "system" \in note(i)
    BY DEF Annotate
  <2>3. CASE i < len /\ first + i + 1 < Len(notes)
    <3>1. c.frames[i] = first + i
      BY <2>3 DEF Annotate
    <3>2. note(i) = notes[first + i + 2]
      <4>1. first + 1 + i < first + len + 1 /\ first + 1 + i < Len(notes)
        BY <2>1, <2>3
      <4>2. QED
        BY <4>1 DEF NoteOf
    <3>3. next(i) + 1 = first + i + 2 /\ next(i) < Len(notes)
      <4> HIDE DEF c
      <4>1. QED
        BY <2>1, <2>3, <3>1
    <3>4. actor(i) = Actor(note(i))
      BY <2>2, <2>3, <3>2, <3>3
    <3> HIDE DEF c, note, actor
    <3>5. QED
      BY <2>2, <3>4 DEF Actor
  <2>4. CASE ~(i < len /\ first + i + 1 < Len(notes))
    <3>1. note(i) = {}
      <4>1. ~(first + 1 + i < first + len + 1 /\ first + 1 + i < Len(notes))
        BY <2>1, <2>4
      <4>2. QED
        BY <4>1 DEF NoteOf
    <3>2. i < len => c.frames[i] = first + i
      BY DEF Annotate
    <3> HIDE DEF c
    <3>3. actor(i) = "nobody"
      BY <2>1, <2>2, <2>4, <3>2
    <3> HIDE DEF actor, note
    <3>4. QED
      BY <2>2, <3>1, <3>3
  <2>5. QED
    BY <2>3, <2>4
<1>2. QED
  BY <1>1 DEF Labelled

\* Labels of the chunks cut before stay as they are.
LEMMA AppendLabelled ==
  ASSUME LabelledWithNextFrame, NEW c, Labelled(c), chunks \in Seq(Chunk), c \in Chunk,
         chunks' = Append(chunks, c), notes' = notes
  PROVE  LabelledWithNextFrame'
<1>1. \A k \in 1 .. Len(chunks) : Labelled(chunks[k])
  BY DEF LabelledWithNextFrame, Labelled
<1>2. \A k \in 1 .. Len(chunks') : Labelled(chunks'[k])
  <2>1. /\ Len(chunks') = Len(chunks) + 1 /\ Len(chunks) \in Nat
        /\ \A k \in 1 .. Len(chunks) : chunks'[k] = chunks[k]
        /\ chunks'[Len(chunks) + 1] = c
    OBVIOUS
  <2>2. QED
    BY <1>1, <2>1
<1>3. QED
  BY <1>2 DEF LabelledWithNextFrame, Labelled

\* Cutting one more chunk at startFrame keeps the chunks well cut, in order and gapless
\* (the body of the loop and the tail of _preprocess_example).
LEMMA AppendChunk ==
  ASSUME IInv, NEW len \in 1 .. T, NEW c \in Chunk, NEW b \in Nat,
         pc = "main", startFrame + len < n, b = startFrame + len,
         \A i \in Slots : c.valid[i] <=> i < len,
         \A i \in Slots : i < len => c.frames[i] = startFrame + i,
         chunks' = Append(chunks, c), UNCHANGED <<startFrame0, n>>, Bound' = b
  PROVE  AllWellCut' /\ Ordered' /\ AllCovered'
<1>1. /\ T \in Nat /\ T > 0 /\ n \in Nat /\ startFrame \in Nat /\ startFrame0 \in Nat
      /\ chunks \in Seq(Chunk) /\ startFrame0 <= startFrame /\ Bound = startFrame
  BY ChunkingAssumption DEF IInv, TypeOK, Started, Bound
<1>2. /\ Len(chunks') = Len(chunks) + 1 /\ Len(chunks) \in Nat
      /\ \A k \in 1 .. Len(chunks) : chunks'[k] = chunks[k]
      /\ chunks'[Len(chunks) + 1] = c
  BY <1>1
<1>3. WellCut(c, b)' = WellCut(c, b)
  BY DEF WellCut
<1>4. WellCut(c, b)
  <2>1. /\ startFrame0 <= startFrame /\ startFrame + len <= b /\ startFrame + len < n
        /\ \A i \in Slots : c.valid[i] <=> i < len
        /\ \A i \in Slots : i < len => c.frames[i] = startFrame + i
    BY <1>1
  <2>2. QED
    BY <2>1, <1>1 DEF WellCut
<1>5. ASSUME NEW d, WellCut(d, startFrame) PROVE WellCut(d, b) /\ Before(d, c)
  <2>1. PICK first \in Nat, m \in 1 .. T :
          /\ startFrame0 <= first /\ first + m <= startFrame /\ first + m < n
          /\ \A i \in Slots : d.valid[i] <=> i < m
          /\ \A i \in Slots : i < m => d.frames[i] = first + i
    BY <1>5 DEF WellCut
  <2>2. first + m <= b
    BY <2>1, <1>1
  <2>3. WellCut(d, b)
    BY <2>1, <2>2 DEF WellCut
  <2>4. ASSUME NEW i \in Slots, NEW h \in Slots, d.valid[i], c.valid[h]
        PROVE  d.frames[i] < c.frames[h]
    <3>1. d.frames[i] = first + i /\ i < m
      BY <2>1, <2>4
    <3>2. c.frames[h] = startFrame + h
      BY <2>4
    <3>3. i \in Nat /\ h \in Nat
      BY <1>1 DEF Slots
    <3>4. QED
      BY <3>1, <3>2, <3>3, <2>1, <1>1
  <2>5. QED
    BY <2>3, <2>4 DEF Before
<1>6. \A k \in 1 .. Len(chunks) : WellCut(chunks[k], startFrame)
  BY <1>1 DEF IInv, AllWellCut
<1>7. AllWellCut'
  <2>1. \A k \in 1 .. Len(chunks) + 1 : WellCut(chunks'[k], b)
    BY <1>2, <1>4, <1>5, <1>6
  <2>2. \A d : WellCut(d, b)' <=> WellCut(d, b)
    BY DEF WellCut
  <2>3. \A k \in 1 .. Len(chunks') : WellCut(chunks'[k], Bound')
    BY <2>1, <1>2
  <2>4. QED
    BY <2>3 DEF AllWellCut, WellCut
<1>8. Ordered'
  <2>1. \A j, k \in 1 .. Len(chunks) : j < k => Before(chunks[j], chunks[k])
    BY DEF IInv, Ordered
  <2>2. ASSUME NEW j \in 1 .. Len(chunks'), NEW k \in 1 .. Len(chunks'), j < k
        PROVE  Before(chunks'[j], chunks'[k])
    <3>1. j \in 1 .. Len(chunks) /\ chunks'[j] = chunks[j]
      BY <2>2, <1>2
    <3>2. CASE k = Len(chunks) + 1
      BY <3>1, <3>2, <1>2, <1>5, <1>6
    <3>3. CASE k # Len(chunks) + 1
      <4>1. k \in 1 .. Len(chunks) /\ chunks'[k] = chunks[k]
        BY <3>3, <1>2
      <4>2. QED
        BY <4>1, <3>1, <2>1, <2>2
    <3>4. QED
      BY <3>2, <3>3
  <2>3. QED
    BY <2>2 DEF Ordered, Before
<1>9. AllCovered'
  <2>1. ASSUME NEW f \in startFrame0 .. b - 1
        PROVE  \E k \in 1 .. Len(chunks') : Covers(chunks'[k], f)
    <3>1. CASE f < startFrame
      <4>1. f \in startFrame0 .. Bound - 1
        BY <3>1, <1>1, <2>1
      <4>2. PICK k \in 1 .. Len(chunks) : Covers(chunks[k], f)
        BY <4>1 DEF IInv, AllCovered
      <4>3. k \in 1 .. Len(chunks') /\ chunks'[k] = chunks[k]
        BY <1>2, <4>2
      <4>4. QED
        BY <4>2, <4>3
    <3>2. CASE ~(f < startFrame)
      <4>1. /\ f - startFrame \in Slots /\ f - startFrame < len
            /\ startFrame + (f - startFrame) = f
        BY <3>2, <1>1, <2>1 DEF Slots
      <4>2. c.valid[f - startFrame] /\ c.frames[f - startFrame] = f
        BY <4>1
      <4>3. Covers(c, f)
        BY <4>1, <4>2 DEF Covers
      <4>4. Len(chunks') \in 1 .. Len(chunks') /\ chunks'[Len(chunks')] = c
        BY <1>2
      <4>5. QED
        BY <4>3, <4>4
    <3>3. QED
      BY <3>1, <3>2
  <2>2. QED
    BY <2>1 DEF AllCovered, Covers
<1>10. QED
  BY <1>7, <1>8, <1>9

-----------------------------------------------------------------------------
LEMMA InitIInv == Init => IInv
<1> SUFFICES ASSUME Init PROVE IInv
  OBVIOUS
<1>1. startFrame0 = 0 /\ startFrame = 0 /\ chunks = <<>> /\ pc = "parse" /\ Bound = 0
  BY DEF Init, Bound
<1>2. TypeOK
  <2>1. notes \in Seq(SUBSET Actors)
    <3>1. PICK m \in Lengths : notes \in [1 .. m -> SUBSET Actors]
      BY DEF Init
    <3>2. m \in Nat
      BY ChunkingAssumption
    <3>3. QED
      BY <3>1, <3>2
  <2>2. chunks \in Seq(Chunk)
    BY <1>1
  <2>3. QED
    BY <2>1, <2>2, <1>1 DEF Init, TypeOK
<1>3. Len(chunks) = 0
  BY <1>1
<1>4. FirstWhole
  BY <1>1, ChunkingAssumption DEF FirstWhole
<1>5. QED
  BY <1>1, <1>2, <1>3, <1>4
    DEF IInv, AssertionHolds, Started, AllWellCut, Ordered, AllCovered, LabelledWithNextFrame

\* No chunk, no label.
LEMMA NothingLabelled ==
  ASSUME chunks' = <<>>
  PROVE  LabelledWithNextFrame'
BY DEF LabelledWithNextFrame

\* A step that ends the video or starts the main loop without cutting anything.
LEMMA NothingCut ==
  ASSUME IInv, pc = "parse", UNCHANGED <<n, chunks>>, startFrame0' = startFrame',
         startFrame' \in Nat, Bound' = startFrame'
  PROVE  AllWellCut' /\ Ordered' /\ AllCovered'
<1>1. chunks' = <<>> /\ Len(chunks') = 0
  BY DEF IInv, Started
<1>2. \A k : k \notin 1 .. Len(chunks')
  BY <1>1
<1>3. \A f : f \notin startFrame0' .. Bound' - 1
  OBVIOUS
<1>4. AllWellCut' /\ Ordered'
  BY <1>2 DEF AllWellCut, Ordered
<1>5. AllCovered'
  BY <1>3 DEF AllCovered
<1>6. QED
  BY <1>4, <1>5

\* The loop's body.
LEMMA MainChunkIInv == IInv /\ MainChunk => IInv'
<1> SUFFICES ASSUME IInv, MainChunk PROVE IInv'
  OBVIOUS
<1> DEFINE c == Annotate(startFrame, startFrame + (T + 1), T)
<1>1. /\ T \in Nat \ {0} /\ n \in Nat /\ startFrame \in Nat /\ startFrame0 \in Nat
      /\ chunks \in Seq(Chunk) /\ T \in 1 .. T
      /\ pc = "main" /\ startFrame + (T + 1) <= n /\ n >= 1 /\ n \in Lengths
      /\ notes \in Seq(SUBSET Actors) /\ options \in Options /\ startFrame0 <= startFrame
      /\ UNCHANGED <<options, n, notes, startFrame0>>
  BY ChunkingAssumption DEF IInv, TypeOK, MainChunk, Started
<1>2. c \in Chunk
  BY <1>1, AnnotateType DEF IInv
<1>3. OnlyValidLabelled(c)
  <2>1. startFrame + (T + 1) = startFrame + T + 1
    BY <1>1
  <2>2. QED
    BY <1>1, <2>1, AnnotateLabelsValid
<1>labels. Labelled(c)
  <2>1. startFrame + (T + 1) = startFrame + T + 1
    BY <1>1
  <2>2. QED
    BY <1>1, <2>1, AnnotateLabels
<1>4. /\ \A i \in Slots : c.valid[i] <=> i < T
      /\ \A i \in Slots : i < T => c.frames[i] = startFrame + i
  BY DEF Annotate
<1>5. chunks' = Append(chunks, c) /\ startFrame' = startFrame + T /\ pc' = "main"
  BY <1>1, <1>3 DEF MainChunk, Cut
<1> HIDE DEF c
<1>6. TypeOK'
  BY <1>1, <1>2, <1>5 DEF TypeOK
<1>7. Bound' = startFrame + T
  BY <1>5 DEF Bound
<1>8. AllWellCut' /\ Ordered' /\ AllCovered'
  <2>1. startFrame + T < n /\ startFrame + T \in Nat
    BY <1>1
  <2>2. QED
    BY <1>1, <1>2, <1>4, <1>5, <1>7, <2>1, AppendChunk
<1>9. AssertionHolds' /\ Started'
  BY <1>1, <1>5 DEF AssertionHolds, Started, IInv
<1>10. LabelledWithNextFrame'
  BY <1>1, <1>2, <1>5, <1>labels, AppendLabelled DEF IInv
<1>11. FirstWhole'
  <2>1. \A i \in Slots : c.valid[i]
    BY <1>1, <1>4 DEF Slots
  <2>2. chunks' # <<>> /\ chunks'[1] = IF chunks = <<>> THEN c ELSE chunks[1]
    BY <1>1, <1>2, <1>5
  <2>3. n >= T + 1 /\ startFrame0 < T /\ startFrame0 + (T + 1) <= n
        /\ (chunks # <<>> => \A i \in Slots : chunks[1].valid[i])
    BY <1>1 DEF IInv, FirstWhole
  <2>4. QED
    BY <1>1, <1>5, <2>1, <2>2, <2>3 DEF FirstWhole
<1>12. QED
  BY <1>6, <1>8, <1>9, <1>10, <1>11 DEF IInv

\* The tail, if there is one.
LEMMA FinalTailIInv == IInv /\ FinalTail => IInv'
<1> SUFFICES ASSUME IInv, FinalTail PROVE IInv'
  OBVIOUS
<1> DEFINE len == n - 1 - startFrame
           c == Annotate(startFrame, n, len)
<1>1. /\ T \in Nat \ {0} /\ n \in Nat /\ startFrame \in Nat /\ startFrame0 \in Nat
      /\ chunks \in Seq(Chunk)
      /\ pc = "main" /\ startFrame + (T + 1) > n /\ n >= 2 /\ n \in Lengths
      /\ startFrame + 1 <= n
      /\ notes \in Seq(SUBSET Actors) /\ options \in Options /\ startFrame0 <= startFrame
      /\ UNCHANGED <<options, n, notes, startFrame0, startFrame>>
  BY ChunkingAssumption DEF IInv, TypeOK, FinalTail, Started
<1>2. CASE startFrame < n - 1
  <2>1. len \in 1 .. T /\ startFrame + len < n /\ n - 1 = startFrame + len /\ n - 1 \in Nat
        /\ n = startFrame + len + 1
    BY <1>1, <1>2
  <2>2. c \in Chunk
    BY <1>1, <2>1, AnnotateType DEF IInv
  <2>3. OnlyValidLabelled(c)
    BY <1>1, <2>1, AnnotateLabelsValid
  <2>labels. Labelled(c)
    BY <1>1, <2>1, AnnotateLabels
  <2>4. /\ \A i \in Slots : c.valid[i] <=> i < len
        /\ \A i \in Slots : i < len => c.frames[i] = startFrame + i
    BY DEF Annotate
  <2>5. chunks' = Append(chunks, c) /\ pc' = "done"
    BY <1>1, <1>2, <2>3 DEF FinalTail, Cut
  <2> HIDE DEF c
  <2>6. TypeOK'
    BY <1>1, <2>2, <2>5 DEF TypeOK
  <2>7. Bound' = n - 1
    BY <1>1, <2>5 DEF Bound
  <2> HIDE DEF len
  <2>8. AllWellCut' /\ Ordered' /\ AllCovered'
    BY <1>1, <2>1, <2>2, <2>4, <2>5, <2>7, AppendChunk
  <2>9. AssertionHolds' /\ Started'
    BY <1>1, <2>5 DEF AssertionHolds, Started, IInv
  <2>10. LabelledWithNextFrame'
    BY <1>1, <2>2, <2>5, <2>labels, AppendLabelled DEF IInv
  <2>11. FirstWhole'
    <3>1. ASSUME n >= T + 1 PROVE chunks # <<>>
      BY <1>1, <3>1 DEF IInv, FirstWhole
    <3>2. chunks # <<>> => chunks' # <<>> /\ chunks'[1] = chunks[1]
      BY <1>1, <2>2, <2>5
    <3>3. QED
      BY <1>1, <2>5, <3>1, <3>2 DEF IInv, FirstWhole
  <2>12. QED
    BY <2>6, <2>8, <2>9, <2>10, <2>11 DEF IInv
<1>3. CASE ~(startFrame < n - 1)
  <2>1. pc' = "done" /\ chunks' = chunks /\ startFrame = n - 1
    BY <1>1, <1>3 DEF FinalTail
  <2>2. Bound' = Bound /\ Bound = startFrame
    BY <1>1, <2>1 DEF Bound
  <2>3. AllWellCut' /\ Ordered' /\ AllCovered'
    BY <1>1, <2>1, <2>2
      DEF IInv, AllWellCut, WellCut, Ordered, Before, AllCovered, Covers
  <2>4. TypeOK' /\ AssertionHolds' /\ Started'
    BY <1>1, <2>1 DEF TypeOK, AssertionHolds, Started, IInv
  <2>5. LabelledWithNextFrame'
    BY <1>1, <2>1 DEF IInv, LabelledWithNextFrame
  <2>6. FirstWhole'
    BY <1>1, <2>1 DEF IInv, FirstWhole
  <2>7. QED
    BY <2>3, <2>4, <2>5, <2>6 DEF IInv
<1>4. QED
  BY <1>2, <1>3

LEMMA StepIInv == IInv /\ [Next]_vars => IInv'
<1> SUFFICES ASSUME IInv, [Next]_vars PROVE IInv'
  OBVIOUS
<1>1. CASE ParseError
  <2>1. pc = "parse" /\ pc' = "failed" /\ chunks = <<>> /\ options.alwaysLabelled
        /\ startFrame0 = 0 /\ startFrame = 0
        /\ UNCHANGED <<options, n, notes, startFrame0, startFrame, chunks>>
    BY <1>1 DEF ParseError, IInv, Started
  <2>2. TypeOK' /\ AssertionHolds' /\ Started'
    BY <2>1 DEF IInv, TypeOK, AssertionHolds, Started
  <2>3. AllWellCut' /\ Ordered' /\ AllCovered'
    BY <2>1, NothingCut DEF Bound
  <2>4. LabelledWithNextFrame' /\ FirstWhole'
    BY <2>1, NothingLabelled, ChunkingAssumption DEF FirstWhole
  <2>5. QED
    BY <2>2, <2>3, <2>4 DEF IInv
<1>2. CASE TooShort
  <2>1. pc = "parse" /\ pc' = "done" /\ n < 2 /\ chunks = <<>>
        /\ startFrame0 = 0 /\ startFrame = 0
        /\ UNCHANGED <<options, n, notes, startFrame0, startFrame, chunks>>
    BY <1>2 DEF TooShort, Parsed, IInv, Started
  <2>2. TypeOK' /\ AssertionHolds' /\ Started'
    BY <2>1 DEF IInv, TypeOK, AssertionHolds, Started
  <2>3. Bound' = startFrame'
    BY <2>1, ChunkingAssumption DEF Bound, IInv, TypeOK
  <2>4. AllWellCut' /\ Ordered' /\ AllCovered'
    BY <2>1, <2>3, NothingCut
  <2>5. LabelledWithNextFrame' /\ FirstWhole'
    BY <2>1, NothingLabelled, ChunkingAssumption DEF FirstWhole, IInv, TypeOK
  <2>6. QED
    BY <2>2, <2>4, <2>5 DEF IInv
<1>3. CASE ChooseStart
  <2>1. pc = "parse" /\ pc' = "main" /\ n >= 2 /\ chunks = <<>>
        /\ startFrame' = startFrame0' /\ UNCHANGED <<options, n, notes, chunks>>
    BY <1>3 DEF ChooseStart, Parsed, IInv, Started
  <2>2. /\ startFrame' \in Nat /\ startFrame' + 1 <= n
        /\ n >= T + 1 => startFrame' < T /\ startFrame' + (T + 1) <= n
    <3>1. T \in Nat \ {0} /\ n \in Nat
      BY ChunkingAssumption DEF IInv, TypeOK
    <3>2. /\ Cap \in Nat /\ Cap + 1 <= n
          /\ n >= T + 1 => Cap < T /\ Cap + (T + 1) <= n
      BY <3>1, <2>1 DEF Cap
    <3>3. startFrame0' \in 0 .. Cap \/ startFrame0' = 0
      BY <1>3 DEF ChooseStart
    <3>4. QED
      BY <3>1, <3>2, <3>3, <2>1
  <2>3. TypeOK' /\ AssertionHolds' /\ Started'
    BY <2>1, <2>2 DEF IInv, TypeOK, AssertionHolds, Started
  <2>4. AllWellCut' /\ Ordered' /\ AllCovered'
    BY <2>1, <2>2, NothingCut DEF Bound
  <2>5. LabelledWithNextFrame' /\ FirstWhole'
    BY <2>1, <2>2, NothingLabelled DEF FirstWhole
  <2>6. QED
    BY <2>3, <2>4, <2>5 DEF IInv
<1>4. CASE MainChunk
  BY <1>4, MainChunkIInv
<1>5. CASE FinalTail
  BY <1>5, FinalTailIInv
<1>6. CASE UNCHANGED vars
  <2>1. UNCHANGED <<options, n, notes, pc, startFrame0, startFrame, chunks>>
    BY <1>6 DEF vars
  <2>2. TypeOK' /\ AssertionHolds' /\ Started' /\ FirstWhole' /\ LabelledWithNextFrame'
    BY <2>1 DEF IInv, TypeOK, AssertionHolds, Started, FirstWhole, LabelledWithNextFrame
  <2>3. Bound' = Bound
    BY <2>1 DEF Bound
  <2>4. AllWellCut'
    <3>1. AllWellCut
      BY DEF IInv
    <3>2. ASSUME NEW c, NEW b PROVE WellCut(c, b)' <=> WellCut(c, b)
      BY ONLY <2>1 DEF WellCut
    <3>3. QED
      BY ONLY <2>1, <2>3, <3>1, <3>2 DEF AllWellCut
  <2>5. Ordered'
    BY <2>1 DEF IInv, Ordered, Before
  <2>6. AllCovered'
    BY <2>1, <2>3 DEF IInv, AllCovered, Covers
  <2>7. QED
    BY <2>2, <2>4, <2>5, <2>6 DEF IInv
<1>7. QED
  BY <1>1, <1>2, <1>3, <1>4, <1>5, <1>6 DEF Next

\* The invariant says what Tiling says.
LEMMA IInvTiles == IInv => Tiling
<1> SUFFICES ASSUME IInv PROVE Tiling
  OBVIOUS
<1>1. chunks \in Seq(Chunk) /\ Len(chunks) \in Nat /\ T \in Nat /\ n \in Nat
      /\ startFrame0 \in Nat /\ startFrame \in Nat
  BY ChunkingAssumption DEF IInv, TypeOK
<1>2. ASSUME NEW j \in 1 .. Len(chunks), NEW k \in 1 .. Len(chunks), NEW i \in Slots,
             NEW h \in Slots, chunks[j].valid[i], chunks[k].valid[h],
             chunks[j].frames[i] = chunks[k].frames[h]
      PROVE  j = k /\ i = h
  <2>1. chunks[j].frames[i] \in Nat /\ chunks[k].frames[h] \in Nat
    <3>1. chunks[j] \in Chunk /\ chunks[k] \in Chunk
      BY <1>1
    <3>2. \A c \in Chunk : c.frames \in [Slots -> Nat]
      BY DEF Chunk
    <3>3. QED
      BY <3>1, <3>2
  <2>2. ~(j < k) /\ ~(k < j)
    BY <1>2, <2>1 DEF IInv, Ordered, Before
  <2>3. j = k
    BY <2>2
  <2>4. PICK first \in Nat, len \in 1 .. T :
          /\ \A x \in Slots : chunks[j].valid[x] <=> x < len
          /\ \A x \in Slots : x < len => chunks[j].frames[x] = first + x
    <3>1. WellCut(chunks[j], Bound)
      BY DEF IInv, AllWellCut
    <3>2. QED
      BY ONLY <3>1 DEF WellCut
  <2>5. chunks[j].frames[i] = first + i /\ chunks[j].frames[h] = first + h
    BY <1>2, <2>3, <2>4
  <2>6. i \in Nat /\ h \in Nat
    BY <1>1 DEF Slots
  <2>7. i = h
    BY <1>2, <2>3, <2>5, <2>6
  <2>8. QED
    BY <2>3, <2>7
<1>3. ASSUME pc = "done", n >= 2, NEW f \in startFrame0 .. n - 2
      PROVE  \E k \in 1 .. Len(chunks) : Covers(chunks[k], f)
  <2>1. f \in startFrame0 .. Bound - 1
    BY <1>1, <1>3 DEF Bound
  <2>2. QED
    BY <2>1 DEF IInv, AllCovered
<1>4. ASSUME pc = "done", n >= T + 1
      PROVE  startFrame0 < T /\ chunks # <<>> /\ \A i \in Slots : chunks[1].valid[i]
  BY <1>4 DEF IInv, FirstWhole
<1>5. QED
  BY <1>2, <1>3, <1>4 DEF Tiling

-----------------------------------------------------------------------------
LEMMA Invariance == Spec => []IInv
<1>1. QED
  BY InitIInv, StepIInv, PTL DEF Spec

\* Every variable of _preprocess_example keeps its type, a chunk always T slots of each kind.
THEOREM TypeCorrect == Spec => []TypeOK
<1>1. IInv => TypeOK
  BY DEF IInv
<1>2. QED
  BY <1>1, Invariance, PTL

\* Whatever T, the length of the video, the random offset and the annotations are, the
\* chunks of _preprocess_example are disjoint and miss no frame from the offset on, and a
\* video of T + 1 frames or more starts with a whole chunk (the bound of start_frame).
THEOREM ChunksTile == Spec => []Tiling
<1>1. QED
  BY IInvTiles, Invariance, PTL

\* Whatever was annotated, a frame is labelled with who acted on the next frame of the
\* video, across the seam of two chunks too, and a padded slot with nobody.
THEOREM LabelsFollow == Spec => []LabelledWithNextFrame
<1>1. IInv => LabelledWithNextFrame
  BY DEF IInv
<1>2. QED
  BY <1>1, Invariance, PTL

\* The assertion of annotate_frames cannot fail, and no video is given up half way.
THEOREM NeverFails == Spec => []AssertionHolds
<1>1. IInv => AssertionHolds
  BY DEF IInv
<1>2. QED
  BY <1>1, Invariance, PTL

-----------------------------------------------------------------------------
(* ActionMapping: the bins of the mouse *)

\* The whole pixels of a bin are those between its edges, the upper one included.
InBin(axis, b, m) ==
  /\ b >= 1 => Edges[axis][b] < 10 * m
  /\ b < Len(Edges[axis]) => 10 * m <= Edges[axis][b + 1]

LEMMA EdgesGrow ==
  ASSUME NEW axis \in Axes
  PROVE  /\ Len(Edges[axis]) \in Nat \ {0} /\ DOMAIN Edges[axis] = 1 .. Len(Edges[axis])
         /\ \A i \in 1 .. Len(Edges[axis]) : Edges[axis][i] \in Int
         /\ \A i, j \in 1 .. Len(Edges[axis]) : i < j => Edges[axis][i] < Edges[axis][j]
<1>1. CASE axis = "x"
  <2>1. Len(Edges["x"]) = 22 /\ DOMAIN Edges["x"] = 1 .. 22
    BY DEF Edges
  <2>2. /\ \A i \in 1 .. 22 : Edges["x"][i] \in Int
        /\ \A i, j \in 1 .. 22 : i < j => Edges["x"][i] < Edges["x"][j]
    BY DEF Edges
  <2> QED
    BY <1>1, <2>1, <2>2
<1>2. CASE axis = "y"
  <2>1. Len(Edges["y"]) = 16 /\ DOMAIN Edges["y"] = 1 .. 16
    BY DEF Edges
  <2>2. /\ \A i \in 1 .. 16 : Edges["y"][i] \in Int
        /\ \A i, j \in 1 .. 16 : i < j => Edges["y"][i] < Edges["y"][j]
    BY DEF Edges
  <2> QED
    BY <1>2, <2>1, <2>2
<1> QED
  BY <1>1, <1>2 DEF Axes

LEMMA BinIsInBin ==
  ASSUME NEW axis \in Axes, NEW m \in Int
  PROVE  Bin(axis, m) \in 0 .. NBins(axis) - 1 /\ InBin(axis, Bin(axis, m), m)
<1> DEFINE E == Edges[axis]
           A == {i \in 1 .. Len(E) : E[i] < 10 * m}
           c == Cardinality(A)
<1>1. /\ Len(E) \in Nat /\ DOMAIN E = 1 .. Len(E)
      /\ \A i \in 1 .. Len(E) : E[i] \in Int
      /\ \A i, j \in 1 .. Len(E) : i < j => E[i] < E[j]
  BY EdgesGrow
<1>2. Bin(axis, m) = c
  BY <1>1 DEF Bin
<1> HIDE DEF E
<1>3. IsFiniteSet(1 .. Len(E)) /\ Cardinality(1 .. Len(E)) = Len(E)
  BY <1>1, FS_Interval
<1>4. IsFiniteSet(A) /\ c \in Nat /\ c <= Len(E)
  BY <1>1, <1>3, FS_Subset, FS_CardinalityType
<1>5. \A i \in A : i \in 1 .. c
  <2> SUFFICES ASSUME NEW i \in A PROVE i <= c
    OBVIOUS
  <2>1. 1 .. i \subseteq A
    BY <1>1
  <2>2. i \in Nat /\ Cardinality(1 .. i) = i
    BY <1>1, FS_Interval
  <2> HIDE DEF A
  <2>3. Cardinality(1 .. i) <= Cardinality(A)
    BY <1>4, <2>1, FS_Subset
  <2> QED
    BY <2>2, <2>3
<1>6. A = 1 .. c
  <2>1. IsFiniteSet(1 .. c) /\ Cardinality(1 .. c) = c
    BY <1>4, FS_Interval
  <2> HIDE DEF A
  <2> QED
    BY <1>5, <2>1, FS_Subset
<1> HIDE DEF c
<1>7. c >= 1 => E[c] < 10 * m
  BY <1>4, <1>6
<1>8. c < Len(E) => 10 * m <= E[c + 1]
  <2> SUFFICES ASSUME c < Len(E) PROVE 10 * m <= E[c + 1]
    OBVIOUS
  <2>1. c + 1 \in 1 .. Len(E) /\ c + 1 \notin A
    BY <1>1, <1>4, <1>6
  <2> QED
    BY <1>1, <2>1
<1> QED
  BY <1>1, <1>2, <1>4, <1>7, <1>8 DEF InBin, NBins, E

LEMMA BinIsUnique ==
  ASSUME NEW axis \in Axes, NEW m \in Int, NEW b \in 0 .. NBins(axis) - 1, InBin(axis, b, m)
  PROVE  Bin(axis, m) = b
<1> DEFINE E == Edges[axis]
           c == Bin(axis, m)
<1>1. /\ Len(E) \in Nat
      /\ \A i \in 1 .. Len(E) : E[i] \in Int
      /\ \A i, j \in 1 .. Len(E) : i < j => E[i] < E[j]
  BY EdgesGrow
<1>2. b \in 0 .. Len(E) /\ (b >= 1 => E[b] < 10 * m) /\ (b < Len(E) => 10 * m <= E[b + 1])
  BY <1>1 DEF InBin, NBins
<1>3. c \in 0 .. Len(E) /\ (c >= 1 => E[c] < 10 * m) /\ (c < Len(E) => 10 * m <= E[c + 1])
  BY <1>1, BinIsInBin DEF InBin, NBins
<1> HIDE DEF E, c
<1>4. ~(b < c)
  <2> SUFFICES ASSUME b < c PROVE FALSE
    OBVIOUS
  <2>1. E[b + 1] <= E[c] /\ E[b + 1] \in Int /\ E[c] \in Int
    BY <1>1, <1>2, <1>3
  <2> QED
    BY <1>1, <1>2, <1>3, <2>1
<1>5. ~(c < b)
  <2> SUFFICES ASSUME c < b PROVE FALSE
    OBVIOUS
  <2>1. E[c + 1] <= E[b] /\ E[c + 1] \in Int /\ E[b] \in Int
    BY <1>1, <1>2, <1>3
  <2> QED
    BY <1>1, <1>2, <1>3, <2>1
<1> QED
  BY <1>1, <1>2, <1>3, <1>4, <1>5 DEF c

\* The tables of the centers and of the conservative centers keep to the bins.
LEMMA CentersInBin ==
  ASSUME NEW axis \in Axes, NEW b \in 0 .. NBins(axis) - 1,
         NEW m \in {Centers[axis][b + 1], ConservativeCenters[axis][b + 1]}
  PROVE  m \in Int /\ InBin(axis, b, m)
<1>1. CASE axis = "x"
  BY <1>1 DEF Edges, Centers, ConservativeCenters, InBin, NBins
<1>2. CASE axis = "y"
  BY <1>2 DEF Edges, Centers, ConservativeCenters, InBin, NBins
<1> QED
  BY <1>1, <1>2 DEF Axes

\* round moves by half a pixel at most.
LEMMA RoundNear ==
  \A z \in Int : Round(z) \in Int /\ z - 5 <= 10 * Round(z) /\ 10 * Round(z) <= z + 5
BY DEF Round

\* A whole pixel stays.
LEMMA RoundTens ==
  ASSUME NEW k \in Int
  PROVE  Round(10 * k) = k
<1>1. 10 * k \in Int
  OBVIOUS
<1>2. Round(10 * k) \in Int /\ 10 * k - 5 <= 10 * Round(10 * k) /\ 10 * Round(10 * k) <= 10 * k + 5
  BY <1>1, RoundNear
<1> QED
  BY ONLY <1>2, k \in Int

\* Edges are a tenth below a whole pixel on the negative side and whole on the other, which
\* is what Bounds relies on; and no bin has pixels of both signs.
LEMMA EdgesShape ==
  ASSUME NEW axis \in Axes, NEW b \in 1 .. Len(Edges[axis]) - 1
  PROVE  LET lb == Edges[axis][b]
             ub == Edges[axis][b + 1]
         IN  \/ /\ lb = 10 * ((lb + 1) \div 10) - 1 /\ ub = 10 * ((ub + 1) \div 10) - 1
                /\ lb < 0 /\ ub < 0
             \/ lb < 0 /\ ub = 0
             \/ lb = 10 * (lb \div 10) /\ ub = 10 * (ub \div 10) /\ lb >= 0 /\ ub >= 0
<1>1. CASE axis = "x"
  BY <1>1 DEF Edges
<1>2. CASE axis = "y"
  BY <1>2 DEF Edges
<1> QED
  BY <1>1, <1>2 DEF Axes

\* What tensor_to_action draws from a bin lies in it, the open bins at both ends included.
LEMMA DrawsInBin ==
  ASSUME NEW axis \in Axes, NEW b \in 0 .. NBins(axis) - 1, NEW m \in Moves("truncated_normal", axis, b)
  PROVE  m \in Int /\ InBin(axis, b, m)
<1> DEFINE e == Edges[axis]
           bd == IF b = 0 THEN <<e[1] - 10, e[1] - 10>>
                 ELSE IF b = NBins(axis) - 1 THEN <<Last(e) + 10, Last(e) + 10>>
                 ELSE Bounds(e[b], e[b + 1])
           lo == bd[1]
           hi == IF bd[2] <= bd[1] THEN bd[1] ELSE bd[2]
<1>1. m \in Round(lo) .. Round(hi)
  BY DEF Moves
<1>2. /\ Len(e) \in Nat /\ NBins(axis) - 1 = Len(e) /\ b \in 0 .. Len(e) /\ Last(e) = e[Len(e)]
      /\ \A i \in 1 .. Len(e) : e[i] \in Int
      /\ \A i, j \in 1 .. Len(e) : i < j => e[i] < e[j]
  BY EdgesGrow DEF NBins, Last
<1>3. Len(e) >= 1
  BY EdgesGrow
<1>4. CASE b = 0
  <2>1. lo = e[1] - 10 /\ hi = e[1] - 10 /\ e[1] \in Int
    BY <1>2, <1>3, <1>4
  <2> HIDE DEF lo, hi, e
  <2>2. lo \in Int /\ hi = lo
    BY <2>1
  <2>3. Round(lo) \in Int /\ lo - 5 <= 10 * Round(lo) /\ 10 * Round(lo) <= lo + 5
    BY <2>2, RoundNear
  <2>4. m = Round(lo)
    BY <1>1, <2>2, <2>3
  <2>5. m \in Int /\ 10 * m <= e[1]
    BY <2>1, <2>3, <2>4
  <2> QED
    BY <1>4, <2>5 DEF InBin, e
<1>5. CASE b = Len(e)
  <2>1. lo = e[b] + 10 /\ hi = e[b] + 10 /\ e[b] \in Int /\ b >= 1
    BY <1>2, <1>3, <1>5
  <2> HIDE DEF lo, hi, e
  <2>2. lo \in Int /\ hi = lo
    BY <2>1
  <2>3. Round(lo) \in Int /\ lo - 5 <= 10 * Round(lo) /\ 10 * Round(lo) <= lo + 5
    BY <2>2, RoundNear
  <2>4. m = Round(lo)
    BY <1>1, <2>2, <2>3
  <2>5. m \in Int /\ e[b] < 10 * m
    BY <2>1, <2>3, <2>4
  <2> QED
    BY <1>5, <2>1, <2>5 DEF InBin, e
<1>6. CASE b # 0 /\ b # Len(e)
  <2> DEFINE lb == e[b]
             ub == e[b + 1]
  <2>1. b \in 1 .. Len(e) - 1 /\ lb \in Int /\ ub \in Int /\ lb < ub
    BY <1>2, <1>6
  <2>2. bd = Bounds(lb, ub)
    BY <1>2, <1>6
  <2>3. \/ /\ lb = 10 * ((lb + 1) \div 10) - 1 /\ ub = 10 * ((ub + 1) \div 10) - 1
           /\ lb < 0 /\ ub < 0
        \/ lb < 0 /\ ub = 0
        \/ lb = 10 * (lb \div 10) /\ ub = 10 * (ub \div 10) /\ lb >= 0 /\ ub >= 0
    BY <2>1, EdgesShape
  <2>4. m \in Int /\ lb < 10 * m /\ 10 * m <= ub
    <3> HIDE DEF bd, e
    <3>1. CASE lb < 0 /\ ub < 0
      <4> DEFINE p == (lb + 1) \div 10
                 q == (ub + 1) \div 10
      <4>1. lb = 10 * p - 1 /\ ub = 10 * q - 1 /\ p \in Int /\ q \in Int
        BY <2>1, <2>3, <3>1
      <4> HIDE DEF p, q
      <4>2. p < q /\ bd = <<10 * p, 10 * (q - 1)>>
        BY <2>1, <2>2, <3>1, <4>1 DEF Bounds
      <4>3. lo = 10 * p /\ hi = 10 * (q - 1)
        BY <4>1, <4>2
      <4>4. Round(lo) = p /\ Round(hi) = q - 1
        <5>1. p \in Int /\ q - 1 \in Int
          BY ONLY <4>1
        <5> QED
          BY <4>3, <5>1, RoundTens
      <4> QED
        BY <1>1, <4>1, <4>4
    <3>2. CASE lb < 0 /\ ub = 0
      <4>1. bd = <<0, 0>> /\ 0 = 10 * 0
        BY <2>2, <3>2 DEF Bounds
      <4>2. Round(lo) = 0 /\ Round(hi) = 0
        BY <4>1, RoundNear
      <4> QED
        BY <1>1, <3>2, <4>2
    <3>3. CASE lb >= 0 /\ ub >= 0
      <4> DEFINE p == lb \div 10
                 q == ub \div 10
      <4>1. lb = 10 * p /\ ub = 10 * q /\ p \in Int /\ q \in Int
        BY <2>1, <2>3, <3>3
      <4> HIDE DEF p, q
      <4>2. p < q /\ bd = <<10 * (p + 1), 10 * q>>
        BY <2>1, <2>2, <3>3, <4>1 DEF Bounds
      <4>3. lo = 10 * (p + 1) /\ hi = 10 * q
        BY <4>1, <4>2
      <4>4. Round(lo) = p + 1 /\ Round(hi) = q
        <5>1. p + 1 \in Int /\ q \in Int
          BY ONLY <4>1
        <5> QED
          BY <4>3, <5>1, RoundTens
      <4> QED
        BY <1>1, <4>1, <4>4
    <3> QED
      BY <2>3, <3>1, <3>2, <3>3
  <2> QED
    BY <2>4 DEF InBin
<1> QED
  BY <1>4, <1>5, <1>6

\* Whatever move is made of a bin, it has that bin (action_mapping.py: three tables, the
\* bounds of a bin and round).
LEMMA MovesReadBack ==
  ASSUME NEW approach \in Approaches, NEW axis \in Axes, NEW b \in 0 .. NBins(axis) - 1,
         NEW m \in Moves(approach, axis, b)
  PROVE  m \in Int /\ Bin(axis, m) = b
<1>1. CASE approach = "truncated_normal"
  BY <1>1, DrawsInBin, BinIsUnique
<1>2. CASE approach # "truncated_normal"
  <2>1. m \in {Centers[axis][b + 1], ConservativeCenters[axis][b + 1]}
    BY <1>2 DEF Moves, Approaches
  <2> QED
    BY <2>1, CentersInBin, BinIsUnique
<1> QED
  BY <1>1, <1>2

LEMMA ShortestOfBin ==
  ASSUME NEW axis \in Axes, NEW b \in 0 .. NBins(axis) - 1, NEW m \in Int, InBin(axis, b, m)
  PROVE  IF m > 0 THEN 0 < ConservativeCenters[axis][b + 1] /\ ConservativeCenters[axis][b + 1] <= m
         ELSE ConservativeCenters[axis][b + 1] <= 0 /\ m <= ConservativeCenters[axis][b + 1]
<1>1. CASE axis = "x"
  BY <1>1 DEF Edges, ConservativeCenters, InBin, NBins
<1>2. CASE axis = "y"
  BY <1>2 DEF Edges, ConservativeCenters, InBin, NBins
<1> QED
  BY <1>1, <1>2 DEF Axes

-----------------------------------------------------------------------------
(* Keys and buttons *)

LEMMA SortedHasAll ==
  ASSUME NEW S \in SUBSET Nat, IsFiniteSet(S)
  PROVE  /\ Cardinality(S) \in Nat /\ Len(Sorted(S)) = Cardinality(S)
         /\ \A i \in 1 .. Cardinality(S) : Sorted(S)[i] \in S
         /\ \A k \in S : \E i \in 1 .. Cardinality(S) : Sorted(S)[i] = k
<1> DEFINE upTo(k) == {m \in S : m <= k}
           rank == [k \in S |-> Cardinality(upTo(k))]
           c == Cardinality(S)
<1>1. c \in Nat /\ IsFiniteSet(1 .. c) /\ Cardinality(1 .. c) = c
  BY FS_CardinalityType, FS_Interval
<1>2. ASSUME NEW k \in S PROVE IsFiniteSet(upTo(k)) /\ rank[k] \in 1 .. c
  <2>1. IsFiniteSet(upTo(k)) /\ Cardinality(upTo(k)) \in Nat /\ Cardinality(upTo(k)) <= c
    BY FS_Subset, FS_CardinalityType
  <2>2. upTo(k) # {}
    OBVIOUS
  <2> HIDE DEF upTo
  <2>3. Cardinality(upTo(k)) # 0
    BY <2>1, <2>2, FS_EmptySet
  <2> QED
    BY <1>1, <2>1, <2>3
<1>3. ASSUME NEW k \in S, NEW l \in S, k < l PROVE rank[k] < rank[l]
  <2>0. k \in Nat /\ l \in Nat
    OBVIOUS
  <2>a. \A m \in S : m \in Nat
    OBVIOUS
  <2>b. \A m \in S : m <= k => m <= l
    BY <1>3, <2>0, <2>a
  <2>c. ~(l <= k) /\ l <= l
    BY <1>3, <2>0
  <2>1. upTo(k) \subseteq upTo(l) /\ l \in upTo(l) /\ l \notin upTo(k)
    BY <2>b, <2>c
  <2>2. IsFiniteSet(upTo(k)) /\ IsFiniteSet(upTo(l)) /\ rank[k] \in Nat /\ rank[l] \in Nat
    BY <1>2
  <2> HIDE DEF upTo
  <2>3. Cardinality(upTo(k)) <= Cardinality(upTo(l)) /\ Cardinality(upTo(k)) # Cardinality(upTo(l))
    BY <2>1, <2>2, FS_Subset
  <2> QED
    BY <2>2, <2>3
<1> HIDE DEF c
<1>4. rank \in Injection(S, 1 .. c)
  <2>1. rank \in [S -> 1 .. c]
    BY <1>2
  <2>2. \A k, l \in S : rank[k] = rank[l] => k = l
    <3> SUFFICES ASSUME NEW k \in S, NEW l \in S, rank[k] = rank[l] PROVE k = l
      OBVIOUS
    <3>1. rank[k] \in Nat /\ ~(k < l) /\ ~(l < k)
      BY <1>2, <1>3
    <3> QED
      BY <3>1
  <2> HIDE DEF rank
  <2> QED
    BY <2>1, <2>2 DEF Injection, IsInjective
<1>5. rank \in Surjection(S, 1 .. c)
  <2> HIDE DEF rank
  <2> QED
    BY <1>1, <1>4, FS_Injection DEF c
<1>6. \A i \in 1 .. c : \E k \in S : Cardinality(upTo(k)) = i
  <2>1. \A i \in 1 .. c : \E k \in S : rank[k] = i
    <3> HIDE DEF rank
    <3> QED
      BY <1>5 DEF Surjection
  <2> HIDE DEF upTo
  <2> QED
    BY <2>1
<1>7. \A i \in 1 .. c : Sorted(S)[i] \in S /\ rank[Sorted(S)[i]] = i
  <2> SUFFICES ASSUME NEW i \in 1 .. c PROVE Sorted(S)[i] \in S /\ Cardinality(upTo(Sorted(S)[i])) = i
    OBVIOUS
  <2>1. Sorted(S)[i] = CHOOSE k \in S : Cardinality(upTo(k)) = i
    BY DEF Sorted, c
  <2> HIDE DEF upTo
  <2> QED
    BY <1>6, <2>1
<1> HIDE DEF rank
<1>8. \A k \in S : rank[k] \in 1 .. c /\ Sorted(S)[rank[k]] = k
  BY <1>4, <1>7 DEF Injection, IsInjective
<1>9. Len(Sorted(S)) = c
  BY <1>1 DEF Sorted, c
<1> QED
  BY <1>1, <1>7, <1>8, <1>9 DEF c

\* What the tokens of a set of keys name: some of them, and all if there are places enough.
LEMMA TokensName ==
  ASSUME NEW S \in SUBSET Nat, IsFiniteSet(S), NEW max \in Nat
  PROVE  /\ TokensOf(S, max) \in [1 .. max -> S \union {0}]
         /\ ToSet(TokensOf(S, max)) \ {0} \subseteq S \ {0}
         /\ Cardinality(S \ {0}) <= max => ToSet(TokensOf(S, max)) \ {0} = S \ {0}
<1> DEFINE R == S \ {0}
           t == TokensOf(S, max)
<1>1. IsFiniteSet(R) /\ R \in SUBSET Nat
  BY FS_Subset
<1>2. /\ Cardinality(R) \in Nat /\ Len(Sorted(R)) = Cardinality(R)
      /\ \A i \in 1 .. Cardinality(R) : Sorted(R)[i] \in R
      /\ \A k \in R : \E i \in 1 .. Cardinality(R) : Sorted(R)[i] = k
  BY <1>1, SortedHasAll
<1>3. t = [i \in 1 .. max |-> IF i <= Cardinality(R) THEN Sorted(R)[i] ELSE 0]
  BY <1>2 DEF TokensOf
<1> HIDE DEF R, t
<1>4. \A i \in 1 .. max : t[i] \in R \union {0}
  BY <1>2, <1>3
<1>5. ToSet(t) = {t[i] : i \in 1 .. max}
  BY <1>3 DEF ToSet
<1>6. Cardinality(R) <= max => \A k \in R : k \in ToSet(t)
  BY <1>2, <1>3, <1>5
<1>7. t \in [1 .. max -> S \union {0}]
  BY <1>3, <1>4 DEF R
<1>8. 0 \notin R
  BY DEF R
<1> QED
  BY <1>4, <1>5, <1>6, <1>7, <1>8 DEF R, t

\* Tokens name no more keys than they have places.
LEMMA TokensBound ==
  ASSUME NEW max \in Nat, NEW S, NEW t \in [1 .. max -> S]
  PROVE  IsFiniteSet(ToSet(t) \ {0}) /\ Cardinality(ToSet(t) \ {0}) <= max
<1>1. IsFiniteSet(1 .. max) /\ Cardinality(1 .. max) = max
  BY FS_Interval
<1>2. t \in Surjection(1 .. max, ToSet(t))
  BY DEF ToSet, Surjection
<1>3. IsFiniteSet(ToSet(t)) /\ Cardinality(ToSet(t)) <= max
  BY <1>1, <1>2, FS_Surjection
<1>4. IsFiniteSet(ToSet(t) \ {0}) /\ Cardinality(ToSet(t) \ {0}) <= Cardinality(ToSet(t))
  BY <1>3, FS_Subset
<1>5. Cardinality(ToSet(t) \ {0}) \in Nat /\ Cardinality(ToSet(t)) \in Nat
  BY <1>3, <1>4, FS_CardinalityType
<1> QED
  BY <1>3, <1>4, <1>5

-----------------------------------------------------------------------------
(* Encoding what was decoded *)

Tokens == [keys : [1 .. MaxKeys -> Keys], buttons : [1 .. MaxButtons -> Buttons],
           x : 0 .. NBins("x") - 1, y : 0 .. NBins("y") - 1]
Actions == [keys : SUBSET Keys, buttons : SUBSET Buttons, x : Int, y : Int]

LEMMA Numbers ==
  /\ NKeys \in Nat /\ NButtons \in Nat /\ MaxKeys \in Nat /\ MaxButtons \in Nat
  /\ \A S \in SUBSET Keys : S \in SUBSET Nat /\ IsFiniteSet(S) /\ S \union {0} \subseteq Keys
  /\ \A S \in SUBSET Buttons : S \in SUBSET Nat /\ IsFiniteSet(S) /\ S \union {0} \subseteq Buttons
<1>1. NKeys \in Nat /\ NButtons \in Nat /\ MaxKeys \in Nat /\ MaxButtons \in Nat
  BY MappingAssumption
<1>2. IsFiniteSet(0 .. NKeys) /\ IsFiniteSet(0 .. NButtons)
  BY <1>1, FS_Interval
<1>3. \A S \in SUBSET Keys : IsFiniteSet(S)
  BY <1>2, FS_Subset DEF Keys
<1>4. \A S \in SUBSET Buttons : IsFiniteSet(S)
  BY <1>2, FS_Subset DEF Buttons
<1> QED
  BY <1>1, <1>3, <1>4 DEF Keys, Buttons

LEMMA EncodedType ==
  ASSUME NEW a \in Actions
  PROVE  Encoded(a) \in Tokens
<1>1. a.keys \in SUBSET Keys /\ a.buttons \in SUBSET Buttons /\ a.x \in Int /\ a.y \in Int
  BY DEF Actions
<1>2. TokensOf(a.keys, MaxKeys) \in [1 .. MaxKeys -> Keys]
  <2>1. TokensOf(a.keys, MaxKeys) \in [1 .. MaxKeys -> a.keys \union {0}] /\ a.keys \union {0} \subseteq Keys
    BY <1>1, Numbers, TokensName
  <2> QED
    BY <2>1
<1>3. TokensOf(a.buttons, MaxButtons) \in [1 .. MaxButtons -> Buttons]
  <2>1. /\ TokensOf(a.buttons, MaxButtons) \in [1 .. MaxButtons -> a.buttons \union {0}]
        /\ a.buttons \union {0} \subseteq Buttons
    BY <1>1, Numbers, TokensName
  <2> QED
    BY <2>1
<1>4. Bin("x", a.x) \in 0 .. NBins("x") - 1 /\ Bin("y", a.y) \in 0 .. NBins("y") - 1
  BY <1>1, BinIsInBin DEF Axes
<1> QED
  BY <1>2, <1>3, <1>4 DEF Encoded, Tokens

LEMMA DecodedType ==
  ASSUME NEW approach \in Approaches, NEW t \in Tokens, NEW a \in Decoded(approach, t)
  PROVE  /\ a \in Actions
         /\ a.keys = ToSet(t.keys) \ {0} /\ a.buttons = ToSet(t.buttons) \ {0}
         /\ Bin("x", a.x) = t.x /\ Bin("y", a.y) = t.y
<1>1. /\ t.keys \in [1 .. MaxKeys -> Keys] /\ t.buttons \in [1 .. MaxButtons -> Buttons]
      /\ t.x \in 0 .. NBins("x") - 1 /\ t.y \in 0 .. NBins("y") - 1
  BY DEF Tokens
<1>2. /\ a.keys = ToSet(t.keys) \ {0} /\ a.buttons = ToSet(t.buttons) \ {0}
      /\ a.x \in Moves(approach, "x", t.x) /\ a.y \in Moves(approach, "y", t.y)
      /\ a = [keys |-> a.keys, buttons |-> a.buttons, x |-> a.x, y |-> a.y]
  BY DEF Decoded
<1>3. a.x \in Int /\ Bin("x", a.x) = t.x /\ a.y \in Int /\ Bin("y", a.y) = t.y
  BY <1>1, <1>2, MovesReadBack DEF Axes
<1>4. ToSet(t.keys) \subseteq Keys /\ ToSet(t.buttons) \subseteq Buttons
  BY <1>1 DEF ToSet
<1>5. a.keys \in SUBSET Keys /\ a.buttons \in SUBSET Buttons
  BY <1>2, <1>4
<1> QED
  BY <1>2, <1>3, <1>5 DEF Actions

\* Encoding what was decoded gives tokens of the same meaning, whatever approach decoded it.
LEMMA EncodeDecoded ==
  ASSUME NEW approach \in Approaches, NEW t \in Tokens, NEW a \in Decoded(approach, t)
  PROVE  LET again == Encoded(a)
         IN  /\ ToSet(again.keys) \ {0} = ToSet(t.keys) \ {0}
             /\ ToSet(again.buttons) \ {0} = ToSet(t.buttons) \ {0}
             /\ again.x = t.x /\ again.y = t.y
<1>1. /\ a.keys \in SUBSET Keys /\ a.buttons \in SUBSET Buttons
      /\ a.keys = ToSet(t.keys) \ {0} /\ a.buttons = ToSet(t.buttons) \ {0}
      /\ Bin("x", a.x) = t.x /\ Bin("y", a.y) = t.y
  BY DecodedType DEF Actions
<1>2. t.keys \in [1 .. MaxKeys -> Keys] /\ t.buttons \in [1 .. MaxButtons -> Buttons]
  BY DEF Tokens
<1>3. ToSet(TokensOf(a.keys, MaxKeys)) \ {0} = a.keys
  <2>1. Cardinality(a.keys) <= MaxKeys /\ a.keys \ {0} = a.keys
    BY <1>1, <1>2, Numbers, TokensBound
  <2> QED
    BY <1>1, <2>1, Numbers, TokensName
<1>4. ToSet(TokensOf(a.buttons, MaxButtons)) \ {0} = a.buttons
  <2>1. Cardinality(a.buttons) <= MaxButtons /\ a.buttons \ {0} = a.buttons
    BY <1>1, <1>2, Numbers, TokensBound
  <2> QED
    BY <1>1, <2>1, Numbers, TokensName
<1> QED
  BY <1>1, <1>3, <1>4 DEF Encoded

\* What "conservative" makes of the label of a.
LEMMA ReadLabel ==
  ASSUME NEW a \in Actions, NEW r \in Decoded("conservative", Encoded(a))
  PROVE  /\ r.keys \subseteq a.keys /\ r.buttons \subseteq a.buttons
         /\ Cardinality(a.keys \ {0}) <= MaxKeys => r.keys = a.keys \ {0}
         /\ Cardinality(a.buttons \ {0}) <= MaxButtons => r.buttons = a.buttons \ {0}
         /\ \A axis \in Axes :
              IF a[axis] > 0 THEN 0 < r[axis] /\ r[axis] <= a[axis]
              ELSE r[axis] <= 0 /\ a[axis] <= r[axis]
<1>1. a.keys \in SUBSET Keys /\ a.buttons \in SUBSET Buttons /\ a.x \in Int /\ a.y \in Int
  BY DEF Actions
<1>2. /\ r.keys = ToSet(TokensOf(a.keys, MaxKeys)) \ {0}
      /\ r.buttons = ToSet(TokensOf(a.buttons, MaxButtons)) \ {0}
      /\ r.x = ConservativeCenters["x"][Bin("x", a.x) + 1]
      /\ r.y = ConservativeCenters["y"][Bin("y", a.y) + 1]
  BY DEF Decoded, Encoded, Moves
<1>3. /\ ToSet(TokensOf(a.keys, MaxKeys)) \ {0} \subseteq a.keys \ {0}
      /\ Cardinality(a.keys \ {0}) <= MaxKeys => ToSet(TokensOf(a.keys, MaxKeys)) \ {0} = a.keys \ {0}
  BY <1>1, Numbers, TokensName
<1>4. /\ ToSet(TokensOf(a.buttons, MaxButtons)) \ {0} \subseteq a.buttons \ {0}
      /\ Cardinality(a.buttons \ {0}) <= MaxButtons =>
           ToSet(TokensOf(a.buttons, MaxButtons)) \ {0} = a.buttons \ {0}
  BY <1>1, Numbers, TokensName
<1>5. ASSUME NEW axis \in Axes
      PROVE  IF a[axis] > 0 THEN 0 < r[axis] /\ r[axis] <= a[axis]
             ELSE r[axis] <= 0 /\ a[axis] <= r[axis]
  <2>1. a[axis] \in Int /\ r[axis] = ConservativeCenters[axis][Bin(axis, a[axis]) + 1]
    BY <1>1, <1>2 DEF Axes
  <2>2. Bin(axis, a[axis]) \in 0 .. NBins(axis) - 1 /\ InBin(axis, Bin(axis, a[axis]), a[axis])
    BY <2>1, BinIsInBin
  <2> QED
    BY <2>1, <2>2, ShortestOfBin
<1> QED
  BY <1>2, <1>3, <1>4, <1>5

-----------------------------------------------------------------------------
(* The inductive invariant *)

\* The label of the action at first, and later the action one that the tokens can mean.
MappingInv ==
  /\ action \in Actions /\ tokens \in Tokens /\ earlier \in Tokens
  /\ stage \in {"start", "encoded"} => earlier = Encoded(action)
  /\ stage \in {"decoded", "again"} => \E approach \in Approaches : action \in Decoded(approach, earlier)
  /\ stage = "again" => tokens = Encoded(action)

LEMMA InitMapping == MappingInit => MappingInv
<1> SUFFICES ASSUME MappingInit PROVE MappingInv
  OBVIOUS
<1>1. None \in Actions
  BY DEF None, Actions
<1> QED
  BY <1>1, EncodedType DEF MappingInit, MappingInv

LEMMA NextMapping == MappingInv /\ [MappingNext]_mappingVars => MappingInv'
<1> SUFFICES ASSUME MappingInv, [MappingNext]_mappingVars PROVE MappingInv'
  OBVIOUS
<1>1. CASE RecordAction
  <2>1. action' \in Actions
    <3>1. \A S \in UNION {kSubset(i, Keys) : i \in 0 .. MostKeys} : S \in SUBSET Keys
      BY DEF kSubset
    <3>2. Reach \in Nat
      BY MappingAssumption
    <3> QED
      BY <1>1, <3>1, <3>2 DEF RecordAction, Actions
  <2>2. tokens' = Encoded(action') /\ earlier' = Encoded(action') /\ stage' = "encoded"
    BY <1>1 DEF RecordAction
  <2> QED
    BY <2>1, <2>2, EncodedType DEF MappingInv
<1>2. CASE Sample
  <2>1. tokens' \in Tokens
    <3>1. Bin("x", 0) \in 0 .. NBins("x") - 1 /\ Bin("y", 0) \in 0 .. NBins("y") - 1
      BY BinIsInBin DEF Axes
    <3>2. tokens.keys \in [1 .. MaxKeys -> Keys] /\ tokens.buttons \in [1 .. MaxButtons -> Buttons]
      BY DEF MappingInv, Tokens
    <3> QED
      BY <1>2, <3>1, <3>2 DEF Sample, Tokens
  <2>2. action' = action /\ earlier' = earlier /\ stage = "start" /\ stage' = "encoded"
    BY <1>2 DEF Sample
  <2> QED
    BY <2>1, <2>2 DEF MappingInv
<1>3. ASSUME NEW approach \in Approaches, Decode(approach) PROVE MappingInv'
  <2>1. /\ action' \in Decoded(approach, tokens) /\ earlier' = tokens /\ tokens' = tokens /\ stage' = "decoded"
        /\ tokens \in Tokens
    BY <1>3 DEF Decode, MappingInv
  <2>2. action' \in Actions
    BY <2>1, DecodedType
  <2> QED
    BY <2>1, <2>2 DEF MappingInv
<1>4. CASE Reencode
  <2>1. tokens' = Encoded(action) /\ action' = action /\ earlier' = earlier /\ stage = "decoded" /\ stage' = "again"
    BY <1>4 DEF Reencode
  <2>2. Encoded(action) \in Tokens
    BY EncodedType DEF MappingInv
  <2> QED
    BY <2>1, <2>2 DEF MappingInv
<1>5. CASE StartOver
  <2>1. action' = None /\ tokens' = Encoded(None) /\ earlier' = Encoded(None) /\ stage' = "start"
    BY <1>5 DEF StartOver
  <2>2. None \in Actions
    BY DEF None, Actions
  <2> QED
    BY <2>1, <2>2, EncodedType DEF MappingInv
<1>6. CASE UNCHANGED mappingVars
  BY <1>6 DEF mappingVars, MappingInv
<1> QED
  BY <1>1, <1>2, <1>3, <1>4, <1>5, <1>6 DEF MappingNext

LEMMA MappingInvariance == MappingSpec => []MappingInv
BY InitMapping, NextMapping, PTL DEF MappingSpec

\* An action decoded from any tokens by any approach and encoded again means what the tokens
\* meant (action_to_tensor after tensor_to_action, action_mapping.py), with any number of
\* keys, buttons and places for them.
THEOREM TokensReadBackTheorem == MappingSpec => []TokensReadBack
<1>1. MappingInv => TokensReadBack
  <2> SUFFICES ASSUME MappingInv, stage = "again"
               PROVE  /\ ToSet(tokens.keys) \ {0} = ToSet(earlier.keys) \ {0}
                      /\ ToSet(tokens.buttons) \ {0} = ToSet(earlier.buttons) \ {0}
                      /\ tokens.x = earlier.x /\ tokens.y = earlier.y
    BY DEF TokensReadBack
  <2>1. PICK approach \in Approaches : action \in Decoded(approach, earlier)
    BY DEF MappingInv
  <2>2. tokens = Encoded(action) /\ earlier \in Tokens
    BY DEF MappingInv
  <2> QED
    BY <2>1, <2>2, EncodeDecoded
<1> QED
  BY <1>1, MappingInvariance, PTL

\* The conservative reading of the label of a recorded action presses nothing that was not
\* pressed, forgets nothing there was place for, and moves in the same direction and no
\* further, for moves of any length.
THEOREM LabelsFaithfulTheorem == MappingSpec => []LabelsFaithful
<1>1. MappingInv => LabelsFaithful
  <2> SUFFICES ASSUME MappingInv, stage = "encoded", tokens = earlier, NEW r \in Decoded("conservative", tokens)
               PROVE  /\ r.keys \subseteq action.keys /\ r.buttons \subseteq action.buttons
                      /\ Cardinality(action.keys \ {0}) <= MaxKeys => r.keys = action.keys \ {0}
                      /\ Cardinality(action.buttons \ {0}) <= MaxButtons => r.buttons = action.buttons \ {0}
                      /\ \A axis \in Axes :
                           IF action[axis] > 0 THEN 0 < r[axis] /\ r[axis] <= action[axis]
                           ELSE r[axis] <= 0 /\ action[axis] <= r[axis]
    BY DEF LabelsFaithful
  <2>1. action \in Actions /\ tokens = Encoded(action)
    BY DEF MappingInv
  <2> QED
    BY <2>1, ReadLabel
<1> QED
  BY <1>1, MappingInvariance, PTL
=============================================================================
