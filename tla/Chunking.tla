------------------------------- MODULE Chunking -------------------------------
(***************************************************************************)
(* How a preprocess worker cuts a video into training chunks and labels    *)
(* their frames: _preprocess_example (elefant/data/video_proto_dataset.py) *)
(* with annotate_frames of elefant/data/action_label_video_proto_dataset.py.*)
(* A chunk has T frames; the label of a frame is the action annotated on   *)
(* the frame AFTER it.  Frames count from 0 as in the code; an annotation  *)
(* is abstracted to who is known to have acted: the user, a system, both   *)
(* or nobody.  Decoding, resizing and text are left out.                   *)
(***************************************************************************)
EXTENDS Naturals, Sequences

CONSTANTS T,        \* frames per chunk
          Lengths   \* frame counts a video may have, annotation counts of a proto

ASSUME ChunkingAssumption == T \in Nat \ {0} /\ Lengths \subseteq Nat

Actors == {"user", "system"}
Slots == 0 .. T - 1
Options == [shuffle : BOOLEAN,        \* config.shuffle
            alwaysLabelled : BOOLEAN, \* always_labelled
            drop : BOOLEAN]           \* drop_chunks_with_only_system_actions

VARIABLES
  options,
  n,          \* n_frames
  notes,      \* frame_annotations: notes[f + 1] belongs to frame f
  pc,         \* "parse", "main", "done", or "failed" when an exception ended the video
  startFrame0,
  startFrame,
  chunks      \* the chunks cut so far; "put" says if annotate_frames returned it

vars == <<options, n, notes, pc, startFrame0, startFrame, chunks>>

Chunk == [frames : [Slots -> Nat], valid : [Slots -> BOOLEAN],
          user : [Slots -> BOOLEAN], system : [Slots -> BOOLEAN], put : BOOLEAN]

Init ==
  /\ options \in Options
  /\ n \in Lengths
  /\ \E m \in Lengths : notes \in [1 .. m -> SUBSET Actors]
  /\ pc = "parse"
  /\ startFrame0 = 0 /\ startFrame = 0
  /\ chunks = <<>>

-----------------------------------------------------------------------------
\* ActionLabelAnnotationParser: annotations must be one per frame where it is said so.
ParseError ==
  /\ pc = "parse"
  /\ options.alwaysLabelled /\ Len(notes) \notin {0, n}
  /\ pc' = "failed"
  /\ UNCHANGED <<options, n, notes, startFrame0, startFrame, chunks>>

Parsed == pc = "parse" /\ (options.alwaysLabelled => Len(notes) \in {0, n})

TooShort ==
  /\ Parsed /\ n < 2
  /\ pc' = "done"
  /\ UNCHANGED <<options, n, notes, startFrame0, startFrame, chunks>>

\* The random offset leaves room for one whole chunk, if the video has that many frames.
Cap == LET maxStart == IF n > T + 1 THEN n - (T + 1) ELSE 0
       IN  IF maxStart < T - 1 THEN maxStart ELSE T - 1

ChooseStart ==
  /\ Parsed /\ n >= 2
  /\ startFrame0' \in IF options.shuffle THEN 0 .. Cap ELSE {0}
  /\ startFrame' = startFrame0'
  /\ pc' = "main"
  /\ UNCHANGED <<options, n, notes, chunks>>

-----------------------------------------------------------------------------
\* Variant with a defect: the frame's own action is its label.
NoteOfSame(first, end, i) ==
  IF first + i < end /\ first + i < Len(notes) THEN notes[first + i + 1] ELSE {}

\* frame_annotations[first + 1 : end] at slot i; a slice ends where the list ends.
NoteOf(first, end, i) ==
  IF first + 1 + i < end /\ first + 1 + i < Len(notes) THEN notes[first + i + 2] ELSE {}

\* The chunk starting at frame "first" whose first validLen slots are valid: slots beyond
\* repeat the last frame.  A known system action hides the user's.
Annotate(first, end, validLen) ==
  LET note == [i \in Slots |-> NoteOf(first, end, i)]
      system == [i \in Slots |-> "system" \in note[i]]
  IN  [frames |-> [i \in Slots |-> IF i < validLen THEN first + i ELSE n - 1],
       valid |-> [i \in Slots |-> i < validLen],
       user |-> [i \in Slots |-> "user" \in note[i] /\ ~system[i]],
       system |-> system,
       put |-> Len(notes) > 0 /\ ~(options.drop /\ \A i \in Slots : system[i])]

\* The assertion of annotate_frames.
OnlyValidLabelled(c) == \A i \in Slots : c.user[i] \/ c.system[i] => c.valid[i]

Cut(c) ==
  IF c.put /\ ~OnlyValidLabelled(c) THEN UNCHANGED chunks ELSE chunks' = Append(chunks, c)

\* Variant with a defect: the chunks overlap in the frame looked ahead at.
MainChunkOverlapping ==
  /\ pc = "main" /\ startFrame + (T + 1) <= n
  /\ Cut(Annotate(startFrame, startFrame + (T + 1), T))
  /\ startFrame' = startFrame + (IF T > 1 THEN T - 1 ELSE 1)
  /\ UNCHANGED <<options, n, notes, pc, startFrame0>>

MainChunk ==
  /\ pc = "main" /\ startFrame + (T + 1) <= n
  /\ LET c == Annotate(startFrame, startFrame + (T + 1), T)
     IN  /\ Cut(c)
         /\ IF c.put /\ ~OnlyValidLabelled(c)
              THEN pc' = "failed" /\ UNCHANGED startFrame
              ELSE startFrame' = startFrame + T /\ UNCHANGED pc
  /\ UNCHANGED <<options, n, notes, startFrame0>>

\* The last, shorter chunk: there is one unless the frames came out even.
FinalTail ==
  /\ pc = "main" /\ startFrame + (T + 1) > n
  /\ IF startFrame < n - 1
       THEN LET c == Annotate(startFrame, n, n - 1 - startFrame)
            IN  Cut(c) /\ pc' = IF c.put /\ ~OnlyValidLabelled(c) THEN "failed" ELSE "done"
       ELSE pc' = "done" /\ UNCHANGED chunks
  /\ UNCHANGED <<options, n, notes, startFrame0, startFrame>>

Next == ParseError \/ TooShort \/ ChooseStart \/ MainChunk \/ FinalTail

Spec == Init /\ [][Next]_vars

-----------------------------------------------------------------------------
(* Properties *)

TypeOK ==
  /\ options \in Options
  /\ n \in Lengths
  /\ notes \in Seq(SUBSET Actors)
  /\ pc \in {"parse", "main", "done", "failed"}
  /\ startFrame0 \in Nat /\ startFrame \in Nat
  /\ chunks \in Seq(Chunk)

Covers(c, f) == \E i \in Slots : c.valid[i] /\ c.frames[i] = f

\* The chunks tile the video: a frame is valid in at most one slot of one chunk, and when
\* the video is done every frame from the random offset to the last but one, which is the
\* last with a frame to look ahead at, is in some chunk (start_frame += stride, the tail).
\* The offset costs less than a chunk, and never the only whole one: a video of T + 1
\* frames or more begins with a chunk that is valid throughout.
Tiling ==
  /\ \A j, k \in 1 .. Len(chunks) : \A i, h \in Slots :
       /\ chunks[j].valid[i] /\ chunks[k].valid[h]
       /\ chunks[j].frames[i] = chunks[k].frames[h]
       => j = k /\ i = h
  /\ pc = "done" /\ n >= 2 =>
       \A f \in startFrame0 .. n - 2 :
         \E k \in 1 .. Len(chunks) : Covers(chunks[k], f)
  /\ pc = "done" /\ n >= T + 1 =>
       startFrame0 < T /\ chunks # <<>> /\ \A i \in Slots : chunks[1].valid[i]

Actor(note) == IF "system" \in note THEN "system" ELSE IF "user" \in note THEN "user" ELSE "nobody"

\* A frame is labelled with who acted on the next frame of the video: also at the end of
\* a chunk, where that frame is in the next chunk; a padded slot and a frame whose next
\* frame nobody annotated have no label.
LabelledWithNextFrame ==
  \A k \in 1 .. Len(chunks) : \A i \in Slots :
    LET c == chunks[k]
        next == c.frames[i] + 1
        actor == IF c.valid[i] /\ next < Len(notes) THEN Actor(notes[next + 1]) ELSE "nobody"
    IN  (c.user[i] <=> actor = "user") /\ (c.system[i] <=> actor = "system")

\* The assertion in annotate_frames (a known action is on a valid frame) never fails,
\* whatever the annotations are: a video is given up only for the number of its
\* annotations, before anything of it is put.
AssertionHolds == pc = "failed" => options.alwaysLabelled /\ chunks = <<>>

\* What the option drop_chunks_with_only_system_actions says: a chunk in which all that is
\* known on its valid frames is system actions is not put.
SystemOnlyDropped ==
  options.drop =>
    \A k \in 1 .. Len(chunks) :
      (\A i \in Slots : chunks[k].valid[i] => chunks[k].system[i]) => ~chunks[k].put
=============================================================================
