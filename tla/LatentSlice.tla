----------------------------- MODULE LatentSlice -----------------------------
(***************************************************************************)
(* The training examples of elefant/data/lerobot_latent_dataset.py: a clip *)
(* of a robot episode (a range of video frames and the rows of the action  *)
(* table beside it) becomes a sequence of T slots.  Slot by slot an        *)
(* example holds a frame, the rows of actions the frame is labelled with   *)
(* and whether they are real; a long clip is sliced, a short one padded,   *)
(* and the poses are rebased on the first real label of the slice.         *)
(***************************************************************************)
EXTENDS Integers, SequencesExt

CONSTANTS
  Arms, Rotation, Compose(_, _), Inverted(_), Identity,   \* poses of the arms
  ActionTable,       \* the rows of the episodes' action tables, counted from 0
  MidRow,            \* the row that normalises to zeros
  Configs,           \* configurations of the data set, "repos" among them: the repositories under
                     \* dataset_path as sequences of clips, one per action_config of an episode
  NumViews,          \* len(used_video_keys)
  T                  \* n_seq_timesteps

\* A clip: its frames in the episode, how many of them the video holds and how many rows the
\* action table, and which of the files beside it exist.
Clips == [start : Nat, len : Nat, video : Nat, rows : Nat,
          latents : BOOLEAN, raw_text : BOOLEAN, text_emb : BOOLEAN]

Poses == [Arms -> [pos : Int, rot : Rotation, grip : Int]]

\* A label of more than one row is not rebased: _rebase_item_actions_to_slice_start reads a
\* channel at its own column, which holds for image_frame_stride = 1.
ASSUME LatentAssumption ==
  /\ T \in Nat \ {0} /\ NumViews \in Nat \ {0}
  /\ Configs \subseteq [repos : Seq(Seq(Clips)), image_frame_stride : Nat \ {0},
                        used_action_channel_ids : BOOLEAN, shuffle : BOOLEAN,
                        multi_view_image_mode : {"vertical", "frame", "first", "token_concat"},
                        tokenizer : {"works", "none", "raises"}, empty_emb : BOOLEAN, cfg_prob : BOOLEAN]
  /\ \A c \in Configs : c.used_action_channel_ids => c.image_frame_stride = 1

\* The rows of a clip are rows of the table.
ASSUME TableAssumption ==
  /\ \A r \in DOMAIN ActionTable : ActionTable[r] \in Poses
  /\ \A c \in Configs : \A d \in DOMAIN c.repos : \A i \in DOMAIN c.repos[d] :
       LET m == c.repos[d][i] IN m.start .. m.start + m.rows - 1 \subseteq DOMAIN ActionTable

\* Rotations are a group.
ASSUME RotationAssumption ==
  /\ Identity \in Rotation
  /\ \A x \in Rotation : Inverted(x) \in Rotation /\ Compose(x, Inverted(x)) = Identity
  /\ \A x, y \in Rotation : Compose(x, y) \in Rotation
  /\ \A x, y, z \in Rotation : Compose(Compose(x, y), z) = Compose(x, Compose(y, z))
  /\ \A x \in Rotation : Compose(Identity, x) = x

VARIABLES
  config,  \* the data set's configuration
  todo,    \* indices the sampler has not drawn in this epoch
  clip,    \* the clip of the example
  item     \* ActionLabelVideoDatasetItem

latentVars == <<config, todo, clip, item>>

-----------------------------------------------------------------------------
(* Which clip an index means *)

Repos == config.repos

\* parse_meta keeps the clips that have a latent file for every camera.
NewMetas(repo) == {i \in DOMAIN repo : repo[i].latents}

\* An index stands for the clip it numbers: item_id_to_dataset_id and acc_dset_num count
\* through the clips kept, repository by repository.
Indices == UNION {{d} \X NewMetas(Repos[d]) : d \in DOMAIN Repos}

ClipOf(idx) == Repos[idx[1]][idx[2]]

-----------------------------------------------------------------------------
(* Poses: translations subtract, rotations are taken back to the reference *)

\* Variant with a defect: the rotations are composed the other way round.
RelativeSwapped(row, ref) ==
  [a \in Arms |-> [pos |-> row[a].pos - ref[a].pos,
                   rot |-> Compose(row[a].rot, Inverted(ref[a].rot)), grip |-> row[a].grip]]

\* get_relative_pose and _rebase_compact_action_sequence, one row; the gripper is absolute.
Relative(row, ref) ==
  [a \in Arms |-> [pos |-> row[a].pos - ref[a].pos,
                   rot |-> Compose(Inverted(ref[a].rot), row[a].rot), grip |-> row[a].grip]]

\* The quantiles' affine map, and back; a masked entry is zero after it.
Normalise(row) == [normalised |-> row]
Denormalise(value) == value.normalised
Zeros == Normalise(MidRow)

-----------------------------------------------------------------------------
(* _get_range_image_data, _cat_video_images, _merge_multi_view_images *)

VideoFrames(c) == IF c.video < c.len THEN c.video ELSE c.len

Strided(n) == (n - 1) \div config.image_frame_stride + 1

ImageFrames(c) == [k \in 1 .. Strided(VideoFrames(c)) |-> c.start + (k - 1) * config.image_frame_stride]

\* In mode "frame" every view is a slot of its own, in the others the views make one image.
Views == IF config.multi_view_image_mode = "frame" THEN NumViews ELSE 1

PerView(s) == [k \in 1 .. Views * Len(s) |-> s[(k - 1) \div Views + 1]]

-----------------------------------------------------------------------------
(* _get_range_hf_data, _action_post_process *)

Masked == [real |-> FALSE, value |-> Zeros]

RelativeRows(c) ==
  [r \in 1 .. c.rows |-> [real |-> TRUE,
                          value |-> Normalise(Relative(ActionTable[c.start + r - 1], ActionTable[c.start]))]]

RequiredActionNum(c) == Strided(c.len) * config.image_frame_stride

\* Variants with a defect: the masked rows go behind, or nowhere.
PaddedInBack(c) == RelativeRows(c) \o [i \in 1 .. config.image_frame_stride |-> Masked]
Unpadded(c) == RelativeRows(c)

\* A stride of masked rows goes in front: a frame is labelled with the rows that led up to it.
PaddedInFront(c) == [i \in 1 .. config.image_frame_stride |-> Masked] \o RelativeRows(c)

Labels(c) ==
  LET s == config.image_frame_stride
      rows == PaddedInFront(c)
  IN [k \in 1 .. Strided(c.len) |-> SubSeq(rows, (k - 1) * s + 1, k * s)]

-----------------------------------------------------------------------------
(* _get_selected_text_embedding, _get_cfg_text_embedding *)

\* A tokenizer that is not configured gives nothing, a broken one raises.
CanEncode == config.tokenizer = "works"

\* The raw text, which is preferred, if it can be encoded, else the embedding stored with the
\* latents; raw text that cannot be encoded and no such embedding raise.
OwnText(c) == IF c.raw_text /\ CanEncode THEN {"raw_text"}
              ELSE IF c.text_emb THEN {"text_emb"} ELSE {}

\* What classifier-free guidance puts in its place; encoding "" with a broken tokenizer raises.
EmptyText == IF config.empty_emb THEN {"empty_emb"}
             ELSE CASE config.tokenizer = "works" -> {"empty_text"}
                    [] config.tokenizer = "none" -> {"zeros"}
                    [] config.tokenizer = "raises" -> {}

\* Once when the text is selected and once more in _cat_video_images, which drops what is
\* still there.
Texts(c) == IF OwnText(c) = {} THEN {} ELSE OwnText(c) \union (IF config.cfg_prob THEN EmptyText ELSE {})
TextCanRaise(c) == OwnText(c) = {} \/ (config.cfg_prob /\ EmptyText = {})

-----------------------------------------------------------------------------
(* __getitem__ up to the slice *)

\* frame_ids has a second entry, and both assertions hold.
Aligned(c) == /\ c.len >= 2
              /\ VideoFrames(c) > 0 /\ c.rows > 0
              /\ Len(PaddedInFront(c)) >= RequiredActionNum(c)
              /\ Strided(VideoFrames(c)) = Strided(c.len)

RawItem(c, text) ==
  LET labels == PerView(Labels(c))
  IN [frames |-> PerView(ImageFrames(c)),
      action_annotations |-> labels,
      user_action_mask |-> [k \in 1 .. Len(labels) |-> \E n \in DOMAIN labels[k] : labels[k][n].real],
      valid_frame_mask |-> [k \in 1 .. Len(labels) |-> TRUE],
      text_embeddings |-> text]

-----------------------------------------------------------------------------
(* _ensure_fixed_sequence_length *)

SliceStarts(n) == IF config.shuffle /\ n > T THEN 0 .. n - T ELSE {0}

Fixed(raw, start) ==
  LET n == Len(raw.frames)
      Sliced(s) == SubSeq(s, start + 1, IF n <= T THEN n ELSE start + T)
      Pad(s, x) == Sliced(s) \o [i \in 1 .. T - Len(Sliced(s)) |-> x]
  IN [frames |-> Pad(raw.frames, raw.frames[n]),
      action_annotations |-> Pad(raw.action_annotations,
                                 [k \in 1 .. config.image_frame_stride |-> Masked]),
      user_action_mask |-> Pad(raw.user_action_mask, FALSE),
      valid_frame_mask |-> Pad(raw.valid_frame_mask, FALSE),
      text_embeddings |-> raw.text_embeddings]

\* The slots that may be learnt from: _compute_effective_mask.
Supervised(it) == {k \in 1 .. T : it.valid_frame_mask[k] /\ it.user_action_mask[k]}

FirstSupervised(it) == CHOOSE k \in Supervised(it) : \A j \in Supervised(it) : k <= j

\* _rebase_item_actions_to_slice_start: the first real label becomes the origin of those after it.
Rebased(it) ==
  IF ~config.used_action_channel_ids \/ Supervised(it) = {} THEN it
  ELSE LET first == FirstSupervised(it)
           ref == Denormalise(it.action_annotations[first][1].value)
           Rebase(label) == [label EXCEPT ![1].value = Normalise(Relative(Denormalise(@), ref))]
       IN [it EXCEPT !.action_annotations =
             [k \in 1 .. T |-> IF k < first THEN @[k] ELSE Rebase(@[k])]]

-----------------------------------------------------------------------------
LatentInit ==
  /\ config \in Configs
  /\ todo = Indices
  /\ clip = <<>>
  /\ item = <<>>

\* The sampler draws an index it has not drawn in this epoch.
Draw(idx) ==
  /\ todo' = todo \ {idx}
  /\ clip' = ClipOf(idx)
  /\ UNCHANGED config

GetItem(idx) ==
  /\ Draw(idx)
  /\ Aligned(clip')
  /\ \E text \in Texts(clip') :
       LET raw == RawItem(clip', text)
       IN \E start \in SliceStarts(Len(raw.frames)) : item' = Rebased(Fixed(raw, start))

\* An assertion fails, there is no second frame to tell the stride from, or the text raises.
GetItemRaises(idx) ==
  /\ Draw(idx)
  /\ ~Aligned(clip') \/ TextCanRaise(clip')
  /\ item' = <<>>

NewEpoch ==
  /\ todo = {}
  /\ todo' = Indices
  /\ clip' = <<>>
  /\ UNCHANGED <<config, item>>
=============================================================================
