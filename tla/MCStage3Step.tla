---------------------------- MODULE MCStage3Step ----------------------------
\* Rotations of three things stand for those of the arms: the smallest group in which
\* order matters.  Repositories, one with nothing to use, with clips longer than the
\* sequence, as long and shorter; and others with damaged ones.
EXTENDS Stage3Step

MCRotation == {p \in [1 .. 3 -> 1 .. 3] : \A x, y \in 1 .. 3 : p[x] = p[y] => x = y}
MCIdentity == <<1, 2, 3>>
MCCompose(x, y) == [i \in 1 .. 3 |-> x[y[i]]]
MCInverted(x) == [i \in 1 .. 3 |-> CHOOSE j \in 1 .. 3 : x[j] = i]

Turns == <<<<2, 1, 3>>, <<3, 1, 2>>, <<1, 3, 2>>, <<3, 2, 1>>, <<2, 3, 1>>, <<2, 1, 3>>, <<1, 2, 3>>>>
MCActionTable ==
  [r \in 0 .. 6 |-> [a \in {"left", "right"} |->
    [pos |-> IF a = "left" THEN r * r ELSE 10 - r, rot |-> Turns[IF a = "left" THEN r + 1 ELSE 7 - r], grip |-> r % 2]]]
MCMidRow == [a \in {"left", "right"} |-> [pos |-> 3, rot |-> MCIdentity, grip |-> 0]]

Whole(start, len) == [start |-> start, len |-> len, video |-> len, rows |-> len,
                      latents |-> TRUE, raw_text |-> TRUE, text_emb |-> TRUE]
Read == <<<<Whole(0, 5), [Whole(5, 2) EXCEPT !.latents = FALSE]>>,
          <<[Whole(0, 3) EXCEPT !.latents = FALSE]>>,
          <<Whole(1, 3), [Whole(4, 2) EXCEPT !.text_emb = FALSE], [Whole(2, 4) EXCEPT !.rows = 3]>>>>
Damaged == <<<<[Whole(2, 4) EXCEPT !.video = 2, !.raw_text = FALSE], Whole(3, 1)>>,
             <<[Whole(1, 3) EXCEPT !.text_emb = FALSE], [Whole(2, 4) EXCEPT !.rows = 1]>>>>

Configuration(repos, stride, used, mode, shuffle, tokenizer, empty) ==
  [repos |-> repos, image_frame_stride |-> stride, used_action_channel_ids |-> used,
   multi_view_image_mode |-> mode, shuffle |-> shuffle, tokenizer |-> tokenizer,
   empty_emb |-> empty, cfg_prob |-> TRUE]
MCConfigs == {Configuration(Read, 1, TRUE, "token_concat", TRUE, "works", TRUE),
              Configuration(Read, 1, TRUE, "frame", TRUE, "works", FALSE),
              Configuration(Read, 2, FALSE, "vertical", FALSE, "works", FALSE),
              Configuration(Read, 3, FALSE, "first", TRUE, "works", TRUE),
              Configuration(Damaged, 2, FALSE, "vertical", FALSE, "raises", FALSE),
              Configuration(Damaged, 1, TRUE, "token_concat", FALSE, "none", FALSE)}
=============================================================================
