---------------------------- MODULE ActionMapping ----------------------------
(***************************************************************************)
(* Keyboard and mouse actions as tokens (elefant/data/action_mapping.py).  *)
(* The annotator encodes a recorded action; the inference server decodes   *)
(* tokens the policy sampled, any tokens, and what it then presses and     *)
(* moves is recorded and encoded again for the next data set.  A key is    *)
(* its number, 0 standing for all names without one; the edges of the      *)
(* mouse's bins are in tenths of a pixel.                                  *)
(***************************************************************************)
EXTENDS Integers, Sequences, FiniteSets, SequencesExt, FiniteSetsExt

CONSTANTS
  NKeys, NButtons,       \* keys and mouse buttons with a number
  MaxKeys, MaxButtons,   \* max_keys, max_mouse_keys
  MostKeys,              \* keys recorded at once, at most (bound)
  Reach                  \* length of a recorded move, at most (bound)

ASSUME MappingAssumption ==
  /\ {NKeys, NButtons, MaxKeys, MaxButtons, MostKeys, Reach} \subseteq Nat \ {0}

VARIABLES
  stage,      \* "start", "encoded", "decoded", "again"
  action,     \* the action last recorded or decoded: keys, buttons, x, y
  tokens,     \* its tokens, or those it was decoded from
  earlier     \* the tokens it was encoded to or decoded from before (history)

mappingVars == <<stage, action, tokens, earlier>>

-----------------------------------------------------------------------------
(* The bins of the mouse *)

Edges == [x |-> <<-5001, -1441, -761, -461, -291, -181, -111, -61, -31, -11, -1,
                  0, 10, 30, 60, 110, 180, 290, 460, 760, 1440, 5000>>,
          y |-> <<-1501, -241, -121, -71, -41, -31, -11, -1,
                  0, 10, 30, 40, 70, 120, 240, 1500>>]

Centers == [x |-> <<-501, -322, -110, -61, -38, -24, -15, -9, -5, -2, -1,
                    0, 1, 2, 5, 9, 15, 24, 38, 61, 110, 322, 501>>,
            y |-> <<-151, -87, -18, -10, -6, -4, -2, -1, 0, 1, 2, 4, 6, 10, 18, 87, 151>>]

ConservativeCenters ==
  [x |-> <<-501, -145, -77, -47, -30, -19, -12, -7, -4, -2, -1,
           0, 1, 2, 4, 7, 12, 19, 30, 47, 77, 145, 501>>,
   y |-> <<-151, -25, -13, -8, -5, -4, -2, -1, 0, 1, 2, 4, 5, 8, 13, 25, 151>>]

Axes == {"x", "y"}
NBins(axis) == Len(Edges[axis]) + 1

\* torch.bucketize: a bin holds its upper edge.
Bin(axis, move) == Cardinality({i \in DOMAIN Edges[axis] : Edges[axis][i] < 10 * move})

\* Variant with a defect: the bounds are not moved off the edges.
BoundsAsTheyAre(lb, ub) == <<lb, ub>>

\* obtain_lower_upper_bound, in tenths: the bounds of whole pixels in a bin.
Bounds(lb, ub) ==
  IF lb < 0 /\ ub < 0 THEN <<lb + 1, ub + 1 - 10>>
  ELSE IF lb < 0 /\ ub = 0 THEN <<0, 0>>
  ELSE <<lb + 10, ub>>

\* round of tenths: half a pixel goes to the even one.
Round(z) ==
  LET n == z \div 10
      d == z % 10
  IN  IF d > 5 \/ (d = 5 /\ n % 2 = 1) THEN n + 1 ELSE n

\* What tensor_to_action may make of a bin: "truncated_normal" draws from it.
Moves(approach, axis, bin) ==
  CASE approach = "mean" -> {Centers[axis][bin + 1]}
    [] approach = "conservative" -> {ConservativeCenters[axis][bin + 1]}
    [] approach = "truncated_normal" ->
         LET e == Edges[axis]
             b == IF bin = 0 THEN <<e[1] - 10, e[1] - 10>>
                  ELSE IF bin = NBins(axis) - 1 THEN <<Last(e) + 10, Last(e) + 10>>
                  ELSE Bounds(e[bin], e[bin + 1])
         IN  Round(b[1]) .. Round(IF b[2] <= b[1] THEN b[1] ELSE b[2])

Approaches == {"mean", "conservative", "truncated_normal"}

-----------------------------------------------------------------------------
(* Keys and buttons *)

\* A key has one number and a number one key, which _setup_reverse_map turns round.
Keys == 0 .. NKeys
Buttons == 0 .. NButtons

\* An element's place is the number of elements up to it.
Sorted(S) == [i \in 1 .. Cardinality(S) |-> CHOOSE k \in S : Cardinality({m \in S : m <= k}) = i]

\* Variant with a defect: a name without a number takes a token's place.
TokensOfWithNone(pressed, max) ==
  LET s == Sorted(pressed)
  IN  [i \in 1 .. max |-> IF i <= Len(s) THEN s[i] ELSE 0]

\* The numbers in order, cut off at max or filled up with 0.
TokensOf(pressed, max) ==
  LET s == Sorted(pressed \ {0})
  IN  [i \in 1 .. max |-> IF i <= Len(s) THEN s[i] ELSE 0]

\* action_to_tensor
Encoded(a) ==
  [keys |-> TokensOf(a.keys, MaxKeys), buttons |-> TokensOf(a.buttons, MaxButtons),
   x |-> Bin("x", a.x), y |-> Bin("y", a.y)]

\* The actions tensor_to_action may make of tokens.
Decoded(approach, t) ==
  [keys : {ToSet(t.keys) \ {0}}, buttons : {ToSet(t.buttons) \ {0}},
   x : Moves(approach, "x", t.x), y : Moves(approach, "y", t.y)]

-----------------------------------------------------------------------------
None == [keys |-> {}, buttons |-> {}, x |-> 0, y |-> 0]

MappingInit ==
  /\ stage = "start"
  /\ action = None
  /\ tokens = Encoded(None)
  /\ earlier = Encoded(None)

\* annotate_frames: an action of the recording becomes its label.
RecordAction ==
  /\ stage = "start"
  /\ \E a \in [keys : UNION {kSubset(n, Keys) : n \in 0 .. MostKeys},
               buttons : SUBSET (Buttons), x : {0}, y : {0}]
              \cup [keys : {{}}, buttons : {{}}, x : -Reach .. Reach, y : {0}]
              \cup [keys : {{}}, buttons : {{}}, x : {0}, y : -Reach .. Reach] :
       /\ action' = a
       /\ tokens' = Encoded(a)
       /\ earlier' = Encoded(a)
  /\ stage' = "encoded"

\* The policy samples tokens: a key twice, in any order, and gaps between them.
Sample ==
  /\ stage = "start"
  /\ \E t \in [keys : [1 .. MaxKeys -> Keys], buttons : [1 .. MaxButtons -> Buttons],
               x : {Bin("x", 0)}, y : {Bin("y", 0)}]
              \cup [keys : {tokens.keys}, buttons : {tokens.buttons},
                    x : 0 .. NBins("x") - 1, y : 0 .. NBins("y") - 1] :
       tokens' = t
  /\ stage' = "encoded"
  /\ UNCHANGED <<action, earlier>>

\* get_action: tensor_to_action
Decode(approach) ==
  /\ stage = "encoded"
  /\ action' \in Decoded(approach, tokens)
  /\ earlier' = tokens
  /\ stage' = "decoded"
  /\ UNCHANGED tokens

\* What was pressed and moved is recorded in turn.
Reencode ==
  /\ stage = "decoded"
  /\ tokens' = Encoded(action)
  /\ stage' = "again"
  /\ UNCHANGED <<action, earlier>>

StartOver ==
  /\ stage = "again"
  /\ stage' = "start"
  /\ action' = None
  /\ tokens' = Encoded(None)
  /\ earlier' = Encoded(None)

MappingNext ==
  \/ RecordAction
  \/ Sample
  \/ \E approach \in Approaches : Decode(approach)
  \/ Reencode
  \/ StartOver

MappingSpec == MappingInit /\ [][MappingNext]_mappingVars

-----------------------------------------------------------------------------
(* Properties *)

\* Tokens that were decoded by any approach, and whose action was recorded and encoded
\* again, name the same keys, buttons and bins: three tables, two rounding rules and the
\* open end of each bin agree, and sampled tokens come back in the annotators' order.
TokensReadBack ==
  stage = "again" =>
    /\ ToSet(tokens.keys) \ {0} = ToSet(earlier.keys) \ {0}
    /\ ToSet(tokens.buttons) \ {0} = ToSet(earlier.buttons) \ {0}
    /\ tokens.x = earlier.x /\ tokens.y = earlier.y

\* The reading of a recorded action that "conservative" promises: of all moves with this
\* label it is the shortest, in the same direction; and no key that was not pressed is,
\* nor is one forgotten as long as there are tokens for all.
LabelsFaithful ==
  stage = "encoded" /\ tokens = earlier =>
    \A a \in Decoded("conservative", tokens) :
      /\ a.keys \subseteq action.keys /\ a.buttons \subseteq action.buttons
      /\ Cardinality(action.keys \ {0}) <= MaxKeys => a.keys = action.keys \ {0}
      /\ Cardinality(action.buttons \ {0}) <= MaxButtons => a.buttons = action.buttons \ {0}
      /\ \A axis \in Axes :
           IF action[axis] > 0 THEN 0 < a[axis] /\ a[axis] <= action[axis]
           ELSE a[axis] <= 0 /\ action[axis] <= a[axis]
=============================================================================
