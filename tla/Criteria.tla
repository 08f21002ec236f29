------------------------------- MODULE Criteria -------------------------------
(***************************************************************************)
(* The states of LoopCriteria of lib/estream/estream_types.h, by which     *)
(* streamCollect decides whether the next element belongs to the call: the *)
(* flags LOOP_CRITERIA_STATE_GOOD and _AT_LAST as "good", "at_last" (both) *)
(* and "not_good" (none).                                                  *)
(***************************************************************************)
EXTENDS Integers

(* Mutation: an exclusive read takes its match.                            *)
untilMatchNextInclusive(state, matches, inclusive) ==
    CASE state = "at_last" -> "not_good"
      [] state = "not_good" -> IF matches THEN "not_good" ELSE "good"
      [] state = "good" -> IF matches THEN "at_last" ELSE "good"

untilMatchNext(state, matches, inclusive) ==
    CASE state = "at_last" -> "not_good"
      [] state = "not_good" -> IF matches THEN "not_good" ELSE "good"
      [] state = "good" -> IF ~matches THEN "good"
                           ELSE IF inclusive THEN "at_last" ELSE "not_good"

(* left is until_size before the element is counted.                       *)
untilSizeNext(state, left) ==
    CASE state = "not_good" -> IF left > 0 THEN "good" ELSE "not_good"
      [] state = "good" /\ left = 1 -> "at_last"
      [] OTHER -> IF left <= 0 THEN "not_good" ELSE state
=============================================================================
