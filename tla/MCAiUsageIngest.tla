--------------------------- MODULE MCAiUsageIngest ---------------------------
(***************************************************************************)
(* Two spans of one hour in one batch, and two writers; or one span alone. *)
(***************************************************************************)
EXTENDS AiUsageIngest, TLC

CONSTANTS s1, s2, h1, w1, w2

MCBucketOf == s1 :> h1 @@ s2 :> h1
MCBatches == {<<s1, s2>>}
MCOneBucket == s1 :> h1
MCOneSpan == {<<s1>>}
=============================================================================
