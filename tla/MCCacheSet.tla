----------------------------- MODULE MCCacheSet -----------------------------
(***************************************************************************)
(* CacheSet with three ways and five blocks.                               *)
(* Only feb_lfu reads frequency and only commit_eaf the entries of eaf, so *)
(* that View leaves them out under the other policies.                     *)
(***************************************************************************)
EXTENDS CacheSetRefinement

CONSTANTS MaxUses   \* the counts explored under LFU

FewUses == config.policy = "LFU" => \A w \in Ways : frequency[w] <= MaxUses

View ==
  <<config, block, order, stray,
    IF config.policy = "LFU" THEN frequency ELSE << >>,
    IF config.insert = "EAF" THEN eaf ELSE << >>, Len(eaf)>>

=============================================================================
