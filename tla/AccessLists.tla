------------------------------ MODULE AccessLists ------------------------------
(***************************************************************************)
(* The merged block access list of a big block (txgen-cli/src/bal.rs).     *)
(*                                                                         *)
(* A list maps an account to [storage, reads, values]: storage maps a slot *)
(* to its changes, values are the changes of its balance (its nonce and    *)
(* its code are merged the same way), and a change is [at, of], where of   *)
(* is the block and the index there it comes from.  A block with k         *)
(* transactions uses the indices 0 (before them) to k + 1 (after them).    *)
(***************************************************************************)
EXTENDS Naturals, Sequences, FiniteSets, Functions, SequencesExt

\* shift_account_changes
ShiftChanges(changes, by) == [k \in DOMAIN changes |-> [changes[k] EXCEPT !.at = @ + by]]

\* fault: one index between two blocks
ShiftByOne(account, offset, segment) ==
    LET by == offset + segment
    IN  [storage |-> [s \in DOMAIN account.storage |-> ShiftChanges(account.storage[s], by)],
         reads |-> account.reads,
         values |-> ShiftChanges(account.values, by)]

Shift(account, offset, segment) ==
    LET by == offset + 2 * segment
    IN  [storage |-> [s \in DOMAIN account.storage |-> ShiftChanges(account.storage[s], by)],
         reads |-> account.reads,
         values |-> ShiftChanges(account.values, by)]

\* merge_account_changes and merge_slot_changes: a slot that is written is not
\* listed as read.
MergeAccount(existing, incoming) ==
    LET slots == DOMAIN existing.storage \cup DOMAIN incoming.storage
        Of(account, s) == IF s \in DOMAIN account.storage THEN account.storage[s] ELSE <<>>
    IN  [storage |-> [s \in slots |-> Of(existing, s) \o Of(incoming, s)],
         reads |-> (existing.reads \cup incoming.reads) \ slots,
         values |-> existing.values \o incoming.values]

\* merge_block_access_list
MergeList(merged, incoming, offset, segment) ==
    [a \in DOMAIN merged \cup DOMAIN incoming |->
        IF a \notin DOMAIN incoming THEN merged[a]
        ELSE LET shifted == Shift(incoming[a], offset, segment)
             IN  IF a \in DOMAIN merged THEN MergeAccount(merged[a], shifted) ELSE shifted]

\* sort_account_changes (unstable, but see MergedListIsChronological: no two
\* changes of a list are at one index).
SortChanges(changes) == SortSeq(changes, LAMBDA c, d : c.at < d.at)
SortAccount(account) ==
    [account EXCEPT !.storage = [s \in DOMAIN account.storage |-> SortChanges(account.storage[s])],
                    !.values = SortChanges(@)]

\* merge_block_access_lists: counts[i] transactions precede those of block
\* i + 1, and every list comes with its block.
MergeLists(lists, sizes) ==
    LET offset[i \in 1..Len(lists)] == IF i = 1 THEN 0 ELSE offset[i - 1] + sizes[i - 1]
        merged[i \in 0..Len(lists)] ==
            IF i = 0 THEN <<>>
            ELSE LET before == merged[i - 1]
                 IN  MergeList(before, lists[i], offset[i], i - 1)
        all == merged[Len(lists)]
    IN  [a \in DOMAIN all |-> SortAccount(all[a])]
=============================================================================
