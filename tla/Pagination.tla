----------------------------- MODULE Pagination -----------------------------
(***************************************************************************)
(* The pages of pending messages: GetPendingWithPagination of the          *)
(* in-memory broker, which cuts a copy of its list, and of the Redis       *)
(* broker, which asks for the length of the list and then for a range.     *)
(* Offsets count from 0, and both may be any integer.                      *)
(***************************************************************************)
EXTENDS Integers, Sequences, SequencesExt

CONSTANTS
  DefaultLimit,  \* limit when none is given: 100
  MaxLimit       \* the largest limit: 10000

ASSUME LimitAssumption ==
  DefaultLimit \in Nat \ {0} /\ MaxLimit \in Nat /\ DefaultLimit <= MaxLimit

Page(items, total) == [items |-> items, total |-> total]

From(offset) == IF offset < 0 THEN 0 ELSE offset

Size(limit) ==
  IF limit <= 0 THEN DefaultLimit ELSE IF limit > MaxLimit THEN MaxLimit ELSE limit

(* Mutated form: the end of the page is inclusive.                         *)
MemoryPageInclusive(list, offset, limit) ==
  LET total == Len(list)
      end   == From(offset) + Size(limit) + 1
  IN IF From(offset) >= total
     THEN Page(<<>>, total)
     ELSE Page(SubSeq(list, From(offset) + 1, IF end > total THEN total ELSE end), total)

(* Both early returns, of an empty list and of an offset beyond the list,  *)
(* give an empty page.                                                     *)
MemoryPage(list, offset, limit) ==
  LET total == Len(list)
      end   == From(offset) + Size(limit)
  IN IF From(offset) >= total
     THEN Page(<<>>, total)
     ELSE Page(SubSeq(list, From(offset) + 1, IF end > total THEN total ELSE end), total)

(* LRANGE: both ends included, the end cut to the list.                    *)
LRange(list, start, stop) ==
  SubSeq(list, start + 1, IF stop >= Len(list) THEN Len(list) ELSE stop + 1)

(* LLEN was total when the list was read first.                            *)
RedisPage(total, list, offset, limit) ==
  IF From(offset) >= total
  THEN Page(<<>>, total)
  ELSE Page(LRange(list, From(offset), From(offset) + Size(limit) - 1), total)

-----------------------------------------------------------------------------
(* What a reader of the pages relies on.                                   *)

(* The items of a page, one by one.                                        *)
IsPage(page, list, offset, limit) ==
  LET first == From(offset) IN
  \A i \in 1 .. MaxLimit + 1 :
    IF i <= Size(limit) /\ first + i <= Len(list)
    THEN i \in DOMAIN page.items /\ page.items[i] = list[first + i]
    ELSE i \notin DOMAIN page.items

(* Page after page with one limit, without a change in between.            *)
Walk(list, limit) ==
  FlattenSeq([k \in 1 .. Len(list) |-> MemoryPage(list, (k - 1) * Size(limit), limit).items])

=============================================================================
