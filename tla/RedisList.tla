----------------------------- MODULE RedisList -----------------------------
(***************************************************************************)
(* The three Redis list commands the services hand frames over with.  The  *)
(* server is external to the repository; the commands are modelled from    *)
(* the way the queue classes call them.                                    *)
(***************************************************************************)
EXTENDS Naturals, Sequences

\* Mutant of RPushed: the item goes to the other end (LPUSH).
LPushed(list, item) == <<item>> \o list

\* RPUSH key item: the newest item stands last.
RPushed(list, item) == Append(list, item)

\* Mutant of Popped: the oldest item is read and not taken (LINDEX key 0).
Peeked(list) == list

\* LPOP key: takes the oldest item.  The callers test for an empty list first.
Popped(list) == Tail(list)

\* Mutants of Trimmed: one item too many; the oldest items kept (LTRIM 0 max-1).
TrimmedOneMore(list, max) ==
  IF max = 0 \/ Len(list) <= max THEN list ELSE SubSeq(list, Len(list) - max, Len(list))
TrimmedNewest(list, max) ==
  IF max = 0 \/ Len(list) <= max THEN list ELSE SubSeq(list, 1, max)

\* LTRIM key -max -1: keeps the newest max items.  "-0" is 0, so a maximum of
\* 0 keeps the whole list.
Trimmed(list, max) ==
  IF max = 0 \/ Len(list) <= max
  THEN list
  ELSE SubSeq(list, Len(list) - max + 1, Len(list))

\* The items standing in a list.
Items(list) == { list[i] : i \in DOMAIN list }

\* No item stands twice in a list.
Distinct(list) == \A i, j \in DOMAIN list : list[i] = list[j] => i = j
=============================================================================
